----------------------- MODULE CheckpointVotingProofs ------------------------
(***************************************************************************)
(* The theorems about CheckpointVoting, for any interval, lifetime, set of *)
(* hashes, quorum and bounds, after facts about the operators of           *)
(* CheckpointStore: the arithmetic of heights that are multiples of        *)
(* CHECKPOINT_INTERVAL, and what the immutable height is and when it can   *)
(* only grow.                                                              *)
(***************************************************************************)
EXTENDS CheckpointVoting, FiniteSets, WellFoundedInduction, TLAPS

-----------------------------------------------------------------------------
(* Division. *)

\* Quotient and remainder of natural numbers.
LEMMA DivFact ==
  \A a \in Nat, n \in Nat \ {0} :
    /\ a \div n \in Nat /\ a % n \in Nat
    /\ n * (a \div n) <= a /\ a < n * (a \div n) + n
    /\ a % n = a - n * (a \div n) /\ a % n < n
  OBVIOUS

\* A remainder is determined by the form n * q + r.
LEMMA ModUnique ==
  \A n \in Nat \ {0}, q \in Nat, r \in Nat : r < n => (n * q + r) % n = r
  OBVIOUS

\* Steps of n leave the remainder modulo n alone.
LEMMA ModAdd ==
  ASSUME NEW a \in Nat, NEW n \in Nat \ {0}, NEW k \in Nat
  PROVE  (a + n * k) % n = a % n
<1> DEFINE q == a \div n
           r == a % n
<1>1. q \in Nat /\ r \in Nat /\ r < n /\ a = n * q + r
  BY DivFact
<1> HIDE DEF q, r
<1>2. a + n * k = n * (q + k) + r
  BY <1>1
<1>3. (n * (q + k) + r) % n = r
  BY <1>1, ModUnique
<1> QED BY <1>2, <1>3 DEF r

\* Rounding down, as quorum_cop::blockchain_detached does.
LEMMA RoundDownFact ==
  ASSUME NEW h \in Nat
  PROVE  /\ h - (h % CHECKPOINT_INTERVAL) \in Nat
         /\ h - (h % CHECKPOINT_INTERVAL) <= h
         /\ (h - (h % CHECKPOINT_INTERVAL)) % CHECKPOINT_INTERVAL = 0
<1> DEFINE q == h \div CHECKPOINT_INTERVAL
           r == h % CHECKPOINT_INTERVAL
<1>1. q \in Nat /\ r \in Nat /\ h = CHECKPOINT_INTERVAL * q + r
  BY DivFact, IntervalAssumption
<1> SUFFICES h - r \in Nat /\ h - r <= h /\ (h - r) % CHECKPOINT_INTERVAL = 0
  OBVIOUS
<1> HIDE DEF q, r
<1>2. h - r = CHECKPOINT_INTERVAL * q + 0 /\ h - r \in Nat /\ h - r <= h
  BY <1>1, IntervalAssumption
<1>3. (CHECKPOINT_INTERVAL * q + 0) % CHECKPOINT_INTERVAL = 0
  BY <1>1, ModUnique, IntervalAssumption
<1> QED BY <1>2, <1>3

\* Rounding up, as process_quorums and checkpoints::block_added do.
LEMMA RoundUpFact ==
  ASSUME NEW h \in Nat
  PROVE  /\ RoundUp(h) \in Nat
         /\ RoundUp(h) >= h
         /\ RoundUp(h) < h + CHECKPOINT_INTERVAL
         /\ RoundUp(h) % CHECKPOINT_INTERVAL = 0
<1> DEFINE q == h \div CHECKPOINT_INTERVAL
           r == h % CHECKPOINT_INTERVAL
<1>1. q \in Nat /\ r \in Nat /\ r < CHECKPOINT_INTERVAL /\ h = CHECKPOINT_INTERVAL * q + r
  BY DivFact, IntervalAssumption
<1>2. CASE r = 0
  BY <1>2, <1>1, IntervalAssumption DEF RoundUp
<1>3. CASE r > 0
  <2>1. RoundUp(h) = h + (CHECKPOINT_INTERVAL - r)
    BY <1>3 DEF RoundUp
  <2> HIDE DEF q, r
  <2>2. RoundUp(h) = CHECKPOINT_INTERVAL * (q + 1) + 0
    BY <1>1, <2>1, IntervalAssumption
  <2>3. RoundUp(h) % CHECKPOINT_INTERVAL = 0
    BY <1>1, <2>2, ModUnique, IntervalAssumption
  <2> QED BY <1>1, <1>3, <2>1, <2>3, IntervalAssumption
<1> QED BY <1>1, <1>2, <1>3

\* Where a loop with step CHECKPOINT_INTERVAL stops.
LEMMA LoopEndFact ==
  ASSUME NEW from \in Nat, NEW end \in Nat
  PROVE  /\ LoopEnd(from, end) \in Nat
         /\ LoopEnd(from, end) >= from
         /\ LoopEnd(from, end) >= end
         /\ from < end => LoopEnd(from, end) < end + CHECKPOINT_INTERVAL
         /\ from >= end => LoopEnd(from, end) = from
         /\ from % CHECKPOINT_INTERVAL = 0 => LoopEnd(from, end) % CHECKPOINT_INTERVAL = 0
<1> DEFINE k == (end - from - 1) \div CHECKPOINT_INTERVAL
<1>1. CASE from >= end
  BY <1>1 DEF LoopEnd
<1>2. CASE from < end
  <2>1. end - from - 1 \in Nat
    BY <1>2
  <2>2. /\ k \in Nat /\ CHECKPOINT_INTERVAL * k <= end - from - 1
        /\ end - from - 1 < CHECKPOINT_INTERVAL * k + CHECKPOINT_INTERVAL
    BY <2>1, DivFact, IntervalAssumption, Zenon
  <2>3. LoopEnd(from, end) = from + CHECKPOINT_INTERVAL * (k + 1)
    BY <1>2 DEF LoopEnd
  <2> HIDE DEF k
  <2>4. CHECKPOINT_INTERVAL * (k + 1) = CHECKPOINT_INTERVAL * k + CHECKPOINT_INTERVAL
    BY <2>2, IntervalAssumption
  <2>5. CHECKPOINT_INTERVAL * k \in Nat /\ k + 1 \in Nat
    BY <2>2, IntervalAssumption
  <2>6. (from + CHECKPOINT_INTERVAL * (k + 1)) % CHECKPOINT_INTERVAL = from % CHECKPOINT_INTERVAL
    BY <2>5, ModAdd, IntervalAssumption, Zenon
  <2> QED BY <1>2, <2>2, <2>3, <2>4, <2>5, <2>6, IntervalAssumption
<1> QED BY <1>1, <1>2

-----------------------------------------------------------------------------
(* Sets of signatures. *)

\* A checkpoint without signatures has none to count.
LEMMA EmptyCardinality == \A S : S = {} => Cardinality(S) = 0
<1> DEFINE Q(g) == g = [T \in SUBSET {} |-> IF T = {} THEN 0 ELSE 1 + g[T \ {CHOOSE x : x \in T}]]
           CS == CHOOSE g : Q(g)
<1>1. Cardinality({}) = CS[{}]
  BY DEF Cardinality
<1>2. Q([T \in SUBSET {} |-> 0])
  OBVIOUS
<1>3. Q(CS)
  BY <1>2, Zenon
<1> HIDE DEF CS
<1>4. CS[{}] = 0
  BY <1>3
<1>5. Cardinality({}) = 0
  BY <1>1, <1>4
<1> QED BY <1>5, Zenon

-----------------------------------------------------------------------------
(* Least and greatest heights of a set. *)

\* A non-empty set of natural numbers has a least element.
LEMMA MinExists ==
  ASSUME NEW S \in SUBSET Nat, S # {}
  PROVE  \E m \in S : \A k \in S : m <= k
<1> DEFINE R == OpToRel(<, Nat)
<1>1. IsWellFoundedOn(R, Nat)
  BY NatLessThanWellFounded, Zenon
<1>2. \A x, y \in Nat : <<y, x>> \in R <=> y < x
  BY DEF OpToRel
<1> HIDE DEF R
<1>3. PICK x \in S : \A y \in S : ~ (<<y, x>> \in R)
  BY <1>1, WFMin, Zenon
<1>4. \A y \in S : ~ (y < x)
  BY <1>2, <1>3, Zenon
<1>5. \A y \in S : x <= y
  BY <1>4
<1> QED BY <1>5

\* A non-empty bounded set of natural numbers has a greatest element.
LEMMA MaxExists ==
  ASSUME NEW S \in SUBSET Nat, S # {}, NEW n \in Nat, \A k \in S : k <= n
  PROVE  \E m \in S : \A k \in S : k <= m
<1> DEFINE T == {n - k : k \in S}
<1>1. T \in SUBSET Nat
  OBVIOUS
<1>2. T # {}
  BY Zenon
<1>3. PICK t \in T : \A u \in T : t <= u
  BY <1>1, <1>2, MinExists, Zenon
<1>4. PICK m \in S : t = n - m
  BY <1>3
<1>5. \A k \in S : n - m <= n - k
  BY <1>3, <1>4, Zenon
<1> QED BY <1>4, <1>5

\* Max picks it.
LEMMA MaxFact ==
  ASSUME NEW S \in SUBSET Nat, S # {}, NEW n \in Nat, \A k \in S : k <= n
  PROVE  Max(S) \in S /\ \A k \in S : k <= Max(S)
<1>1. PICK m \in S : \A k \in S : k <= m
  BY MaxExists, Zenon
<1>2. \E x \in S : \A y \in S : x >= y
  BY <1>1
<1> QED BY <1>2, Zenon DEF Max

\* Min picks the least element.
LEMMA MinFact ==
  ASSUME NEW S \in SUBSET Nat, S # {}
  PROVE  Min(S) \in S /\ \A k \in S : Min(S) <= k
<1>1. \E x \in S : \A y \in S : x =< y
  BY MinExists
<1> QED BY <1>1, Zenon DEF Min

-----------------------------------------------------------------------------
(* The immutable height of a table whose checkpoints are all signed. *)

\* A table of checkpoints made of votes, none of the program.
SignedTable(db) ==
  /\ DOMAIN db \subseteq Nat
  /\ \A h \in DOMAIN db : IsFramePix(db[h])

\* The range read for a height is a non-empty, bounded set of heights.
LEMMA RangeDownFact ==
  ASSUME NEW db, DOMAIN db \subseteq Nat, DOMAIN db # {}, NEW height \in Nat
  PROVE  /\ RangeDown(db, height) \in SUBSET Nat
         /\ RangeDown(db, height) # {}
         /\ \E n \in Nat : \A k \in RangeDown(db, height) : k <= n
<1> DEFINE low == Min(DOMAIN db)
<1>1. low \in DOMAIN db /\ low \in Nat
  BY MinFact
<1> HIDE DEF low
<1>2. RangeDown(db, height) = {h \in DOMAIN db : h <= MaxOf(height, low)}
  BY DEF RangeDown, low
<1>3. MaxOf(height, low) \in Nat /\ low <= MaxOf(height, low)
  BY <1>1 DEF MaxOf
<1>4. low \in RangeDown(db, height)
  BY <1>1, <1>2, <1>3
<1>5. \A k \in RangeDown(db, height) : k <= MaxOf(height, low)
  BY <1>2
<1>6. RangeDown(db, height) \in SUBSET Nat
  BY <1>2
<1> QED BY <1>3, <1>4, <1>5, <1>6

\* get_immutable_checkpoint is a height, and unless it is 0 it is the height of
\* a stored checkpoint at or below the given height, with another one above it.
LEMMA ImmutableWitness ==
  ASSUME NEW db, SignedTable(db), NEW height \in Nat
  PROVE  /\ get_immutable_checkpoint(db, height) \in Nat
         /\ get_immutable_checkpoint(db, height) # 0 =>
              /\ get_immutable_checkpoint(db, height) \in DOMAIN db
              /\ \E k \in DOMAIN db : get_immutable_checkpoint(db, height) < k /\ k <= height
<1> DEFINE D == RangeDown(db, height)
           closest == Max(D)
           earlier == D \ {closest}
<1>1. CASE DOMAIN db = {}
  BY <1>1 DEF get_immutable_checkpoint
<1>2. CASE DOMAIN db # {}
  <2>1. D \in SUBSET Nat /\ D # {} /\ D \subseteq DOMAIN db
    BY <1>2, RangeDownFact DEF SignedTable, RangeDown
  <2>2. PICK n \in Nat : \A k \in D : k <= n
    BY <1>2, RangeDownFact DEF SignedTable
  <2>3. closest \in D /\ \A k \in D : k <= closest
    BY <2>1, <2>2, MaxFact, Zenon
  <2>4. get_immutable_checkpoint(db, height) = IF earlier # {} THEN Max(earlier) ELSE 0
    BY <1>2, <2>1, <2>3 DEF get_immutable_checkpoint, SignedTable
  <2>5. CASE earlier # {}
    <3>1. earlier \in SUBSET Nat /\ \A k \in earlier : k <= n
      BY <2>1, <2>2
    <3>2. Max(earlier) \in earlier
      BY <3>1, <2>5, MaxFact, Zenon
    <3>3. Max(earlier) < closest
      BY <3>2, <2>1, <2>3
    <3>4. closest <= height
      <4>1. Min(DOMAIN db) \in Nat /\ \A k \in DOMAIN db : Min(DOMAIN db) <= k
        BY <1>2, MinFact DEF SignedTable
      <4>2. closest <= MaxOf(height, Min(DOMAIN db))
        BY <2>3 DEF RangeDown
      <4>3. Min(DOMAIN db) <= Max(earlier) /\ Max(earlier) \in Nat /\ closest \in Nat
        BY <4>1, <3>1, <3>2, <2>1, <2>3
      <4> HIDE DEF closest, earlier
      <4> QED BY <4>1, <4>2, <4>3, <3>3 DEF MaxOf
    <3> HIDE DEF closest
    <3>5. Max(earlier) \in DOMAIN db /\ closest \in DOMAIN db /\ Max(earlier) \in Nat
      BY <2>1, <2>3, <3>1, <3>2
    <3> QED BY <2>4, <2>5, <3>3, <3>4, <3>5
  <2>6. CASE earlier = {}
    BY <2>4, <2>6
  <2> QED BY <2>5, <2>6
<1> QED BY <1>1, <1>2, Zenon

\* Two stored checkpoints at or below the given height make the lower one a
\* lower bound of the immutable height.
LEMMA ImmutableAtLeast ==
  ASSUME NEW db, SignedTable(db), NEW height \in Nat,
         NEW low \in DOMAIN db, NEW high \in DOMAIN db, low < high, high <= height
  PROVE  get_immutable_checkpoint(db, height) >= low
<1> DEFINE D == RangeDown(db, height)
           closest == Max(D)
           earlier == D \ {closest}
<1>1. D \in SUBSET Nat /\ D # {} /\ D \subseteq DOMAIN db
  BY RangeDownFact DEF SignedTable, RangeDown
<1>2. PICK n \in Nat : \A k \in D : k <= n
  BY RangeDownFact DEF SignedTable
<1>3. closest \in D /\ \A k \in D : k <= closest
  BY <1>1, <1>2, MaxFact, Zenon
<1>4. low \in Nat /\ high \in Nat /\ Min(DOMAIN db) \in Nat
  BY MinFact DEF SignedTable
<1>5. high <= MaxOf(height, Min(DOMAIN db)) /\ low <= MaxOf(height, Min(DOMAIN db))
  BY <1>4 DEF MaxOf
<1>6. low \in D /\ high \in D
  BY <1>5 DEF RangeDown
<1>7. low # closest
  BY <1>3, <1>4, <1>6
<1>8. earlier \in SUBSET Nat /\ earlier # {} /\ \A k \in earlier : k <= n
  BY <1>1, <1>2, <1>6, <1>7
<1>9. low <= Max(earlier) /\ Max(earlier) \in Nat
  BY <1>6, <1>7, <1>8, MaxFact, Zenon
<1>10. get_immutable_checkpoint(db, height) = Max(earlier)
  BY <1>1, <1>3, <1>8 DEF get_immutable_checkpoint, SignedTable
<1> QED BY <1>4, <1>9, <1>10

\* Growing the table and the chain does not lower the immutable height.
LEMMA ImmutableGrows ==
  ASSUME NEW db, SignedTable(db), NEW height \in Nat,
         NEW db2, SignedTable(db2), NEW height2 \in Nat,
         DOMAIN db \subseteq DOMAIN db2, height <= height2
  PROVE  get_immutable_checkpoint(db2, height2) >= get_immutable_checkpoint(db, height)
<1> DEFINE m == get_immutable_checkpoint(db, height)
<1>1. m \in Nat /\ get_immutable_checkpoint(db2, height2) \in Nat
  BY ImmutableWitness
<1>2. CASE m = 0
  BY <1>1, <1>2
<1>3. CASE m # 0
  <2>1. PICK k \in DOMAIN db : m < k /\ k <= height
    BY <1>3, ImmutableWitness
  <2>2. m \in DOMAIN db2 /\ k \in DOMAIN db2 /\ k <= height2
    BY <1>3, <2>1, ImmutableWitness DEF SignedTable
  <2> HIDE DEF m
  <2>3. get_immutable_checkpoint(db2, height2) >= m
    BY <2>1, <2>2, ImmutableAtLeast
  <2> QED BY <2>3 DEF m
<1> QED BY <1>2, <1>3

-----------------------------------------------------------------------------
(* checkpoints::block_added and blockchain_detached. *)

\* The cull removes only heights below the immutable height, so it keeps the two
\* checkpoints that make it immutable.
LEMMA CullKeepsImmutable ==
  ASSUME NEW db, SignedTable(db), NEW height \in Nat, NEW last
  PROVE  LET culled == remove_block_checkpoints(db, Culled(db, height, last))
         IN  /\ SignedTable(culled)
             /\ get_immutable_checkpoint(culled, height + 1) >=
                  get_immutable_checkpoint(db, height + 1)
<1> DEFINE C == Culled(db, height, last)
           culled == remove_block_checkpoints(db, C)
           m == get_immutable_checkpoint(db, height + 1)
<1>1. DOMAIN culled = DOMAIN db \ C /\ \A h \in DOMAIN culled : culled[h] = db[h]
  BY DEF remove_block_checkpoints, Restrict
<1>2. m = CullEnd(db, height)
  BY DEF CullEnd
<1>3. \A h \in C : h < m
  BY <1>2 DEF Culled, Visited
<1> HIDE DEF C, culled
<1>4. SignedTable(culled)
  BY <1>1 DEF SignedTable
<1>5. m \in Nat /\ get_immutable_checkpoint(culled, height + 1) \in Nat
  BY <1>4, ImmutableWitness
<1>6. CASE m = 0
  BY <1>4, <1>5, <1>6 DEF culled, C
<1>7. CASE m # 0
  <2>1. PICK k \in DOMAIN db : m < k /\ k <= height + 1
    BY <1>7, ImmutableWitness
  <2>2. m \in DOMAIN db
    BY <1>7, ImmutableWitness
  <2>3. k \in Nat
    BY DEF SignedTable
  <2> HIDE DEF m
  <2>4. m \notin C /\ k \notin C
    BY <1>3, <1>5, <2>1, <2>3
  <2>5. m \in DOMAIN culled /\ k \in DOMAIN culled
    BY <1>1, <2>2, <2>4
  <2>6. get_immutable_checkpoint(culled, height + 1) >= m
    BY <1>4, <2>1, <2>5, ImmutableAtLeast
  <2> QED BY <1>4, <2>6 DEF m, culled, C
<1> QED BY <1>6, <1>7

\* A block does not lower the immutable height, with or without a checkpoint.
LEMMA BlockAddedKeepsImmutable ==
  ASSUME NEW db, SignedTable(db), NEW height \in Nat, NEW last,
         NEW given, \A c \in given : IsFramePix(c)
  PROVE  LET db2 == checkpoints_block_added(db, height, last, given)
         IN  /\ SignedTable(db2)
             /\ get_immutable_checkpoint(db2, height + 1) >=
                  get_immutable_checkpoint(db, height + 1)
<1> DEFINE culled == remove_block_checkpoints(db, Culled(db, height, last))
           db2 == checkpoints_block_added(db, height, last, given)
           c == CHOOSE x \in given : TRUE
<1>1. /\ SignedTable(culled)
      /\ get_immutable_checkpoint(culled, height + 1) >= get_immutable_checkpoint(db, height + 1)
  BY CullKeepsImmutable
<1>2. CASE ~Culls(height) \/ given = {}
  BY <1>1, <1>2 DEF checkpoints_block_added
<1>3. CASE Culls(height) /\ given # {}
  <2>1. db2 = update_block_checkpoint(culled, height, c)
    BY <1>3 DEF checkpoints_block_added
  <2>2. IsFramePix(c)
    BY <1>3
  <2> HIDE DEF culled, db2, c
  <2>3. /\ DOMAIN db2 = DOMAIN culled \cup {height}
        /\ \A h \in DOMAIN db2 : db2[h] = IF h = height THEN c ELSE culled[h]
    BY <2>1 DEF update_block_checkpoint
  <2>4. SignedTable(db2)
    BY <1>1, <2>2, <2>3 DEF SignedTable
  <2>5. get_immutable_checkpoint(db2, height + 1) >= get_immutable_checkpoint(culled, height + 1)
    BY <1>1, <2>3, <2>4, ImmutableGrows
  <2>6. /\ get_immutable_checkpoint(db2, height + 1) \in Nat
        /\ get_immutable_checkpoint(culled, height + 1) \in Nat
        /\ get_immutable_checkpoint(db, height + 1) \in Nat
    BY <1>1, <2>4, ImmutableWitness
  <2>7. get_immutable_checkpoint(db2, height + 1) >= get_immutable_checkpoint(db, height + 1)
    BY <1>1, <2>5, <2>6
  <2> QED BY <2>4, <2>7 DEF db2
<1> QED BY <1>2, <1>3

-----------------------------------------------------------------------------
(* The inductive invariant of the votes. *)

\* A table of signed checkpoints.
Table(db) ==
  /\ DOMAIN db \subseteq Nat
  /\ db \in [DOMAIN db -> Checkpoint]
  /\ \A h \in DOMAIN db : IsFramePix(db[h])

\* What a step may do to the table while no block is removed.
Extends(db, db2) ==
  /\ DOMAIN db \subseteq DOMAIN db2
  /\ \A h \in DOMAIN db :
       db[h].block_hash = db2[h].block_hash => db[h].signatures \subseteq db2[h].signatures

(* The inductive invariant.  The next height to vote on is at most one       *)
(* interval above the highest block ever seen, and at or below it while the  *)
(* chain has not been cut deeply: every height signed lies below it.         *)
IInv ==
  /\ TypeOK
  /\ Table(checkpoints)
  /\ Len(chain) >= 1 /\ Len(chain) <= peak + 1
  /\ m_last_checkpointed_height % CHECKPOINT_INTERVAL = 0
  /\ m_last_checkpointed_height <= peak + CHECKPOINT_INTERVAL
  /\ m_last_checkpointed_height < Len(chain) + REORG_SAFETY_BUFFER_BLOCKS
  /\ deepest <= REORG_SAFETY_BUFFER_BLOCKS - CHECKPOINT_INTERVAL =>
       /\ \A v \in signed : v.height < m_last_checkpointed_height
       /\ \A v, w \in signed : v.height = w.height => v.block_hash = w.block_hash

\* REORG_SAFETY_BUFFER_BLOCKS is a height, at least as large as the interval.
LEMMA BufferFact ==
  /\ REORG_SAFETY_BUFFER_BLOCKS \in Nat
  /\ REORG_SAFETY_BUFFER_BLOCKS >= CHECKPOINT_INTERVAL
  /\ CHECKPOINT_INTERVAL \in Nat /\ CHECKPOINT_INTERVAL >= 1
  BY IntervalAssumption DEF REORG_SAFETY_BUFFER_BLOCKS

-----------------------------------------------------------------------------
(* The table. *)

\* handle_checkpoint_vote keeps the table well formed and only extends it.
LEMMA HandleFact ==
  ASSUME NEW db, Table(db), NEW height \in Nat, NEW x \in Hash, NEW votes \in SUBSET Voter
  PROVE  /\ Table(handle_checkpoint_vote(db, height, x, votes))
         /\ Extends(db, handle_checkpoint_vote(db, height, x, votes))
         /\ DOMAIN handle_checkpoint_vote(db, height, x, votes) \subseteq DOMAIN db \cup {height}
<1> DEFINE r == handle_checkpoint_vote(db, height, x, votes)
<1>1. CASE r = db
  BY <1>1 DEF Extends
<1>2. CASE r # db
  <2>1. votes # {}
    BY <1>2, EmptyCardinality, VotingAssumption DEF handle_checkpoint_vote
  <2>2. CASE height \in DOMAIN db /\ db[height].block_hash = x
    <3> DEFINE c == [block_hash |-> x, signatures |-> db[height].signatures \cup votes]
    <3>1. r = update_block_checkpoint(db, height, c)
      BY <1>2, <2>2 DEF handle_checkpoint_vote
    <3>2. db[height] \in Checkpoint
      BY <2>2 DEF Table
    <3>3. c \in Checkpoint /\ IsFramePix(c)
      BY <2>1, <3>2 DEF Checkpoint, IsFramePix
    <3>4. DOMAIN r = DOMAIN db \cup {height} /\ \A h \in DOMAIN r : r[h] = IF h = height THEN c ELSE db[h]
      BY <3>1 DEF update_block_checkpoint
    <3>5. r = [h \in DOMAIN r |-> r[h]]
      BY <3>1 DEF update_block_checkpoint
    <3>6. db[height].signatures \subseteq c.signatures
      OBVIOUS
    <3> HIDE DEF r, c
    <3>7. Table(r)
      BY <3>3, <3>4, <3>5 DEF Table
    <3>8. Extends(db, r)
      BY <3>4, <3>6 DEF Extends
    <3> QED BY <3>4, <3>7, <3>8 DEF r
  <2>3. CASE ~(height \in DOMAIN db /\ db[height].block_hash = x)
    <3> DEFINE c == [block_hash |-> x, signatures |-> votes]
    <3>1. r = update_block_checkpoint(db, height, c)
      BY <1>2, <2>3 DEF handle_checkpoint_vote
    <3>3. c \in Checkpoint /\ IsFramePix(c) /\ c.block_hash = x
      BY <2>1 DEF Checkpoint, IsFramePix
    <3>4. DOMAIN r = DOMAIN db \cup {height} /\ \A h \in DOMAIN r : r[h] = IF h = height THEN c ELSE db[h]
      BY <3>1 DEF update_block_checkpoint
    <3>5. r = [h \in DOMAIN r |-> r[h]]
      BY <3>1 DEF update_block_checkpoint
    <3> HIDE DEF r, c
    <3>7. Table(r)
      BY <3>3, <3>4, <3>5 DEF Table
    <3>8. Extends(db, r)
      BY <2>3, <3>3, <3>4 DEF Extends
    <3> QED BY <3>4, <3>7, <3>8 DEF r
  <2> QED BY <2>2, <2>3
<1> QED BY <1>1, <1>2

\* The voters of a pool entry are voters.
LEMMA VotesForFact ==
  ASSUME NEW pool \in SUBSET Vote, NEW height, NEW x
  PROVE  VotesFor(pool, height, x) \in SUBSET Voter
  BY DEF VotesFor, Vote

\* The node's own votes keep the table well formed and remove no checkpoint.
LEMMA AfterVotesFact ==
  ASSUME NEW db, Table(db), NEW votes \in SUBSET Vote, NEW pool \in SUBSET Vote
  PROVE  /\ Table(CheckpointsAfterVotes(db, votes, pool))
         /\ DOMAIN db \subseteq DOMAIN CheckpointsAfterVotes(db, votes, pool)
<1> DEFINE at == {v.height : v \in votes}
           hashAt(h) == (CHOOSE v \in votes : v.height = h).block_hash
           handled(h) == handle_checkpoint_vote(db, h, hashAt(h), VotesFor(pool, h, hashAt(h)))
           stored == {h \in at : h \in DOMAIN handled(h)}
           r == CheckpointsAfterVotes(db, votes, pool)
<1>1. r = [h \in DOMAIN db \cup stored |-> IF h \in at THEN handled(h)[h] ELSE db[h]]
  BY DEF CheckpointsAfterVotes
<1>2. ASSUME NEW h \in at
      PROVE  h \in Nat /\ Table(handled(h)) /\ DOMAIN db \subseteq DOMAIN handled(h)
  <2>1. PICK v \in votes : v.height = h
    OBVIOUS
  <2>2. (CHOOSE u \in votes : u.height = h) \in votes
    BY <2>1
  <2>3. hashAt(h) \in Hash
    BY <2>2 DEF Vote
  <2>4. h \in Nat
    BY <2>1 DEF Vote
  <2>5. VotesFor(pool, h, hashAt(h)) \in SUBSET Voter
    BY VotesForFact
  <2> HIDE DEF hashAt
  <2>6. Table(handled(h)) /\ Extends(db, handled(h))
    BY <2>3, <2>4, <2>5, HandleFact
  <2> QED BY <2>4, <2>6 DEF Extends
<1>3. at \subseteq Nat /\ stored \subseteq at
  BY DEF Vote
<1>4. \A h \in stored : h \in DOMAIN handled(h)
  OBVIOUS
<1> HIDE DEF at, handled, stored, r
<1>5. DOMAIN r = DOMAIN db \cup stored
  BY <1>1
<1>6. DOMAIN r \subseteq Nat
  BY <1>3, <1>5 DEF Table
<1>7. ASSUME NEW h \in DOMAIN r
      PROVE  r[h] \in Checkpoint /\ IsFramePix(r[h])
  <2>1. CASE h \in at
    <3>1. h \in DOMAIN handled(h)
      BY <1>2, <1>4, <1>5, <2>1
    <3>2. r[h] = handled(h)[h]
      BY <1>1, <1>5, <2>1
    <3>3. Table(handled(h))
      BY <1>2, <2>1
    <3> QED BY <3>1, <3>2, <3>3 DEF Table
  <2>2. CASE h \notin at
    <3>1. r[h] = db[h] /\ h \in DOMAIN db
      BY <1>1, <1>3, <1>5, <2>2, Zenon
    <3> QED BY <3>1 DEF Table
  <2> QED BY <2>1, <2>2
<1>8. r \in [DOMAIN r -> Checkpoint]
  BY <1>1, <1>5, <1>7
<1>9. Table(r)
  BY <1>6, <1>7, <1>8 DEF Table
<1> QED BY <1>5, <1>9 DEF r

\* Removing checkpoints keeps the table well formed.
LEMMA RemoveFact ==
  ASSUME NEW db, Table(db), NEW H
  PROVE  Table(remove_block_checkpoints(db, H))
  BY DEF Table, remove_block_checkpoints, Restrict

\* So does the hook of checkpoints for an added block.
LEMMA AddedFact ==
  ASSUME NEW db, Table(db), NEW height \in Nat, NEW last,
         NEW given \in SUBSET Checkpoint, \A c \in given : IsFramePix(c)
  PROVE  Table(checkpoints_block_added(db, height, last, given))
<1> DEFINE culled == remove_block_checkpoints(db, Culled(db, height, last))
           c0 == CHOOSE c \in given : TRUE
<1>1. Table(culled)
  BY RemoveFact
<1>2. CASE ~Culls(height) \/ given = {}
  BY <1>1, <1>2 DEF checkpoints_block_added
<1>3. CASE ~(~Culls(height) \/ given = {})
  <2>1. c0 \in given
    BY <1>3
  <2>2. c0 \in Checkpoint /\ IsFramePix(c0)
    BY <2>1
  <2>3. checkpoints_block_added(db, height, last, given) =
          update_block_checkpoint(culled, height, c0)
    BY <1>3 DEF checkpoints_block_added
  <2> HIDE DEF culled, c0
  <2>4. Table(update_block_checkpoint(culled, height, c0))
    BY <1>1, <2>2 DEF Table, update_block_checkpoint
  <2> QED BY <2>3, <2>4
<1> QED BY <1>2, <1>3

-----------------------------------------------------------------------------
(* The votes of one block. *)

\* Where the loop of process_quorums starts and where it ends.
LEMMA VoteFromFact ==
  ASSUME m_last_checkpointed_height \in Nat,
         m_last_checkpointed_height % CHECKPOINT_INTERVAL = 0,
         NEW height \in Nat, NEW target \in Nat, Processes(height, target)
  PROVE  LET from == VoteFrom(height, target)
             last == LoopEnd(from, height + 1)
         IN  /\ from \in Nat /\ from >= m_last_checkpointed_height
             /\ last \in Nat /\ last % CHECKPOINT_INTERVAL = 0
             /\ last >= height + 1 /\ last >= m_last_checkpointed_height
             /\ last <= height + CHECKPOINT_INTERVAL \/ last = m_last_checkpointed_height
<1> DEFINE oldest == latest_height(height, target) - VOTE_LIFETIME
           from == VoteFrom(height, target)
           last == LoopEnd(from, height + 1)
<1>1. VOTE_LIFETIME \in Nat /\ latest_height(height, target) \in Nat
  BY VotingAssumption DEF latest_height, MaxOf
<1>2. oldest \in Nat /\ oldest <= height
  BY <1>1 DEF Processes
<1>3. /\ RoundUp(oldest) \in Nat /\ RoundUp(oldest) < oldest + CHECKPOINT_INTERVAL
      /\ RoundUp(oldest) % CHECKPOINT_INTERVAL = 0
  BY <1>2, RoundUpFact
<1>4. from = MaxOf(RoundUp(oldest), m_last_checkpointed_height)
  BY DEF VoteFrom
<1> HIDE DEF oldest, from
<1>5. /\ from \in Nat /\ from >= m_last_checkpointed_height
      /\ from % CHECKPOINT_INTERVAL = 0
      /\ from < height + CHECKPOINT_INTERVAL \/ from = m_last_checkpointed_height
  BY <1>2, <1>3, <1>4, BufferFact DEF MaxOf
<1>6. /\ last \in Nat /\ last >= from /\ last >= height + 1
      /\ from < height + 1 => last < height + 1 + CHECKPOINT_INTERVAL
      /\ from >= height + 1 => last = from
      /\ last % CHECKPOINT_INTERVAL = 0
  <2>1. height + 1 \in Nat /\ from \in Nat
    BY <1>5
  <2> QED BY <1>5, <2>1, LoopEndFact, Zenon
<1> HIDE DEF last
<1>7. last <= height + CHECKPOINT_INTERVAL \/ last = m_last_checkpointed_height
  BY <1>5, <1>6, BufferFact
<1> QED BY <1>5, <1>6, <1>7 DEF from, last

\* The heights voted on are at or above the loop's start and not above the block.
LEMMA DueFact ==
  ASSUME NEW height \in Nat, NEW target, VoteFrom(height, target) \in Nat,
         NEW h \in Due(height, target)
  PROVE  h \in Nat /\ h >= VoteFrom(height, target) /\ h <= height
  BY DEF Due, Visited, Minus

-----------------------------------------------------------------------------
(* IInv is inductive: the initial states and, one lemma each, the actions.   *)

\* A new table, an empty pool and a short chain satisfy the invariant.
LEMMA InitIInv == Init => IInv
<1> SUFFICES ASSUME Init PROVE IInv
  OBVIOUS
<1>1. FirstHeight \in Nat /\ FirstHeight >= 1
  BY VotingAssumption
<1>2. PICK x \in Hash : chain = [i \in 1 .. FirstHeight |-> x]
  BY DEF Init
<1>3. chain \in Seq(Hash) /\ Len(chain) = FirstHeight
  BY <1>1, <1>2
<1>4. checkpoints = [h \in {} |-> 0] /\ DOMAIN checkpoints = {}
  BY DEF Init
<1>5. checkpoints \in [DOMAIN checkpoints -> Checkpoint]
  BY <1>4
<1>6. Table(checkpoints)
  BY <1>4, <1>5 DEF Table
<1>7. TypeOK
  BY <1>1, <1>3, <1>4, <1>5 DEF Init, TypeOK
<1>8. 0 % CHECKPOINT_INTERVAL = 0
  BY BufferFact
<1> QED BY <1>1, <1>3, <1>6, <1>7, <1>8, BufferFact DEF Init, IInv

\* Receiving a vote and checking it against the chain keeps the invariant: only the
\* votes in flight change.
LEMMA VerifyVoteIInv ==
  ASSUME IInv,
         NEW v \in [height : ReceivedHeights, block_hash : Hash, voter : Voter], VerifyVote(v)
  PROVE  IInv'
<1>1. v \in Vote
  BY VotingAssumption, Zenon DEF Vote
<1>2. inflight' \subseteq [vote : Vote, step : {"verified", "pooled"}, votes : SUBSET Voter]
  BY <1>1 DEF VerifyVote, IInv, TypeOK
<1>3. UNCHANGED <<chain, m_last_checkpointed_height, m_checkpoint_pool, checkpoints,
                  m_last_cull_height, signed, peak, deepest>>
  BY DEF VerifyVote
<1> QED BY <1>2, <1>3 DEF IInv, TypeOK, Table

\* add_pool_vote_if_unique keeps the invariant: only the pool and the votes in
\* flight change.
LEMMA AddPoolVoteIInv ==
  ASSUME IInv, NEW t \in inflight, AddPoolVoteIfUnique(t)
  PROVE  IInv'
<1>1. t \in [vote : Vote, step : {"verified", "pooled"}, votes : SUBSET Voter]
  BY DEF IInv, TypeOK
<1>2. m_checkpoint_pool' \in SUBSET Vote
  BY <1>1 DEF AddPoolVoteIfUnique, IInv, TypeOK
<1> DEFINE copy == VotesFor(m_checkpoint_pool', t.vote.height, t.vote.block_hash)
<1>3. copy \in SUBSET Voter
  BY <1>2, VotesForFact
<1>4. inflight' \subseteq inflight \cup {[t EXCEPT !.step = "pooled", !.votes = copy]}
  BY DEF AddPoolVoteIfUnique
<1> HIDE DEF copy
<1>5. inflight' \subseteq [vote : Vote, step : {"verified", "pooled"}, votes : SUBSET Voter]
  BY <1>1, <1>3, <1>4, Zenon DEF IInv, TypeOK
<1>6. UNCHANGED <<chain, m_last_checkpointed_height, checkpoints, m_last_cull_height,
                  signed, peak, deepest>>
  BY DEF AddPoolVoteIfUnique
<1> QED BY <1>2, <1>5, <1>6 DEF IInv, TypeOK, Table

\* handle_checkpoint_vote keeps the invariant and drops no record of the table.
LEMMA HandleVoteIInv ==
  ASSUME IInv, NEW t \in inflight, HandleCheckpointVote(t)
  PROVE  IInv' /\ Extends(checkpoints, checkpoints')
<1>1. t \in [vote : Vote, step : {"verified", "pooled"}, votes : SUBSET Voter]
  BY DEF IInv, TypeOK
<1>2. t.vote.height \in Nat /\ t.vote.block_hash \in Hash /\ t.votes \in SUBSET Voter
  BY <1>1 DEF Vote
<1>3. Table(checkpoints)
  BY DEF IInv
<1>4. checkpoints' = handle_checkpoint_vote(checkpoints, t.vote.height, t.vote.block_hash, t.votes)
  BY DEF HandleCheckpointVote
<1>5. Table(checkpoints') /\ Extends(checkpoints, checkpoints')
  BY <1>2, <1>3, <1>4, HandleFact
<1>6. inflight' \subseteq inflight
  BY DEF HandleCheckpointVote
<1>7. UNCHANGED <<chain, m_last_checkpointed_height, m_checkpoint_pool, m_last_cull_height,
                  signed, peak, deepest>>
  BY DEF HandleCheckpointVote
<1> QED BY <1>5, <1>6, <1>7 DEF IInv, TypeOK, Table

\* The immutable height survives an added block as well.
LEMMA BlockAddedIInv ==
  ASSUME IInv, NEW x \in Hash, NEW target \in Target, NEW enabled \in BOOLEAN,
         NEW given \in {{}} \cup {{c} : c \in Attached},
         NEW member \in SUBSET Due(Len(chain), target),
         BlockAdded(x, target, enabled, member, given)
  PROVE  /\ IInv'
         /\ Len(chain') = Len(chain) + 1
         /\ get_immutable_checkpoint(checkpoints', Len(chain')) >=
              get_immutable_checkpoint(checkpoints, Len(chain))
<1> DEFINE height == Len(chain)
           voting == enabled /\ Processes(height, target)
           mine == {[height |-> h, block_hash |-> Append(chain, x)[h + 1], voter |-> Me] :
                      h \in IF voting THEN Due(height, target) \cap member ELSE {}}
           pool == m_checkpoint_pool \cup mine
           voted == CheckpointsAfterVotes(checkpoints, mine \ m_checkpoint_pool, pool)
           from == VoteFrom(height, target)
           last == LoopEnd(from, height + 1)
           kept == KeptCheckpoint(given, height)
<1>1. /\ chain' = Append(chain, x)
      /\ m_last_checkpointed_height' = IF voting THEN last ELSE m_last_checkpointed_height
      /\ m_checkpoint_pool' = remove_expired_votes(pool, height + 1)
      /\ checkpoints' = checkpoints_block_added(voted, height, m_last_cull_height, kept)
      /\ m_last_cull_height' = last_cull_height_after(voted, height, m_last_cull_height)
      /\ signed' = signed \cup mine
      /\ peak' = MaxOf(peak, height)
      /\ inflight' = inflight /\ deepest' = deepest
  BY Zenon DEF BlockAdded
\* Each vote cast is for a height that is due.
<1>1a. \A v \in mine :
         voting /\ \E h \in Due(height, target) :
                      v = [height |-> h, block_hash |-> Append(chain, x)[h + 1], voter |-> Me]
  BY Zenon
<1> HIDE DEF mine, voting, from, last, pool, voted, kept
<1>2. /\ TypeOK /\ Table(checkpoints)
      /\ Len(chain) >= 1 /\ Len(chain) <= peak + 1
      /\ m_last_checkpointed_height % CHECKPOINT_INTERVAL = 0
      /\ m_last_checkpointed_height <= peak + CHECKPOINT_INTERVAL
      /\ m_last_checkpointed_height < Len(chain) + REORG_SAFETY_BUFFER_BLOCKS
      /\ deepest <= REORG_SAFETY_BUFFER_BLOCKS - CHECKPOINT_INTERVAL =>
           /\ \A v \in signed : v.height < m_last_checkpointed_height
           /\ \A v, w \in signed : v.height = w.height => v.block_hash = w.block_hash
  BY Zenon DEF IInv
<1>3. /\ height \in Nat /\ target \in Nat /\ height >= 1
      /\ chain \in Seq(Hash) /\ m_last_checkpointed_height \in Nat
      /\ m_checkpoint_pool \in SUBSET Vote /\ signed \in SUBSET Vote
      /\ peak \in Nat /\ deepest \in Nat /\ m_last_cull_height \in Nat
  <2>1. TypeOK /\ Len(chain) >= 1
    BY <1>2, Zenon
  <2>2. /\ m_last_checkpointed_height \in Nat /\ chain \in Seq(Hash)
        /\ m_checkpoint_pool \in SUBSET Vote /\ signed \in SUBSET Vote
        /\ peak \in Nat /\ deepest \in Nat /\ m_last_cull_height \in Nat
    BY <2>1 DEF TypeOK
  <2>3. target \in Nat
    BY VotingAssumption
  <2>4. Len(chain) \in Nat
    BY <2>2
  <2> QED BY <2>1, <2>2, <2>3, <2>4, Zenon
<1>4. chain' \in Seq(Hash) /\ Len(chain') = height + 1
  BY <1>1, <1>3
<1>5. \A h \in Nat : h <= height => Append(chain, x)[h + 1] \in Hash
  <2>1. Append(chain, x) \in Seq(Hash) /\ Len(Append(chain, x)) = height + 1
    BY <1>3
  <2>2. \A i \in 1 .. height + 1 : Append(chain, x)[i] \in Hash
    BY <2>1, <1>3
  <2> QED BY <2>2, <1>3
<1>6. voting =>
        /\ from \in Nat /\ from >= m_last_checkpointed_height
        /\ last \in Nat /\ last % CHECKPOINT_INTERVAL = 0
        /\ last >= height + 1 /\ last >= m_last_checkpointed_height
        /\ last <= height + CHECKPOINT_INTERVAL \/ last = m_last_checkpointed_height
  BY <1>2, <1>3, VoteFromFact DEF voting, from, last
\* The votes cast: above those cast before, below the new height.
<1>7. \A v \in mine :
        /\ voting
        /\ v.height \in Nat /\ v.height >= m_last_checkpointed_height /\ v.height <= height
        /\ v.block_hash = Append(chain, x)[v.height + 1]
        /\ v = [height |-> v.height, block_hash |-> Append(chain, x)[v.height + 1], voter |-> Me]
  <2> TAKE v \in mine
  <2>1. voting
    BY <1>1a, Zenon
  <2>2. PICK h \in Due(height, target) :
          v = [height |-> h, block_hash |-> Append(chain, x)[h + 1], voter |-> Me]
    BY <1>1a, Zenon
  <2>3. from \in Nat /\ from >= m_last_checkpointed_height
    BY <1>6, <2>1
  <2>4. h \in Nat /\ h >= from /\ h <= height
    BY <1>3, <2>3, DueFact DEF from
  <2>5. v.height = h /\ v.block_hash = Append(chain, x)[h + 1]
    BY <2>2, Zenon
  <2>6. h >= m_last_checkpointed_height
    BY <1>3, <2>3, <2>4
  <2> QED BY <2>1, <2>2, <2>4, <2>5, <2>6
<1>8. mine \in SUBSET Vote
  <2> SUFFICES ASSUME NEW v \in mine PROVE v \in Vote
    BY Zenon
  <2>1. /\ v.height \in Nat /\ v.height <= height
        /\ v = [height |-> v.height, block_hash |-> Append(chain, x)[v.height + 1], voter |-> Me]
    BY <1>7
  <2>2. Append(chain, x)[v.height + 1] \in Hash
    BY <1>5, <2>1
  <2>3. Me \in Voter
    BY VotingAssumption
  <2> QED BY <2>1, <2>2, <2>3 DEF Vote
<1>9. /\ m_last_checkpointed_height' \in Nat
      /\ m_last_checkpointed_height' % CHECKPOINT_INTERVAL = 0
      /\ m_last_checkpointed_height' >= m_last_checkpointed_height
      /\ \/ m_last_checkpointed_height' <= height + CHECKPOINT_INTERVAL
         \/ m_last_checkpointed_height' = m_last_checkpointed_height
      /\ voting => m_last_checkpointed_height' >= height + 1
  BY <1>1, <1>2, <1>3, <1>6
<1>10. peak' \in Nat /\ peak' >= peak /\ peak' >= height
  BY <1>1, <1>3 DEF MaxOf
<1>11. m_last_checkpointed_height' <= peak' + CHECKPOINT_INTERVAL
  <2>1. \A a, b, c, d \in Nat : a <= b + c /\ b <= d => a <= d + c
    OBVIOUS
  <2>2. /\ m_last_checkpointed_height' \in Nat /\ height \in Nat /\ CHECKPOINT_INTERVAL \in Nat
        /\ peak \in Nat /\ peak' \in Nat /\ peak <= peak' /\ height <= peak'
    BY <1>3, <1>9, <1>10, BufferFact
  <2>3. \/ m_last_checkpointed_height' <= height + CHECKPOINT_INTERVAL
        \/ m_last_checkpointed_height' <= peak + CHECKPOINT_INTERVAL
    BY <1>2, <1>9
  <2> QED BY <2>1, <2>2, <2>3, Zenon
<1>12. m_last_checkpointed_height' < Len(chain') + REORG_SAFETY_BUFFER_BLOCKS
  BY <1>2, <1>3, <1>4, <1>9, BufferFact
<1>13. ASSUME deepest' <= REORG_SAFETY_BUFFER_BLOCKS - CHECKPOINT_INTERVAL
       PROVE  /\ \A v \in signed' : v.height < m_last_checkpointed_height'
              /\ \A v, w \in signed' : v.height = w.height => v.block_hash = w.block_hash
  <2>1. /\ \A v \in signed : v.height \in Nat /\ v.height < m_last_checkpointed_height
        /\ \A v, w \in signed : v.height = w.height => v.block_hash = w.block_hash
    BY <1>1, <1>2, <1>3, <1>13 DEF Vote
  <2>2. \A v \in mine : v.height \in Nat /\ v.height >= m_last_checkpointed_height
                        /\ v.height < m_last_checkpointed_height'
    BY <1>3, <1>7, <1>9
  <2>3. \A v \in signed' : v.height < m_last_checkpointed_height'
    BY <1>1, <1>3, <1>9, <2>1, <2>2
  <2>4. ASSUME NEW v \in signed', NEW w \in signed', v.height = w.height
        PROVE  v.block_hash = w.block_hash
    <3>1. CASE v \in signed /\ w \in signed
      BY <2>1, <2>4, <3>1
    <3>2. CASE v \in mine /\ w \in mine
      BY <1>7, <2>4, <3>2
    <3>3. CASE (v \in signed /\ w \in mine) \/ (v \in mine /\ w \in signed)
      BY <1>3, <2>1, <2>2, <2>4, <3>3
    <3> QED BY <1>1, <3>1, <3>2, <3>3
  <2> QED BY <2>3, <2>4
<1>14. pool \in SUBSET Vote /\ mine \ m_checkpoint_pool \in SUBSET Vote
  BY <1>3, <1>8 DEF pool
<1>15. Table(voted) /\ DOMAIN checkpoints \subseteq DOMAIN voted
  BY <1>2, <1>14, AfterVotesFact, Zenon DEF voted
<1>16. kept \in SUBSET Checkpoint /\ \A c \in kept : IsFramePix(c)
  <2>1. kept \subseteq Attached
    BY DEF kept, KeptCheckpoint
  <2>2. \A c \in Attached : c \in Checkpoint /\ IsFramePix(c)
    BY VotingAssumption DEF Checkpoint, IsFramePix
  <2> QED BY <2>1, <2>2
<1>17. m_checkpoint_pool' \in SUBSET Vote
  BY <1>1, <1>14, Zenon DEF remove_expired_votes
<1>18. Table(checkpoints')
  BY <1>1, <1>3, <1>15, <1>16, AddedFact
<1>19. SignedTable(checkpoints) /\ SignedTable(voted)
  BY <1>2, <1>15 DEF Table, SignedTable
<1>20. m_last_cull_height' \in Nat
  <2>1. CASE ~Culls(height)
    BY <1>1, <1>3, <2>1 DEF last_cull_height_after
  <2>2. CASE Culls(height)
    <3> DEFINE end == CullEnd(voted, height)
               start == CullStart(voted, height, m_last_cull_height)
    <3>1. end \in Nat
      <4>1. height + 1 \in Nat
        BY <1>3
      <4> QED BY <4>1, <1>19, ImmutableWitness DEF CullEnd
    <3>2. Minus(end, CHECKPOINT_STORE_PERSISTENTLY_INTERVAL) \in Nat
      BY <3>1, IntervalAssumption DEF Minus
    <3>3. RoundUp(Minus(end, CHECKPOINT_STORE_PERSISTENTLY_INTERVAL)) \in Nat
      BY <3>2, RoundUpFact
    <3>4. start \in Nat
      BY <1>3, <3>3 DEF CullStart, MaxOf
    <3>5. m_last_cull_height' = LoopEnd(start, end)
      BY <1>1, <2>2 DEF last_cull_height_after
    <3> HIDE DEF start, end
    <3> QED BY <3>1, <3>4, <3>5, LoopEndFact
  <2> QED BY <2>1, <2>2
<1>21. TypeOK'
  <2>1. inflight' \subseteq [vote : Vote, step : {"verified", "pooled"}, votes : SUBSET Voter]
    BY <1>1, <1>2 DEF TypeOK
  <2>2. signed' \subseteq Vote /\ deepest' \in Nat
    BY <1>1, <1>3, <1>8
  <2>3. DOMAIN checkpoints' \subseteq Nat /\ checkpoints' \in [DOMAIN checkpoints' -> Checkpoint]
    BY <1>18 DEF Table
  <2> QED BY <1>4, <1>9, <1>10, <1>17, <1>20, <2>1, <2>2, <2>3, Zenon DEF TypeOK
<1>22. Len(chain') <= peak' + 1 /\ Len(chain') >= 1
  BY <1>3, <1>4, <1>10
<1>23. IInv'
  BY <1>9, <1>11, <1>12, <1>13, <1>18, <1>21, <1>22 DEF IInv
<1>24. get_immutable_checkpoint(checkpoints', height + 1) >=
         get_immutable_checkpoint(checkpoints, height)
  <2>1. SignedTable(checkpoints') /\
        get_immutable_checkpoint(checkpoints', height + 1) >=
          get_immutable_checkpoint(voted, height + 1)
    BY <1>1, <1>3, <1>16, <1>19, BlockAddedKeepsImmutable
  <2>2. get_immutable_checkpoint(voted, height + 1) >= get_immutable_checkpoint(checkpoints, height)
    BY <1>3, <1>15, <1>19, ImmutableGrows
  <2>3. /\ get_immutable_checkpoint(checkpoints', height + 1) \in Nat
        /\ get_immutable_checkpoint(voted, height + 1) \in Nat
        /\ get_immutable_checkpoint(checkpoints, height) \in Nat
    BY <1>3, <1>19, <2>1, ImmutableWitness
  <2> QED BY <2>1, <2>2, <2>3
<1> QED BY <1>4, <1>23, <1>24

\* blockchain_detached keeps the invariant: it drops the records from the height on.
LEMMA DetachedIInv ==
  ASSUME IInv, NEW height \in LowestHeight .. Len(chain) - 1, BlockchainDetached(height)
  PROVE  IInv' /\ Len(chain') < Len(chain)
<1> USE DEF IInv
<1>1. /\ height \in Nat /\ height >= 1 /\ height < Len(chain) /\ Len(chain) \in Nat
      /\ chain \in Seq(Hash) /\ m_last_checkpointed_height \in Nat
      /\ peak \in Nat /\ deepest \in Nat /\ m_last_cull_height \in Nat
  <2>1. /\ chain \in Seq(Hash) /\ m_last_checkpointed_height \in Nat
        /\ peak \in Nat /\ deepest \in Nat /\ m_last_cull_height \in Nat
    BY Zenon DEF TypeOK
  <2>2. Len(chain) \in Nat
    BY <2>1
  <2>3. LowestHeight \in Nat /\ LowestHeight >= 1
    BY VotingAssumption
  <2>4. height \in Nat /\ height >= 1 /\ height < Len(chain)
    BY <2>2, <2>3
  <2> QED BY <2>1, <2>2, <2>4
<1>2. chain' \in Seq(Hash) /\ Len(chain') = height
  <2>1. chain' = SubSeq(chain, 1, height)
    BY Zenon DEF BlockchainDetached
  <2> QED BY <1>1, <2>1
<1>3. /\ height - (height % CHECKPOINT_INTERVAL) \in Nat
      /\ height - (height % CHECKPOINT_INTERVAL) <= height
      /\ (height - (height % CHECKPOINT_INTERVAL)) % CHECKPOINT_INTERVAL = 0
  BY <1>1, RoundDownFact
<1> DEFINE moved == m_last_checkpointed_height >= height + REORG_SAFETY_BUFFER_BLOCKS
<1>4. m_last_checkpointed_height' = IF moved THEN height - (height % CHECKPOINT_INTERVAL)
                                             ELSE m_last_checkpointed_height
  BY DEF BlockchainDetached, LastCheckpointedAfterDetach
<1>5. /\ m_last_checkpointed_height' \in Nat
      /\ m_last_checkpointed_height' % CHECKPOINT_INTERVAL = 0
      /\ m_last_checkpointed_height' < height + REORG_SAFETY_BUFFER_BLOCKS
      /\ m_last_checkpointed_height' <= m_last_checkpointed_height
  BY <1>1, <1>3, <1>4, BufferFact
<1>6. peak' = peak /\ signed' = signed /\ inflight' = inflight
  BY DEF BlockchainDetached
<1>7. deepest' \in Nat /\ deepest' >= deepest /\ deepest' >= peak + 1 - height
  BY <1>1 DEF BlockchainDetached, MaxOf
<1>8. m_checkpoint_pool' \subseteq m_checkpoint_pool
  BY DEF BlockchainDetached, remove_expired_votes
<1>9. Table(checkpoints')
  BY RemoveFact DEF BlockchainDetached, checkpoints_blockchain_detached
<1>10. m_last_cull_height' \in Nat
  BY <1>1 DEF BlockchainDetached, MinOf
<1>11. TypeOK'
  BY <1>2, <1>5, <1>6, <1>7, <1>8, <1>9, <1>10, Zenon DEF TypeOK, Table
<1>12. m_last_checkpointed_height' <= peak' + CHECKPOINT_INTERVAL
  BY <1>1, <1>5, <1>6, BufferFact
<1>13. deepest' <= REORG_SAFETY_BUFFER_BLOCKS - CHECKPOINT_INTERVAL =>
         /\ deepest <= REORG_SAFETY_BUFFER_BLOCKS - CHECKPOINT_INTERVAL
         /\ m_last_checkpointed_height' = m_last_checkpointed_height
  BY <1>1, <1>4, <1>7, BufferFact
<1> QED BY <1>1, <1>2, <1>5, <1>6, <1>9, <1>11, <1>12, <1>13

\* A restart keeps the invariant: the table is on disk, the pool and the heights are not.
LEMMA RestartIInv ==
  ASSUME IInv, Restart
  PROVE  IInv'
<1>1. 0 % CHECKPOINT_INTERVAL = 0
  BY BufferFact
<1>2. Len(chain) \in Nat /\ Len(chain) >= 1
  BY DEF IInv, TypeOK
<1>3. TypeOK'
  BY <1>2 DEF IInv, TypeOK, Restart
<1>4. Table(checkpoints')
  BY DEF IInv, Restart, Table
<1> QED BY <1>1, <1>2, <1>3, <1>4, BufferFact DEF IInv, Restart

-----------------------------------------------------------------------------
(* The theorems. *)

\* What every step of the model guarantees.
LEMMA StepFact ==
  ASSUME IInv, [Next]_vars
  PROVE  /\ IInv'
         /\ chain' = chain => Extends(checkpoints, checkpoints')
         /\ Len(chain') >= Len(chain) =>
              get_immutable_checkpoint(checkpoints', Len(chain')) >=
                get_immutable_checkpoint(checkpoints, Len(chain))
<1> DEFINE Goal == /\ IInv'
                   /\ chain' = chain => Extends(checkpoints, checkpoints')
                   /\ Len(chain') >= Len(chain) =>
                        get_immutable_checkpoint(checkpoints', Len(chain')) >=
                          get_immutable_checkpoint(checkpoints, Len(chain))
<1>1. Len(chain) \in Nat /\ SignedTable(checkpoints)
  BY DEF IInv, TypeOK, Table, SignedTable
<1>2. get_immutable_checkpoint(checkpoints, Len(chain)) \in Nat
  BY <1>1, ImmutableWitness
\* A step that leaves the chain alone and extends the table.
<1>3. ASSUME IInv', chain' = chain, Extends(checkpoints, checkpoints')
      PROVE  Goal
  <2>1. SignedTable(checkpoints') /\ DOMAIN checkpoints \subseteq DOMAIN checkpoints'
    BY <1>3 DEF IInv, TypeOK, Table, SignedTable, Extends
  <2>2. get_immutable_checkpoint(checkpoints', Len(chain)) >=
          get_immutable_checkpoint(checkpoints, Len(chain))
    BY <1>1, <2>1, ImmutableGrows
  <2> QED BY <1>3, <2>2
<1>4. checkpoints' = checkpoints => Extends(checkpoints, checkpoints')
  BY DEF Extends
<1>5. CASE UNCHANGED vars
  <2>1. IInv'
    BY <1>5 DEF IInv, TypeOK, Table, vars
  <2> QED BY <1>3, <1>4, <1>5, <2>1 DEF vars
<1>6. ASSUME NEW v \in [height : ReceivedHeights, block_hash : Hash, voter : Voter], VerifyVote(v)
      PROVE  Goal
  <2>1. IInv'
    BY <1>6, VerifyVoteIInv
  <2> QED BY <1>3, <1>4, <1>6, <2>1 DEF VerifyVote
<1>7. ASSUME NEW t \in inflight, AddPoolVoteIfUnique(t)
      PROVE  Goal
  <2>1. IInv'
    BY <1>7, AddPoolVoteIInv
  <2> QED BY <1>3, <1>4, <1>7, <2>1 DEF AddPoolVoteIfUnique
<1>8. ASSUME NEW t \in inflight, HandleCheckpointVote(t)
      PROVE  Goal
  <2>1. IInv' /\ Extends(checkpoints, checkpoints')
    BY <1>8, HandleVoteIInv
  <2> QED BY <1>3, <1>8, <2>1 DEF HandleCheckpointVote
<1>9. ASSUME NEW x \in Hash, NEW target \in Target, NEW enabled \in BOOLEAN,
             NEW given \in {{}} \cup {{c} : c \in Attached},
             NEW member \in SUBSET Due(Len(chain), target),
             BlockAdded(x, target, enabled, member, given)
      PROVE  Goal
  <2>1. /\ IInv' /\ Len(chain') = Len(chain) + 1
        /\ get_immutable_checkpoint(checkpoints', Len(chain')) >=
             get_immutable_checkpoint(checkpoints, Len(chain))
    BY <1>9, BlockAddedIInv
  <2>2. chain' # chain
    BY <1>1, <2>1
  <2> QED BY <2>1, <2>2
<1>10. ASSUME NEW height \in LowestHeight .. Len(chain) - 1, BlockchainDetached(height)
       PROVE  Goal
  <2>1. IInv' /\ Len(chain') < Len(chain)
    BY <1>10, DetachedIInv
  <2>2. Len(chain') \in Nat
    BY <2>1 DEF IInv, TypeOK
  <2>3. chain' # chain /\ ~(Len(chain') >= Len(chain))
    BY <1>1, <2>1, <2>2
  <2> QED BY <2>1, <2>3
<1>11. CASE Restart
  <2>1. IInv'
    BY <1>11, RestartIInv
  <2> QED BY <1>3, <1>4, <1>11, <2>1 DEF Restart
<1> QED BY <1>5, <1>6, <1>7, <1>8, <1>9, <1>10, <1>11 DEF Next

\* IInv holds in every reachable state.
THEOREM Invariance == Spec => []IInv
<1>1. IInv /\ [Next]_vars => IInv'
  BY StepFact
<1> QED BY InitIInv, <1>1, PTL DEF Spec

\* Every reachable state is well typed.
THEOREM TypeCorrect == Spec => []TypeOK
<1>1. IInv => TypeOK
  BY DEF IInv
<1> QED BY Invariance, <1>1, PTL

\* process_quorums and blockchain_detached never make the node sign two blocks
\* of one height unless the chain was cut deeper than the buffer protects.
THEOREM NoDoubleSigning == Spec => []NoDoubleSign
<1>1. IInv => NoDoubleSign
  BY DEF IInv, NoDoubleSign
<1> QED BY Invariance, <1>1, PTL

\* m_last_checkpointed_height stays on checkpoint heights and near the chain, so
\* that process_quorums goes on voting.
THEOREM VotingContinues == Spec => []VotingNeverStalls
<1>1. IInv => VotingNeverStalls
  BY DEF IInv, VotingNeverStalls
<1> QED BY Invariance, <1>1, PTL

\* No interleaving of handle_vote calls removes a signature from the checkpoint
\* of a block.
THEOREM SignaturesKept == Spec => VotesNeverShrink
<1>1. IInv /\ [Next]_vars =>
        [chain' = chain =>
           \A h \in DOMAIN checkpoints \cap DOMAIN checkpoints' :
             checkpoints[h].block_hash = checkpoints'[h].block_hash =>
               checkpoints[h].signatures \subseteq checkpoints'[h].signatures]_vars
  <2> SUFFICES ASSUME IInv, [Next]_vars, chain' = chain,
                      NEW h \in DOMAIN checkpoints \cap DOMAIN checkpoints',
                      checkpoints[h].block_hash = checkpoints'[h].block_hash
               PROVE  checkpoints[h].signatures \subseteq checkpoints'[h].signatures
    OBVIOUS
  <2>1. Extends(checkpoints, checkpoints')
    BY StepFact
  <2> QED BY <2>1 DEF Extends
<1> QED BY Invariance, <1>1, PTL DEF Spec, VotesNeverShrink

\* While blocks are only added, get_immutable_checkpoint never returns a lower
\* height: the cull, votes and checkpoints that come with blocks keep finality.
THEOREM ImmutableKept == Spec => ImmutableNeverDrops
<1>1. IInv /\ [Next]_vars =>
        [Len(chain') >= Len(chain) =>
           get_immutable_checkpoint(checkpoints', Len(chain')) >=
             get_immutable_checkpoint(checkpoints, Len(chain))]_vars
  BY StepFact
<1> QED BY Invariance, <1>1, PTL DEF Spec, ImmutableNeverDrops
=============================================================================
