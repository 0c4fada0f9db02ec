-------------------------- MODULE ChainSwitchLemmas --------------------------
(***************************************************************************)
(* What the handlers of ChainSwitch make of a good state, for every tree   *)
(* of blocks, every set of voters and every checkpoint interval:           *)
(* handle_block_to_main_chain, ConnectAll, Detach,                         *)
(* rollback_blockchain_switching and the removal of alternative blocks.    *)
(* ChainSwitchMoves goes on with the switch and handle_alternative_block,  *)
(* ChainSwitchProofs with the actions and the theorems.                    *)
(*                                                                         *)
(* In a good state the main chain is linked, alternative and disconnected  *)
(* blocks lie above the first chain, and checkpoints are at heights that   *)
(* may have one.  The last is what makes a failed switch harmless:         *)
(* checkpoints::blockchain_detached steps down from the top record by      *)
(* CHECKPOINT_INTERVAL, so it clears the heights above the split only when *)
(* the records there are on one grid; a record left there could refuse the *)
(* original block when it is connected again.                              *)
(***************************************************************************)
EXTENDS ChainSwitch, WellFoundedInduction, TLAPS

-----------------------------------------------------------------------------
(* Heights that are multiples of CHECKPOINT_INTERVAL. *)

\* Quotient and remainder of natural numbers.
LEMMA DivFact ==
  \A a \in Nat, n \in Nat \ {0} :
    /\ a \div n \in Nat /\ a % n \in Nat
    /\ n * (a \div n) <= a /\ a < n * (a \div n) + n
    /\ a % n = a - n * (a \div n) /\ a % n < n
  OBVIOUS

\* A remainder is determined by the form n * q + r.
LEMMA ModUnique ==
  \A n \in Nat \ {0}, q \in Nat, r \in Nat : r < n => (n * q + r) % n = r
  OBVIOUS

\* Steps of n leave the remainder modulo n alone.
LEMMA ModAdd ==
  ASSUME NEW a \in Nat, NEW n \in Nat \ {0}, NEW k \in Nat
  PROVE  (a + n * k) % n = a % n
<1> DEFINE q == a \div n
           r == a % n
<1>1. q \in Nat /\ r \in Nat /\ r < n /\ a = n * q + r
  BY DivFact
<1> HIDE DEF q, r
<1>2. a + n * k = n * (q + k) + r
  BY <1>1
<1>3. (n * (q + k) + r) % n = r
  BY <1>1, ModUnique
<1> QED BY <1>2, <1>3 DEF r

\* Rounding up, as process_quorums and checkpoints::block_added do.
LEMMA RoundUpFact ==
  ASSUME NEW h \in Nat
  PROVE  /\ RoundUp(h) \in Nat
         /\ RoundUp(h) >= h
         /\ RoundUp(h) < h + CHECKPOINT_INTERVAL
         /\ RoundUp(h) % CHECKPOINT_INTERVAL = 0
<1> DEFINE q == h \div CHECKPOINT_INTERVAL
           r == h % CHECKPOINT_INTERVAL
<1>1. q \in Nat /\ r \in Nat /\ r < CHECKPOINT_INTERVAL /\ h = CHECKPOINT_INTERVAL * q + r
  BY DivFact, IntervalAssumption
<1>2. CASE r = 0
  BY <1>2, <1>1, IntervalAssumption DEF RoundUp
<1>3. CASE r > 0
  <2>1. RoundUp(h) = h + (CHECKPOINT_INTERVAL - r)
    BY <1>3 DEF RoundUp
  <2> HIDE DEF q, r
  <2>2. RoundUp(h) = CHECKPOINT_INTERVAL * (q + 1) + 0
    BY <1>1, <2>1, IntervalAssumption
  <2>3. RoundUp(h) % CHECKPOINT_INTERVAL = 0
    BY <1>1, <2>2, ModUnique, IntervalAssumption
  <2> QED BY <1>1, <1>3, <2>1, <2>3, IntervalAssumption
<1> QED BY <1>1, <1>2, <1>3

\* Where a loop with step CHECKPOINT_INTERVAL stops.
LEMMA LoopEndFact ==
  ASSUME NEW from \in Nat, NEW end \in Nat
  PROVE  /\ LoopEnd(from, end) \in Nat
         /\ LoopEnd(from, end) >= from
         /\ LoopEnd(from, end) >= end
         /\ from < end => LoopEnd(from, end) < end + CHECKPOINT_INTERVAL
         /\ from >= end => LoopEnd(from, end) = from
         /\ from % CHECKPOINT_INTERVAL = 0 => LoopEnd(from, end) % CHECKPOINT_INTERVAL = 0
<1> DEFINE k == (end - from - 1) \div CHECKPOINT_INTERVAL
<1>1. CASE from >= end
  BY <1>1 DEF LoopEnd
<1>2. CASE from < end
  <2>1. end - from - 1 \in Nat
    BY <1>2
  <2>2. /\ k \in Nat /\ CHECKPOINT_INTERVAL * k <= end - from - 1
        /\ end - from - 1 < CHECKPOINT_INTERVAL * k + CHECKPOINT_INTERVAL
    BY <2>1, DivFact, IntervalAssumption, Zenon
  <2>3. LoopEnd(from, end) = from + CHECKPOINT_INTERVAL * (k + 1)
    BY <1>2 DEF LoopEnd
  <2> HIDE DEF k
  <2>4. CHECKPOINT_INTERVAL * (k + 1) = CHECKPOINT_INTERVAL * k + CHECKPOINT_INTERVAL
    BY <2>2, IntervalAssumption
  <2>5. CHECKPOINT_INTERVAL * k \in Nat /\ k + 1 \in Nat
    BY <2>2, IntervalAssumption
  <2>6. (from + CHECKPOINT_INTERVAL * (k + 1)) % CHECKPOINT_INTERVAL = from % CHECKPOINT_INTERVAL
    BY <2>5, ModAdd, IntervalAssumption, Zenon
  <2> QED BY <1>2, <2>2, <2>3, <2>4, <2>5, <2>6, IntervalAssumption
<1> QED BY <1>1, <1>2

-----------------------------------------------------------------------------
(* Least and greatest heights of a set. *)

\* A non-empty set of natural numbers has a least element.
LEMMA MinExists ==
  ASSUME NEW S \in SUBSET Nat, S # {}
  PROVE  \E m \in S : \A k \in S : m <= k
<1> DEFINE R == OpToRel(<, Nat)
<1>1. IsWellFoundedOn(R, Nat)
  BY NatLessThanWellFounded, Zenon
<1>2. \A x, y \in Nat : <<y, x>> \in R <=> y < x
  BY DEF OpToRel
<1> HIDE DEF R
<1>3. PICK x \in S : \A y \in S : ~ (<<y, x>> \in R)
  BY <1>1, WFMin, Zenon
<1>4. \A y \in S : ~ (y < x)
  BY <1>2, <1>3, Zenon
<1>5. \A y \in S : x <= y
  BY <1>4
<1> QED BY <1>5

\* Induction: a set that holds 0, and with a number the next one, holds them all.  It
\* speaks of a set, as the provers give no value to an operator.
LEMMA SetInduction ==
  ASSUME NEW S, 0 \in S, \A n \in Nat : n \in S => n + 1 \in S
  PROVE  \A n \in Nat : n \in S
<1> DEFINE T == Nat \ S
<1>1. SUFFICES ASSUME T # {} PROVE FALSE
  OBVIOUS
<1>2. T \in SUBSET Nat
  OBVIOUS
<1> HIDE DEF T
<1>3. PICK x \in T : \A y \in T : x <= y
  BY <1>1, <1>2, MinExists, Zenon
<1>4. x \in Nat /\ x \notin S /\ x # 0
  BY <1>3 DEF T
<1>5. x - 1 \in Nat /\ x - 1 \notin S
  BY <1>4
<1>6. x - 1 \in T /\ ~ (x <= x - 1)
  BY <1>4, <1>5 DEF T
<1> QED BY <1>3, <1>6

\* A non-empty bounded set of natural numbers has a greatest element.
LEMMA MaxExists ==
  ASSUME NEW S \in SUBSET Nat, S # {}, NEW n \in Nat, \A k \in S : k <= n
  PROVE  \E m \in S : \A k \in S : k <= m
<1> DEFINE T == {n - k : k \in S}
<1>1. T \in SUBSET Nat
  OBVIOUS
<1>2. T # {}
  OBVIOUS
<1>3. PICK t \in T : \A u \in T : t <= u
  BY <1>1, <1>2, MinExists, Zenon
<1>4. PICK m \in S : t = n - m
  BY <1>3
<1>5. \A k \in S : n - m <= n - k
  BY <1>3, <1>4, Zenon
<1> QED BY <1>4, <1>5

\* Max picks it.
LEMMA MaxFact ==
  ASSUME NEW S \in SUBSET Nat, S # {}, NEW n \in Nat, \A k \in S : k <= n
  PROVE  Max(S) \in S /\ \A k \in S : k <= Max(S)
<1>1. PICK m \in S : \A k \in S : k <= m
  BY MaxExists, Zenon
<1>2. \E x \in S : \A y \in S : x >= y
  BY <1>1
<1> QED BY <1>2, Zenon DEF Max

\* Min picks the least element.
LEMMA MinFact ==
  ASSUME NEW S \in SUBSET Nat, S # {}
  PROVE  Min(S) \in S /\ \A k \in S : Min(S) <= k
<1>1. \E x \in S : \A y \in S : x =< y
  BY MinExists
<1> QED BY <1>1, Zenon DEF Min

\* The range read for a height is a non-empty, bounded set of heights.
LEMMA RangeDownFact ==
  ASSUME NEW db, DOMAIN db \subseteq Nat, DOMAIN db # {}, NEW height \in Nat
  PROVE  /\ RangeDown(db, height) \in SUBSET Nat
         /\ RangeDown(db, height) # {}
         /\ \E n \in Nat : \A k \in RangeDown(db, height) : k <= n
<1> DEFINE low == Min(DOMAIN db)
<1>1. low \in DOMAIN db /\ low \in Nat
  BY MinFact
<1> HIDE DEF low
<1>2. RangeDown(db, height) = {h \in DOMAIN db : h <= MaxOf(height, low)}
  BY DEF RangeDown, low
<1>3. MaxOf(height, low) \in Nat /\ low <= MaxOf(height, low)
  BY <1>1 DEF MaxOf
<1>4. low \in RangeDown(db, height)
  BY <1>1, <1>2, <1>3
<1>5. \A k \in RangeDown(db, height) : k <= MaxOf(height, low)
  BY <1>2
<1>6. RangeDown(db, height) \in SUBSET Nat
  BY <1>2
<1> QED BY <1>3, <1>4, <1>5, <1>6

-----------------------------------------------------------------------------
(* Recursion and induction along the parents of a tree. *)

\* A tree: R are the nodes that have a parent, of smaller height.
IsTree(B, R, P, H) ==
  /\ R \in SUBSET B
  /\ \A b \in B : H[b] \in Nat
  /\ \A b \in R : P[b] \in B /\ H[P[b]] < H[b]

\* A function on a tree is given by its values at the nodes without a parent and
\* by a step from the parent to the node.
Recursion(B, V, R, P, base, step) ==
  \E f \in [B -> V] : \A b \in B : f[b] = IF b \in R THEN step[b][f[P[b]]] ELSE base[b]

\* A function on a tree may be defined by recursion over the path to the root: P[b]
\* is the parent of b, H[b] its height, R the nodes where the recursion goes on.
LEMMA TreeRecursion ==
  ASSUME NEW B, NEW V, NEW R, NEW P, NEW H, IsTree(B, R, P, H),
         NEW base \in [B -> V], NEW step \in [B -> [V -> V]]
  PROVE  Recursion(B, V, R, P, base, step)
<1> DEFINE Below(n) == {b \in B : H[b] < n}
           IsRec(n, f) == /\ f \in [Below(n) -> V]
                          /\ \A b \in Below(n) : f[b] = IF b \in R THEN step[b][f[P[b]]] ELSE base[b]
           T == {n \in Nat : \E f : IsRec(n, f)}
<1> R \in SUBSET B /\ \A b \in B : H[b] \in Nat
  BY DEF IsTree
<1>0. \A b \in R : b \in B /\ H[b] \in Nat /\ P[b] \in B /\ H[P[b]] \in Nat /\ H[P[b]] < H[b]
  BY DEF IsTree
<1>1. 0 \in T
  <2> DEFINE f == [b \in Below(0) |-> base[b]]
  <2>1. Below(0) = {}
    OBVIOUS
  <2>2. IsRec(0, f)
    BY <2>1
  <2>3. 0 \in Nat
    OBVIOUS
  <2> QED BY <2>2, <2>3, Zenon
<1>2. ASSUME NEW n \in Nat, n \in T PROVE n + 1 \in T
  <2>1. PICK f : IsRec(n, f)
    BY <1>2, Zenon
  <2> DEFINE g == [b \in Below(n + 1) |-> IF b \in R THEN step[b][f[P[b]]] ELSE base[b]]
  <2>2. \A b \in R : b \in Below(n + 1) => P[b] \in Below(n)
    BY <1>0
  <2>3. g \in [Below(n + 1) -> V]
    <3>1. ASSUME NEW b \in Below(n + 1) PROVE (IF b \in R THEN step[b][f[P[b]]] ELSE base[b]) \in V
      <4>1. CASE b \in R
        <5>1. f[P[b]] \in V /\ step[b] \in [V -> V]
          BY <2>1, <2>2, <4>1
        <5> QED BY <4>1, <5>1
      <4>2. CASE b \notin R
        BY <4>2
      <4> QED BY <4>1, <4>2
    <3> QED BY <3>1
  <2>4. \A b \in Below(n) : b \in Below(n + 1) /\ g[b] = f[b]
    <3>1. \A b \in Below(n) : b \in Below(n + 1)
      OBVIOUS
    <3>2. \A b \in Below(n + 1) : g[b] = IF b \in R THEN step[b][f[P[b]]] ELSE base[b]
      OBVIOUS
    <3> HIDE DEF g
    <3> QED BY <2>1, <3>1, <3>2
  <2>5. \A b \in Below(n + 1) : g[b] = IF b \in R THEN step[b][g[P[b]]] ELSE base[b]
    <3>1. ASSUME NEW b \in Below(n + 1) PROVE g[b] = IF b \in R THEN step[b][f[P[b]]] ELSE base[b]
      OBVIOUS
    <3> HIDE DEF g
    <3> QED BY <2>2, <2>4, <3>1, Zenon
  <2>6. IsRec(n + 1, g) /\ n + 1 \in Nat
    <3> HIDE DEF g
    <3> QED BY <2>3, <2>5
  <2> QED BY <2>6, Zenon
<1>3. \A n \in Nat : n \in T
  <2> HIDE DEF T
  <2> QED BY <1>1, <1>2, SetInduction
<1>4. \A n, m \in Nat : \A f, g :
        IsRec(n, f) /\ IsRec(m, g) => \A b \in Below(n) \cap Below(m) : f[b] = g[b]
  <2>0. SUFFICES ASSUME NEW n \in Nat, NEW m \in Nat, NEW f, NEW g, IsRec(n, f), IsRec(m, g)
                 PROVE  \A b \in Below(n) \cap Below(m) : f[b] = g[b]
    <3> HIDE DEF IsRec, Below
    <3> QED OBVIOUS
  <2> DEFINE U == {k \in Nat : \A b \in Below(n) \cap Below(m) : H[b] < k => f[b] = g[b]}
  <2>1. 0 \in U
    OBVIOUS
  <2>2. ASSUME NEW k \in Nat, k \in U PROVE k + 1 \in U
    <3>1. SUFFICES ASSUME NEW b \in Below(n) \cap Below(m), H[b] < k + 1 PROVE f[b] = g[b]
      OBVIOUS
    <3>2. f[b] = IF b \in R THEN step[b][f[P[b]]] ELSE base[b]
      BY <2>0
    <3>3. g[b] = IF b \in R THEN step[b][g[P[b]]] ELSE base[b]
      BY <2>0
    <3>4. b \in R => f[P[b]] = g[P[b]]
      <4>1. ASSUME b \in R PROVE P[b] \in Below(n) \cap Below(m) /\ H[P[b]] < k
        BY <1>0, <3>1, <4>1
      <4> QED BY <2>2, <4>1
    <3> QED BY <3>2, <3>3, <3>4
  <2>3. \A k \in Nat : k \in U
    <3> HIDE DEF U
    <3> QED BY <2>1, <2>2, SetInduction
  <2>4. \A b \in Below(n) : H[b] + 1 \in U /\ H[b] < H[b] + 1
    BY <2>3
  <2> QED BY <2>4
<1> DEFINE F == [n \in Nat |-> CHOOSE f : IsRec(n, f)]
           h == [b \in B |-> F[H[b] + 1][b]]
<1>5. \A n \in Nat : IsRec(n, F[n])
  <2>1. ASSUME NEW n \in Nat PROVE IsRec(n, F[n])
    <3>1. \E f : IsRec(n, f)
      BY <1>3, Zenon
    <3>2. F[n] = CHOOSE f : IsRec(n, f)
      BY Zenon
    <3> HIDE DEF F
    <3> QED BY <3>1, <3>2, Zenon
  <2> QED BY <2>1, Zenon
<1>6. \A b \in B : h[b] = F[H[b] + 1][b] /\ H[b] + 1 \in Nat /\ b \in Below(H[b] + 1)
  OBVIOUS
<1> HIDE DEF F
<1>7. h \in [B -> V]
  BY <1>5, <1>6, ZenonT(30)
<1>8. ASSUME NEW b \in B PROVE h[b] = IF b \in R THEN step[b][h[P[b]]] ELSE base[b]
  <2> DEFINE n == H[b] + 1
  <2>1. n \in Nat /\ b \in Below(n) /\ h[b] = F[n][b] /\ IsRec(n, F[n])
    BY <1>5, <1>6, Zenon
  <2>2. F[n][b] = IF b \in R THEN step[b][F[n][P[b]]] ELSE base[b]
    BY <2>1
  <2>3. ASSUME b \in R PROVE F[n][P[b]] = h[P[b]]
    <3> DEFINE m == H[P[b]] + 1
    <3>1. P[b] \in B /\ P[b] \in Below(n) /\ P[b] \in Below(m) /\ m \in Nat
      BY <1>0, <2>3
    <3>2. IsRec(m, F[m]) /\ h[P[b]] = F[m][P[b]]
      BY <1>5, <1>6, <3>1, Zenon
    <3> HIDE DEF h, n, m, IsRec, Below
    <3>3. n \in Nat /\ m \in Nat /\ IsRec(n, F[n]) /\ IsRec(m, F[m])
      BY <2>1, <3>1, <3>2
    <3>4. \A c \in Below(n) \cap Below(m) : F[n][c] = F[m][c]
      <4>1. \A f, g : IsRec(n, f) /\ IsRec(m, g) => \A c \in Below(n) \cap Below(m) : f[c] = g[c]
        BY <1>4, <3>3
      <4> QED BY <3>3, <4>1
    <3> QED BY <3>1, <3>2, <3>4
  <2> HIDE DEF h, n
  <2> QED BY <2>1, <2>2, <2>3
<1> HIDE DEF h
<1> QED BY <1>7, <1>8 DEF Recursion

\* Induction over a tree: a set that contains a node as soon as it contains its
\* parent contains every node.
LEMMA TreeInduction ==
  ASSUME NEW B, NEW S, NEW R, NEW P, NEW H, IsTree(B, R, P, H),
         \A b \in B : (b \in R => P[b] \in S) => b \in S
  PROVE  \A b \in B : b \in S
<1> R \in SUBSET B /\ \A b \in B : H[b] \in Nat
  BY DEF IsTree
<1>0. \A b \in R : P[b] \in B /\ H[P[b]] < H[b]
  BY DEF IsTree
<1> DEFINE U == {n \in Nat : \A b \in B : H[b] < n => b \in S}
<1>1. 0 \in U
  OBVIOUS
<1>2. ASSUME NEW n \in Nat, n \in U PROVE n + 1 \in U
  <2>1. SUFFICES ASSUME NEW b \in B, H[b] < n + 1 PROVE b \in S
    OBVIOUS
  <2>2. ASSUME b \in R PROVE P[b] \in B /\ H[P[b]] < n
    <3>1. P[b] \in B /\ H[P[b]] \in Nat /\ H[b] \in Nat /\ H[P[b]] < H[b]
      BY <1>0, <2>2
    <3> QED BY <2>1, <3>1
  <2> QED BY <1>2, <2>2
<1>3. \A n \in Nat : n \in U
  <2> HIDE DEF U
  <2> QED BY <1>1, <1>2, SetInduction
<1>4. \A b \in B : H[b] + 1 \in U /\ H[b] < H[b] + 1
  BY <1>3
<1> QED BY <1>4

-----------------------------------------------------------------------------
(* The inductive invariant *)

\* The records of the table.
Checkpoint == [block_hash : Block, signatures : SUBSET Voter]

\* The tables of checkpoints: a table has a highest record.
Bounded(D) == \E n \in Nat : \A h \in D : h <= n
Tables == UNION {[D -> Checkpoint] : D \in {E \in SUBSET Nat : Bounded(E)}}

\* The blocks with their checkpoints that a switch connects, the calls in progress,
\* the alternative blocks with their checkpoints.
Entry == [block : Block, given : SUBSET Checkpoint]
Call == [old : Seq(Entry), alt : Seq(Block)]
Alternatives == UNION {[D -> SUBSET Checkpoint] : D \in SUBSET Block}

\* The state a handler works on.
State == [chain : Seq(Block), alt : Alternatives, invalid : SUBSET Block, db : Tables, cull : Nat,
          immutable : Nat, calls : Seq(Call), thrown : BOOLEAN, panicked : BOOLEAN]

\* A height at or above which the tree may leave the first chain.
High(h) == \E b \in Block \ Range(FirstChain) : Height[b] <= h

\* The checkpoints of the program that are off the grid of CHECKPOINT_INTERVAL lie
\* below everything that may be reorganised.
LowProgram == \A h \in DOMAIN Hardcoded : h % CHECKPOINT_INTERVAL = 0 \/ ~High(h)

\* Nothing makes a checkpoint.
NeverCheckpointed == DOMAIN Hardcoded = {} /\ Attached = {} /\ VotedHeights = {}

\* There may be a checkpoint at height h.
Fit(h) ==
  /\ ~NeverCheckpointed
  /\ LowProgram => h % CHECKPOINT_INTERVAL = 0 \/ ~High(h)

\* A chain of valid blocks, each on its parent.
Linked(c) ==
  /\ c \in Seq(Block) /\ Len(c) > 0
  /\ \A i \in 1 .. Len(c) : Height[c[i]] = i - 1 /\ c[i] \notin BadInputs
  /\ \A i \in 2 .. Len(c) : Parent[c[i]] = c[i - 1]

\* Blocks with their checkpoints, for ConnectAll.
EntriesOK(list) ==
  /\ list \in Seq(Entry)
  /\ \A i \in 1 .. Len(list) :
       High(Height[list[i].block]) /\ (list[i].given # {} => Fit(Height[list[i].block]))

\* Alternative blocks, tables and calls in progress hold checkpoints at such heights.
AltOK(alt) == \A b \in DOMAIN alt : High(Height[b]) /\ (alt[b] # {} => Fit(Height[b]))
TableOK(db) == \A h \in DOMAIN db : Fit(h)
CallsOK(c) == \A i \in 1 .. Len(c) : EntriesOK(c[i].old)

\* The state between two handlers.
Good(s) ==
  /\ s \in State
  /\ Linked(s.chain) /\ AltOK(s.alt) /\ TableOK(s.db) /\ CallsOK(s.calls)
  /\ LowProgram => ~s.panicked

-----------------------------------------------------------------------------
(* Heights *)

\* A finite set of heights has a bound.
LEMMA FiniteBounded ==
  ASSUME NEW S \in SUBSET Nat, IsFiniteSet(S)
  PROVE  Bounded(S)
<1>1. PICK f \in Seq(S) : \A h \in S : \E i \in 1 .. Len(f) : f[i] = h
  BY DEF IsFiniteSet
<1> DEFINE n == Len(f)
<1>2. n \in Nat /\ f \in [1 .. n -> S] /\ \A h \in S : \E i \in 1 .. n : f[i] = h
  BY <1>1
<1> HIDE DEF n
<1>2a. \A i \in 1 .. n : f[i] \in Nat
  <2>1. \A i \in 1 .. n : f[i] \in S
    BY <1>2
  <2> QED BY <2>1, Zenon
<1> DEFINE T == {k \in Nat : k <= n => \E m \in Nat : \A i \in 1 .. k : f[i] <= m}
<1>3. 0 \in T
  OBVIOUS
<1>4. ASSUME NEW k \in Nat, k \in T PROVE k + 1 \in T
  <2>1. SUFFICES ASSUME k + 1 <= n PROVE \E m \in Nat : \A i \in 1 .. k + 1 : f[i] <= m
    OBVIOUS
  <2>2. PICK m \in Nat : \A i \in 1 .. k : f[i] <= m
    <3>1. k <= n
      BY <1>2, <2>1
    <3> QED BY <1>4, <3>1, Zenon
  <2>3. f[k + 1] \in Nat
    BY <1>2, <1>2a, <2>1
  <2>4. m + f[k + 1] \in Nat /\ \A i \in 1 .. k + 1 : f[i] <= m + f[k + 1]
    <3>1. ASSUME NEW i \in 1 .. k + 1 PROVE f[i] <= m + f[k + 1]
      <4>1. f[i] \in Nat
        BY <1>2, <1>2a, <2>1
      <4>2. i \in 1 .. k \/ i = k + 1
        OBVIOUS
      <4> QED BY <2>2, <2>3, <4>1, <4>2
    <3> QED BY <2>3, <3>1
  <2> QED BY <2>4, Zenon
<1>5. n \in T
  <2> HIDE DEF T
  <2> QED BY <1>2, <1>3, <1>4, SetInduction
<1>6. PICK m \in Nat : \A i \in 1 .. n : f[i] <= m
  BY <1>5
<1> QED BY <1>2, <1>6, Zenon DEF Bounded

\* Heights above a height at which the tree may leave the first chain are such
\* heights too, and the first block is below them.
LEMMA HighFacts ==
  /\ \A h \in Nat : High(h) => h > 0
  /\ \A h, k \in Nat : High(h) /\ h <= k => High(k)
<1>1. \A b \in Block \ Range(FirstChain) : Height[b] \in Nat /\ Height[b] > 0
  BY TreeAssumption
<1>2. \A b \in Block : Height[b] \in Nat
  BY TreeAssumption
<1> QED BY <1>1, <1>2 DEF High

\* The parent of a block at such a height is one below it.
LEMMA ParentHeight ==
  ASSUME NEW b \in Block, High(Height[b])
  PROVE  Parent[b] \in Block /\ Height[b] = Height[Parent[b]] + 1
<1>1. CASE b \notin Range(FirstChain)
  BY <1>1, TreeAssumption
<1>2. CASE b \in Range(FirstChain)
  <2>1. PICK i \in 1 .. Len(FirstChain) : FirstChain[i] = b
    BY <1>2, TreeAssumption DEF Range
  <2>2. Height[b] \in Nat /\ Height[b] = i - 1
    BY <2>1, TreeAssumption
  <2>3. i \in 2 .. Len(FirstChain)
    BY <2>1, <2>2, HighFacts
  <2>4. Parent[b] = FirstChain[i - 1] /\ i - 1 \in 1 .. Len(FirstChain)
    BY <2>1, <2>3, TreeAssumption
  <2>5. FirstChain[i - 1] \in Block /\ Height[FirstChain[i - 1]] = (i - 1) - 1
    BY <2>4, TreeAssumption
  <2> QED BY <2>2, <2>4, <2>5
<1> QED BY <1>1, <1>2

-----------------------------------------------------------------------------
(* Tables of checkpoints *)

\* What membership of Tables says, both ways.
LEMMA TableFacts ==
  /\ \A db \in Tables : /\ DOMAIN db \in SUBSET Nat /\ Bounded(DOMAIN db)
                        /\ \A h \in DOMAIN db : db[h] \in Checkpoint
  /\ \A D \in SUBSET Nat : Bounded(D) => \A f \in [D -> Checkpoint] : f \in Tables
BY Zenon DEF Tables

\* A part of a bounded set of heights, and one height more, are bounded.
LEMMA BoundedFacts ==
  /\ \A D \in SUBSET Nat : Bounded(D) => \A E \in SUBSET D : Bounded(E)
  /\ \A D \in SUBSET Nat : Bounded(D) => \A h \in Nat : Bounded(D \cup {h})
<1>1. ASSUME NEW D \in SUBSET Nat, Bounded(D), NEW h \in Nat PROVE Bounded(D \cup {h})
  <2>1. PICK n \in Nat : \A k \in D : k <= n
    BY <1>1 DEF Bounded
  <2>2. n + h \in Nat /\ \A k \in D \cup {h} : k <= n + h
    BY <2>1
  <2> QED BY <2>2 DEF Bounded
<1> QED BY <1>1 DEF Bounded

\* update_block_checkpoint and remove_block_checkpoint make tables.
LEMMA UpdateTable ==
  ASSUME NEW db \in Tables, NEW height \in Nat, NEW c \in Checkpoint
  PROVE  /\ update_block_checkpoint(db, height, c) \in Tables
         /\ DOMAIN update_block_checkpoint(db, height, c) = DOMAIN db \cup {height}
<1> DEFINE D == DOMAIN db \cup {height}
           f == [h \in D |-> IF h = height THEN c ELSE db[h]]
<1>1. D \in SUBSET Nat /\ Bounded(D)
  BY TableFacts, BoundedFacts
<1>2. f \in [D -> Checkpoint]
  BY TableFacts
<1>3. f = update_block_checkpoint(db, height, c) /\ DOMAIN f = D
  BY DEF update_block_checkpoint
<1> HIDE DEF f, D
<1>4. f \in Tables
  BY <1>1, <1>2, TableFacts
<1> QED BY <1>3, <1>4 DEF D

\* remove_block_checkpoint leaves a table.
LEMMA RemoveTable ==
  ASSUME NEW db \in Tables, NEW S
  PROVE  /\ remove_block_checkpoints(db, S) \in Tables
         /\ DOMAIN remove_block_checkpoints(db, S) = DOMAIN db \ S
<1> DEFINE D == DOMAIN db \ S
           f == [h \in D |-> db[h]]
<1>1. D \in SUBSET Nat /\ Bounded(D)
  BY TableFacts, BoundedFacts
<1>2. f \in [D -> Checkpoint]
  BY TableFacts
<1>3. f = remove_block_checkpoints(db, S) /\ DOMAIN f = D
  BY DEF remove_block_checkpoints, Restrict
<1> HIDE DEF f, D
<1>4. f \in Tables
  BY <1>1, <1>2, TableFacts
<1> QED BY <1>3, <1>4 DEF D

\* get_immutable_checkpoint is a height.
LEMMA ImmutableNat ==
  ASSUME NEW db \in Tables, NEW height \in Nat
  PROVE  get_immutable_checkpoint(db, height) \in Nat
<1> DEFINE D == RangeDown(db, height)
           closest == Max(D)
           earlier == D \ {closest}
<1>1. CASE DOMAIN db = {}
  BY <1>1 DEF get_immutable_checkpoint
<1>2. CASE DOMAIN db # {}
  <2>1. D \in SUBSET Nat /\ D # {} /\ \E n \in Nat : \A k \in D : k <= n
    BY <1>2, TableFacts, RangeDownFact, Zenon
  <2>2. PICK n \in Nat : \A k \in D : k <= n
    BY <2>1
  <2> HIDE DEF D
  <2>3. closest \in Nat
    BY <2>1, <2>2, MaxFact, Zenon
  <2> HIDE DEF closest
  <2>4. earlier \in SUBSET Nat /\ \A k \in earlier : k <= n
    BY <2>1, <2>2, Zenon
  <2> HIDE DEF earlier
  <2>5. earlier # {} => Max(earlier) \in Nat
    BY <2>2, <2>4, MaxFact, Zenon
  <2>6. get_immutable_checkpoint(db, height) =
          IF ~IsFramePix(db[closest]) THEN closest ELSE IF earlier # {} THEN Max(earlier) ELSE 0
    BY <1>2, Zenon DEF get_immutable_checkpoint, D, closest, earlier
  <2> QED BY <2>3, <2>5, <2>6
<1> QED BY <1>1, <1>2, Zenon

\* checkpoints::block_added stores at most the checkpoint that came with the block.
LEMMA BlockAddedTable ==
  ASSUME NEW db \in Tables, NEW height \in Nat, NEW last \in Nat, NEW given \in SUBSET Checkpoint
  PROVE  /\ checkpoints_block_added(db, height, last, given) \in Tables
         /\ DOMAIN checkpoints_block_added(db, height, last, given) \subseteq
              DOMAIN db \cup (IF given = {} THEN {} ELSE {height})
         /\ last_cull_height_after(db, height, last) \in Nat
<1> DEFINE culled == remove_block_checkpoints(db, Culled(db, height, last))
           c == CHOOSE x \in given : TRUE
<1>1. culled \in Tables /\ DOMAIN culled \subseteq DOMAIN db
  BY RemoveTable, Zenon
<1>2. given # {} => c \in Checkpoint
  OBVIOUS
<1>3. checkpoints_block_added(db, height, last, given) =
        IF ~Culls(height) \/ given = {} THEN culled ELSE update_block_checkpoint(culled, height, c)
  BY DEF checkpoints_block_added
<1> HIDE DEF culled, c
<1>4. given # {} => /\ update_block_checkpoint(culled, height, c) \in Tables
                    /\ DOMAIN update_block_checkpoint(culled, height, c) = DOMAIN culled \cup {height}
  BY <1>1, <1>2, UpdateTable, Zenon
<1>5. last_cull_height_after(db, height, last) \in Nat
  <2> DEFINE end == CullEnd(db, height)
             start == CullStart(db, height, last)
  <2>1. end \in Nat
    BY ImmutableNat DEF CullEnd
  <2>2. Minus(end, CHECKPOINT_STORE_PERSISTENTLY_INTERVAL) \in Nat
    BY <2>1, IntervalAssumption DEF Minus
  <2>3. RoundUp(Minus(end, CHECKPOINT_STORE_PERSISTENTLY_INTERVAL)) \in Nat
    BY <2>2, RoundUpFact
  <2>4. start \in Nat
    BY <2>3 DEF CullStart, MaxOf
  <2> HIDE DEF end, start
  <2>5. LoopEnd(start, end) \in Nat
    BY <2>1, <2>4, LoopEndFact
  <2> QED BY <2>5 DEF last_cull_height_after, end, start
<1> QED BY <1>1, <1>3, <1>4, <1>5

\* Multiples of n are n or more unless they are 0, and so is their difference.
LEMMA Multiples ==
  ASSUME NEW n \in Nat \ {0}, NEW a \in Nat, NEW b \in Nat, a % n = 0, b % n = 0, b <= a
  PROVE  (a - b) % n = 0 /\ (b > 0 => b >= n)
<1> DEFINE p == a \div n
           q == b \div n
<1>1. p \in Nat /\ q \in Nat /\ a = n * p /\ b = n * q
  BY DivFact
<1> HIDE DEF p, q
<1>2. p >= q
  <2>1. SUFFICES ASSUME p + 1 <= q PROVE FALSE
    BY <1>1
  <2>2. n * (p + 1) <= n * q
    BY <1>1, <2>1
  <2>3. n * (p + 1) = n * p + n
    BY <1>1
  <2> QED BY <1>1, <2>2, <2>3
<1>3. a - b = n * (p - q) + 0 /\ p - q \in Nat
  BY <1>1, <1>2
<1>4. (n * (p - q) + 0) % n = 0
  <2> DEFINE d == p - q
  <2>1. d \in Nat /\ 0 \in Nat /\ 0 < n
    BY <1>3
  <2> HIDE DEF d
  <2>2. (n * d + 0) % n = 0
    BY <2>1, ModUnique, Zenon
  <2> QED BY <2>2 DEF d
<1>5. b > 0 => b >= n
  <2>1. SUFFICES ASSUME q >= 1 PROVE n * q >= n
    BY <1>1
  <2>2. n * q >= n * 1
    BY <1>1, <2>1
  <2> QED BY <1>1, <2>2
<1> QED BY <1>3, <1>4, <1>5

\* checkpoints::blockchain_detached leaves nothing above the cut: all records there
\* are multiples of CHECKPOINT_INTERVAL, as its steps are.
LEMMA DetachedTable ==
  ASSUME NEW db \in Tables, NEW height \in Nat
  PROVE  /\ checkpoints_blockchain_detached(db, height) \in Tables
         /\ DOMAIN checkpoints_blockchain_detached(db, height) \subseteq DOMAIN db
         /\ (LowProgram /\ TableOK(db) /\ High(height)) =>
              \A h \in DOMAIN checkpoints_blockchain_detached(db, height) : h < height
<1>1. /\ checkpoints_blockchain_detached(db, height) \in Tables
      /\ DOMAIN checkpoints_blockchain_detached(db, height) = DOMAIN db \ Detached(db, height)
  BY RemoveTable DEF checkpoints_blockchain_detached
<1>2. DOMAIN db \in SUBSET Nat
  BY TableFacts
<1>3. ASSUME LowProgram, TableOK(db), High(height), NEW h \in DOMAIN db, h >= height
      PROVE  h \in Detached(db, height)
  <2> DEFINE m == Max(DOMAIN db)
  <2>1. PICK n \in Nat : \A k \in DOMAIN db : k <= n
    BY TableFacts DEF Bounded
  <2>2. m \in DOMAIN db /\ h <= m
    BY <1>2, <2>1, MaxFact, Zenon
  <2>3. m = get_max_height(db)
    BY DEF get_max_height
  <2> HIDE DEF m
  <2>4. High(h) /\ High(m) /\ h > 0 /\ h \in Nat /\ m \in Nat
    BY <1>2, <1>3, <2>2, HighFacts
  <2>5. h % CHECKPOINT_INTERVAL = 0 /\ m % CHECKPOINT_INTERVAL = 0
    BY <1>3, <2>2, <2>4 DEF TableOK, Fit
  <2>6. (m - h) % CHECKPOINT_INTERVAL = 0 /\ h >= CHECKPOINT_INTERVAL
    BY <2>2, <2>4, <2>5, IntervalAssumption, Multiples
  <2> QED BY <1>3, <2>3, <2>6 DEF Detached
<1>4. ASSUME LowProgram, TableOK(db), High(height), NEW h \in DOMAIN db \ Detached(db, height)
      PROVE  h < height
  <2>1. ~(h >= height) /\ h \in Nat
    BY <1>2, <1>3, <1>4
  <2> QED BY <2>1
<1> QED BY <1>1, <1>4

-----------------------------------------------------------------------------
(* The main chain *)

\* What adding and removing blocks leaves alone.
Same(s, v) ==
  /\ v.alt = s.alt /\ v.calls = s.calls /\ v.thrown = s.thrown
  /\ v.immutable = s.immutable /\ v.panicked = s.panicked

\* v is s with another chain and table.
ChainSet(s, v, a, b) == v \in State /\ v.chain = a /\ v.db = b /\ Same(s, v)

\* An update of the chain, the table and m_last_cull_height.
LEMMA SetChain ==
  ASSUME NEW s \in State, NEW a \in Seq(Block), NEW b \in Tables, NEW c \in Nat
  PROVE  \A v : v = [s EXCEPT !.chain = a, !.db = b, !.cull = c] =>
           ChainSet(s, v, a, b)
BY Zenon DEF State, Same, ChainSet

\* An update of m_invalid_blocks.
LEMMA SetInvalid ==
  ASSUME NEW s \in State, NEW a \in SUBSET Block
  PROVE  \A v : v = [s EXCEPT !.invalid = a] =>
           ChainSet(s, v, s.chain, s.db)
BY DEF State, Same, ChainSet

\* The fields of a state have their types.
LEMMA StateFields ==
  ASSUME NEW s \in State
  PROVE  /\ s.chain \in Seq(Block) /\ s.alt \in Alternatives /\ s.invalid \in SUBSET Block
         /\ s.db \in Tables /\ s.cull \in Nat /\ s.immutable \in Nat /\ s.calls \in Seq(Call)
         /\ s.thrown \in BOOLEAN /\ s.panicked \in BOOLEAN
BY DEF State

\* A block is added with the hook of checkpoints.
LEMMA ConnectedFacts ==
  ASSUME NEW s \in State, NEW b \in Block, NEW given \in SUBSET Checkpoint
  PROVE  LET v == Connected(s, b, given)
         IN  /\ v \in State /\ v.chain = Append(s.chain, b) /\ Same(s, v)
             /\ DOMAIN v.db \subseteq DOMAIN s.db \cup (IF given = {} THEN {} ELSE {Len(s.chain)})
<1> DEFINE height == Len(s.chain)
           a == Append(s.chain, b)
           d == checkpoints_block_added(s.db, height, s.cull, given)
           k == last_cull_height_after(s.db, height, s.cull)
<1>1. s.chain \in Seq(Block) /\ s.db \in Tables /\ s.cull \in Nat
  BY StateFields
<1>2. height \in Nat /\ a \in Seq(Block)
  BY <1>1
<1>3. d \in Tables /\ k \in Nat /\ DOMAIN d \subseteq DOMAIN s.db \cup (IF given = {} THEN {} ELSE {height})
  BY <1>1, <1>2, BlockAddedTable, Zenon
<1>4. Connected(s, b, given) = [s EXCEPT !.chain = a, !.db = d, !.cull = k]
  BY DEF Connected
<1> HIDE DEF a, d, k
<1> DEFINE v == Connected(s, b, given)
<1>5. v \in State /\ v.chain = a /\ v.db = d /\ Same(s, v)
  <2>1. ChainSet(s, v, a, d)
    BY <1>2, <1>3, <1>4, SetChain, Zenon
  <2> QED BY <2>1 DEF ChainSet
<1> QED BY <1>3, <1>4, <1>5 DEF a

\* A block on its parent lengthens a linked chain.
LEMMA LinkedAppend ==
  ASSUME NEW c, Linked(c), NEW b \in Block, High(Height[b]), Parent[b] = Last(c), b \notin BadInputs
  PROVE  Linked(Append(c, b)) /\ Height[b] = Len(c)
<1>1. c \in Seq(Block) /\ Len(c) > 0
  BY DEF Linked
<1>2. Height[b] = Height[c[Len(c)]] + 1
  BY ParentHeight DEF Last
<1>3. Height[c[Len(c)]] = Len(c) - 1
  BY <1>1 DEF Linked
<1>4. Height[b] = Len(c)
  BY <1>1, <1>2, <1>3
<1> DEFINE q == Append(c, b)
           n == Len(c)
<1>5. /\ q \in Seq(Block) /\ Len(q) = n + 1 /\ n \in Nat
      /\ q[n + 1] = b /\ \A i \in 1 .. n : q[i] = c[i]
  BY <1>1
<1>6. /\ \A i \in 1 .. n : Height[c[i]] = i - 1 /\ c[i] \notin BadInputs
      /\ \A i \in 2 .. n : Parent[c[i]] = c[i - 1]
      /\ Height[b] = n /\ Parent[b] = c[n] /\ n > 0
  BY <1>1, <1>4 DEF Linked, Last
<1> HIDE DEF q, n
<1>7. ASSUME NEW i \in 1 .. n + 1 PROVE Height[q[i]] = i - 1 /\ q[i] \notin BadInputs
  <2>1. CASE i = n + 1
    BY <1>5, <1>6, <2>1
  <2>2. CASE i # n + 1
    <3>1. i \in 1 .. n
      BY <1>5, <2>2
    <3> QED BY <1>5, <1>6, <3>1, Zenon
  <2> QED BY <2>1, <2>2
<1>8. ASSUME NEW i \in 2 .. n + 1 PROVE Parent[q[i]] = q[i - 1]
  <2>1. CASE i = n + 1
    <3>1. i - 1 = n /\ n \in 1 .. n
      BY <1>5, <1>6, <2>1
    <3> QED BY <1>5, <1>6, <2>1, <3>1
  <2>2. CASE i # n + 1
    <3>1. i \in 2 .. n /\ i \in 1 .. n /\ i - 1 \in 1 .. n
      BY <1>5, <2>2
    <3> QED BY <1>5, <1>6, <3>1
  <2> QED BY <2>1, <2>2
<1>9. Len(q) > 0
  BY <1>5
<1>10. Linked(q)
  BY <1>5, <1>7, <1>8, <1>9 DEF Linked
<1> QED BY <1>4, <1>10 DEF q

\* handle_block_to_main_chain: it fails on a block that is in its place only
\* because of its inputs or of a checkpoint at its height.
LEMMA HandleFacts ==
  ASSUME NEW s \in State, Linked(s.chain), TableOK(s.db),
         NEW b \in Block, High(Height[b]), NEW given \in SUBSET Checkpoint,
         given # {} => Fit(Height[b])
  PROVE  LET r == handle_block_to_main_chain(s, b, given)
         IN  /\ r.ok \in BOOLEAN /\ r.s \in State
             /\ Linked(r.s.chain) /\ TableOK(r.s.db) /\ Same(s, r.s)
             /\ r.ok => r.s.chain = Append(s.chain, b)
             /\ ~r.ok => r.s.chain = s.chain
             /\ (/\ Parent[b] = Last(s.chain) /\ b \notin BadInputs
                 /\ \A h \in DOMAIN s.db : h < Len(s.chain))
                => r.ok /\ \A h \in DOMAIN r.s.db : h < Len(r.s.chain)
<1> DEFINE r == handle_block_to_main_chain(s, b, given)
<1>1. s.chain \in Seq(Block) /\ s.invalid \in SUBSET Block /\ s.db \in Tables
  BY StateFields
<1>2. CASE Parent[b] # Last(s.chain) \/ ~check_block(s.db, Len(s.chain), b)
  <2>1. r.ok = FALSE /\ r.s = s
    BY <1>2 DEF handle_block_to_main_chain
  <2>2. ASSUME \A h \in DOMAIN s.db : h < Len(s.chain) PROVE check_block(s.db, Len(s.chain), b)
    <3>1. Len(s.chain) \notin DOMAIN s.db
      BY <1>1, <2>2
    <3> QED BY <3>1 DEF check_block, get_checkpoint
  <2>3. Same(s, s)
    BY DEF Same
  <2> HIDE DEF r
  <2>4. QED BY <1>2, <2>1, <2>2, <2>3, Zenon DEF r
<1>3. CASE ~(Parent[b] # Last(s.chain) \/ ~check_block(s.db, Len(s.chain), b)) /\ b \in BadInputs
  <2> DEFINE a == s.invalid \cup {b}
  <2>1. r.ok = FALSE /\ r.s = [s EXCEPT !.invalid = a]
    BY <1>3 DEF handle_block_to_main_chain
  <2>2. a \in SUBSET Block
    BY <1>1
  <2> HIDE DEF a, r
  <2>3. r.s \in State /\ r.s.chain = s.chain /\ r.s.db = s.db /\ Same(s, r.s)
    <3>1. ChainSet(s, r.s, s.chain, s.db)
      BY <2>1, <2>2, SetInvalid, Zenon
    <3> QED BY <3>1 DEF ChainSet
  <2> QED BY <1>3, <2>1, <2>3, Zenon DEF r
<1>4. CASE ~(Parent[b] # Last(s.chain) \/ ~check_block(s.db, Len(s.chain), b)) /\ b \notin BadInputs
  <2>1. r.ok = TRUE /\ r.s = Connected(s, b, given)
    BY <1>4 DEF handle_block_to_main_chain
  <2> HIDE DEF r
  <2>2. /\ r.s \in State /\ r.s.chain = Append(s.chain, b) /\ Same(s, r.s)
        /\ DOMAIN r.s.db \subseteq DOMAIN s.db \cup (IF given = {} THEN {} ELSE {Len(s.chain)})
    BY <2>1, ConnectedFacts
  <2>3. Linked(Append(s.chain, b)) /\ Height[b] = Len(s.chain)
    BY <1>4, LinkedAppend
  <2>4. TableOK(r.s.db)
    BY <2>2, <2>3 DEF TableOK
  <2>5. ASSUME \A h \in DOMAIN s.db : h < Len(s.chain) PROVE \A h \in DOMAIN r.s.db : h < Len(r.s.chain)
    <3>1. Len(r.s.chain) = Len(s.chain) + 1 /\ Len(s.chain) \in Nat
      BY <1>1, <2>2
    <3>2. DOMAIN s.db \subseteq Nat
      BY <1>1, TableFacts
    <3>3. \A h \in DOMAIN r.s.db : h \in DOMAIN s.db \/ h = Len(s.chain)
      BY <2>2
    <3>4. \A h \in DOMAIN r.s.db : h \in Nat /\ h <= Len(s.chain)
      BY <2>5, <3>1, <3>2, <3>3
    <3> QED BY <3>1, <3>4
  <2> QED BY <2>1, <2>2, <2>3, <2>4, <2>5, Zenon DEF r
<1> QED BY <1>2, <1>3, <1>4, Zenon

-----------------------------------------------------------------------------
(* ConnectAll *)

\* The results of ConnectAll.
Results == [ok : BOOLEAN, s : State, done : Nat]

\* The blocks of a list follow each other from the end of the chain, they are
\* valid, and no checkpoint lies above the chain.
Connectable(s, list) ==
  /\ \A j \in 1 .. Len(list) :
       /\ list[j].block \notin BadInputs
       /\ Parent[list[j].block] = IF j = 1 THEN Last(s.chain) ELSE list[j - 1].block
  /\ \A h \in DOMAIN s.db : h < Len(s.chain)

\* The result of the first i blocks of a list.
Outcome(s, list, i, r) ==
  /\ r \in Results
  /\ r.done <= i /\ (r.ok => r.done = i) /\ (~r.ok => r.done < i)
  /\ Len(r.s.chain) = Len(s.chain) + r.done
  /\ \A j \in 1 .. Len(s.chain) : r.s.chain[j] = s.chain[j]
  /\ \A j \in 1 .. r.done : r.s.chain[Len(s.chain) + j] = list[j].block
  /\ Linked(r.s.chain) /\ TableOK(r.s.db) /\ Same(s, r.s)
  /\ Connectable(s, list) => r.ok /\ \A h \in DOMAIN r.s.db : h < Len(r.s.chain)

\* One step of ConnectAll.
ConnectStep(list, r, i) ==
  LET t == handle_block_to_main_chain(r.s, list[i].block, list[i].given)
  IN  IF ~r.ok THEN r ELSE [ok |-> t.ok, s |-> t.s, done |-> IF t.ok THEN i ELSE r.done]

\* One more block of a list, handled by handle_block_to_main_chain.
LEMMA OutcomeStep ==
  ASSUME NEW s \in State, Linked(s.chain), NEW list, EntriesOK(list), NEW i \in 1 .. Len(list),
         NEW r, Outcome(s, list, i - 1, r)
  PROVE  Outcome(s, list, i, ConnectStep(list, r, i))
<1> DEFINE b == list[i].block
           given == list[i].given
           t == handle_block_to_main_chain(r.s, b, given)
           n == ConnectStep(list, r, i)
<1>1. /\ list \in Seq(Entry) /\ b \in Block /\ given \in SUBSET Checkpoint
      /\ High(Height[b]) /\ (given # {} => Fit(Height[b]))
  <2>1. list \in Seq(Entry) /\ High(Height[b]) /\ (given # {} => Fit(Height[b]))
    BY DEF EntriesOK
  <2>2. list[i] \in Entry
    BY <2>1
  <2> QED BY <2>1, <2>2 DEF Entry
<1>2. r \in Results /\ r.s \in State /\ r.ok \in BOOLEAN /\ r.done \in Nat
  BY DEF Outcome, Results
<1>3. s.chain \in Seq(Block) /\ r.s.chain \in Seq(Block) /\ i \in Nat
  BY <1>1, <1>2, StateFields
<1>4. CASE ~r.ok
  <2>1. n = r
    BY <1>4, Zenon DEF ConnectStep
  <2>2. r.done <= i /\ (r.ok => r.done = i) /\ (~r.ok => r.done < i)
    BY <1>2, <1>3, <1>4 DEF Outcome
  <2>3. Outcome(s, list, i, r)
    BY <1>4, <2>2 DEF Outcome
  <2> QED BY <2>1, <2>3
<1>5. CASE r.ok
  <2>1. n = [ok |-> t.ok, s |-> t.s, done |-> IF t.ok THEN i ELSE r.done]
    BY <1>5, Zenon DEF ConnectStep
  <2>2. Linked(r.s.chain) /\ TableOK(r.s.db) /\ Same(s, r.s) /\ r.done = i - 1
    BY <1>5 DEF Outcome
  <2> HIDE DEF n, b, given
  <2>3. /\ t.ok \in BOOLEAN /\ t.s \in State
        /\ Linked(t.s.chain) /\ TableOK(t.s.db) /\ Same(r.s, t.s)
        /\ t.ok => t.s.chain = Append(r.s.chain, b)
        /\ ~t.ok => t.s.chain = r.s.chain
        /\ (/\ Parent[b] = Last(r.s.chain) /\ b \notin BadInputs
            /\ \A h \in DOMAIN r.s.db : h < Len(r.s.chain))
           => t.ok /\ \A h \in DOMAIN t.s.db : h < Len(t.s.chain)
    BY <1>1, <1>2, <2>2, HandleFacts, Zenon
  <2> HIDE DEF t
  <2>4. n \in Results /\ n.ok = t.ok /\ n.s = t.s /\ n.done = IF t.ok THEN i ELSE r.done
    BY <1>2, <1>3, <2>1, <2>3, ZenonT(30) DEF Results
  <2>5. Same(s, n.s)
    BY <2>2, <2>3, <2>4, Zenon DEF Same
  <2>6. n.done <= i /\ (n.ok => n.done = i) /\ (~n.ok => n.done < i)
    BY <1>3, <2>2, <2>4
  <2>7. Len(r.s.chain) = Len(s.chain) + r.done /\ \A j \in 1 .. Len(s.chain) : r.s.chain[j] = s.chain[j]
    BY DEF Outcome
  <2>8. \A j \in 1 .. r.done : r.s.chain[Len(s.chain) + j] = list[j].block
    BY Zenon DEF Outcome
  <2>9. /\ Len(n.s.chain) = Len(s.chain) + n.done
        /\ \A j \in 1 .. Len(s.chain) : n.s.chain[j] = s.chain[j]
        /\ \A j \in 1 .. n.done : n.s.chain[Len(s.chain) + j] = list[j].block
    <3>1. CASE ~t.ok
      <4>1. n.s.chain = r.s.chain /\ n.done = r.done
        BY <2>3, <2>4, <3>1
      <4> QED BY <2>7, <2>8, <4>1, ZenonT(30)
    <3>2. CASE t.ok
      <4>1. n.s.chain = Append(r.s.chain, b) /\ n.done = i
        BY <2>3, <2>4, <3>2, ZenonT(30)
      <4>2. /\ Len(n.s.chain) = Len(r.s.chain) + 1 /\ n.s.chain[Len(r.s.chain) + 1] = b
            /\ \A j \in 1 .. Len(r.s.chain) : n.s.chain[j] = r.s.chain[j]
        BY <1>1, <1>3, <4>1
      <4>3. Len(s.chain) \in Nat /\ Len(r.s.chain) = Len(s.chain) + (i - 1)
        BY <1>3, <2>2, <2>7
      <4>4. Len(n.s.chain) = Len(s.chain) + n.done
        BY <1>3, <4>1, <4>2, <4>3
      <4>5. \A j \in 1 .. Len(s.chain) : n.s.chain[j] = s.chain[j]
        <5>1. \A j \in 1 .. Len(s.chain) : j \in 1 .. Len(r.s.chain)
          BY <1>3, <4>3
        <5> QED BY <2>7, <4>2, <5>1
      <4>6. ASSUME NEW j \in 1 .. n.done PROVE n.s.chain[Len(s.chain) + j] = list[j].block
        <5>1. CASE j = i
          <6>1. Len(s.chain) + j = Len(r.s.chain) + 1
            BY <1>3, <4>3, <5>1
          <6> QED BY <4>2, <5>1, <6>1, Zenon DEF b
        <5>2. CASE j # i
          <6>1. j \in 1 .. r.done /\ Len(s.chain) + j \in 1 .. Len(r.s.chain)
            BY <1>3, <2>2, <4>1, <4>3, <5>2, SMTT(30)
          <6> QED BY <2>8, <4>2, <6>1, ZenonT(30)
        <5> QED BY <5>1, <5>2, Zenon
      <4> QED BY <4>4, <4>5, <4>6, Zenon
    <3> QED BY <2>3, <3>1, <3>2, Zenon
  <2>10. ASSUME Connectable(s, list)
         PROVE  n.ok /\ \A h \in DOMAIN n.s.db : h < Len(n.s.chain)
    <3>1. \A h \in DOMAIN r.s.db : h < Len(r.s.chain)
      BY <2>10 DEF Outcome
    <3>2. b \notin BadInputs /\ Parent[b] = IF i = 1 THEN Last(s.chain) ELSE list[i - 1].block
      BY <2>10, Zenon DEF Connectable, b
    <3>3. Last(r.s.chain) = IF i = 1 THEN Last(s.chain) ELSE list[i - 1].block
      <4>1. Len(s.chain) \in Nat /\ Len(r.s.chain) = Len(s.chain) + (i - 1) /\ Len(s.chain) > 0
        BY <1>3, <2>2, <2>7 DEF Linked
      <4>2. CASE i = 1
        <5>1. Len(r.s.chain) = Len(s.chain) /\ Len(s.chain) \in 1 .. Len(s.chain)
          BY <4>1, <4>2
        <5> QED BY <2>7, <4>2, <5>1 DEF Last
      <4>3. CASE i # 1
        <5>1. i - 1 \in 1 .. r.done
          <6>1. i - 1 \in 1 .. (i - 1)
            BY <1>3, <4>3
          <6> QED BY <2>2, <6>1, Zenon
        <5> QED BY <2>8, <4>1, <4>3, <5>1, Zenon DEF Last
      <4> QED BY <4>2, <4>3, ZenonT(30)
    <3> QED BY <2>3, <2>4, <3>1, <3>2, <3>3, ZenonT(30)
  <2>11. Linked(n.s.chain) /\ TableOK(n.s.db)
    BY <2>3, <2>4
  <2>12. Outcome(s, list, i, n)
    BY <2>4, <2>5, <2>6, <2>9, <2>10, <2>11, Zenon DEF Outcome
  <2> QED BY <2>12 DEF n
<1> QED BY <1>2, <1>4, <1>5

\* ConnectAll: the recursion over the list is well founded, and its result is that
\* of all its blocks.
LEMMA ConnectAllFacts ==
  ASSUME NEW s \in State, Linked(s.chain), TableOK(s.db), NEW list, EntriesOK(list)
  PROVE  Outcome(s, list, Len(list), ConnectAll(s, list))
<1> DEFINE start == [ok |-> TRUE, s |-> s, done |-> 0]
           Def(f, i) == IF i = 0 THEN start ELSE ConnectStep(list, f[i - 1], i)
           Rec(n, f) == \A i \in 0 .. n : f[i] = Def(f, i)
           T == {n \in Nat : \E f : Rec(n, f)}
           N == Len(list)
           upTo == CHOOSE f : f = [i \in 0 .. N |-> Def(f, i)]
           U == {n \in Nat : n <= N => Outcome(s, list, n, upTo[n])}
<1>0. list \in Seq(Entry) /\ N \in Nat
  BY DEF EntriesOK
<1>1. 0 \in T
  <2> DEFINE f == [i \in 0 .. 0 |-> start]
  <2>1. Rec(0, f)
    <3> HIDE DEF start
    <3> QED OBVIOUS
  <2> QED BY <2>1, Zenon
<1>2. ASSUME NEW n \in Nat, n \in T PROVE n + 1 \in T
  <2>1. PICK f : Rec(n, f)
    BY <1>2, Zenon
  <2> HIDE DEF start
  <2> DEFINE g == [i \in 0 .. n + 1 |-> IF i = n + 1 THEN Def(f, n + 1) ELSE f[i]]
  <2>2. \A i \in 0 .. n : g[i] = f[i]
    OBVIOUS
  <2>3. g[n + 1] = Def(f, n + 1)
    OBVIOUS
  <2>4. Rec(n + 1, g)
    <3> HIDE DEF g
    <3> QED BY <2>1, <2>2, <2>3
  <2>5. n + 1 \in Nat
    OBVIOUS
  <2> QED BY <2>4, <2>5, Zenon
<1>3. N \in T
  <2> HIDE DEF T, N
  <2> QED BY <1>0, <1>1, <1>2, SetInduction
<1>4. PICK f : Rec(N, f)
  BY <1>3, Zenon
<1>5. upTo = [i \in 0 .. N |-> Def(upTo, i)]
  <2> DEFINE h == [i \in 0 .. N |-> f[i]]
  <2>1. h = [i \in 0 .. N |-> Def(h, i)]
    <3> HIDE DEF start, N
    <3> QED BY <1>0, <1>4
  <2> QED BY <2>1, Zenon
<1>6. Rec(N, upTo)
  <2> HIDE DEF upTo, start, N
  <2> QED BY <1>5, Zenon
<1>7. 0 \in U
  <2>1. upTo[0] = start
    <3> HIDE DEF upTo, start, N
    <3> QED BY <1>0, <1>6
  <2>2. start \in Results /\ start.ok = TRUE /\ start.s = s /\ start.done = 0
    BY DEF Results
  <2>3. s.chain \in Seq(Block) /\ Same(s, s)
    BY StateFields, Zenon DEF Same
  <2> HIDE DEF start
  <2>4. Outcome(s, list, 0, start)
    BY <2>2, <2>3 DEF Outcome, Connectable
  <2>5. 0 \in Nat
    OBVIOUS
  <2> QED BY <2>1, <2>4, <2>5, Zenon
<1>8. ASSUME NEW n \in Nat, n \in U PROVE n + 1 \in U
  <2>0. n + 1 \in Nat
    OBVIOUS
  <2>1. SUFFICES ASSUME n + 1 <= N PROVE Outcome(s, list, n + 1, upTo[n + 1])
    BY <2>0, Zenon
  <2> HIDE DEF upTo, start
  <2>2. Outcome(s, list, n, upTo[n])
    BY <1>0, <1>8, <2>1
  <2>3. upTo[n + 1] = ConnectStep(list, upTo[n], n + 1)
    <3>1. n + 1 \in 0 .. N /\ n + 1 # 0 /\ (n + 1) - 1 = n
      BY <1>0, <2>1
    <3> HIDE DEF N
    <3>2. upTo[n + 1] = Def(upTo, n + 1)
      BY <1>6, <3>1, Zenon
    <3> QED BY <3>1, <3>2
  <2>4. n + 1 \in 1 .. N /\ n = (n + 1) - 1
    BY <1>0, <2>1
  <2> DEFINE i == n + 1
  <2> HIDE DEF i
  <2>5. i \in 1 .. Len(list) /\ Outcome(s, list, i - 1, upTo[n])
    BY <2>2, <2>4 DEF i
  <2>6. Outcome(s, list, i, ConnectStep(list, upTo[n], i))
    BY <2>5, OutcomeStep
  <2> QED BY <2>3, <2>6 DEF i
<1>9. N \in U
  <2> HIDE DEF U, N
  <2> QED BY <1>0, <1>7, <1>8, SetInduction
<1>10. ConnectAll(s, list) = upTo[N]
  BY Zenon DEF ConnectAll, ConnectStep
<1>11. Outcome(s, list, N, upTo[N])
  <2> HIDE DEF upTo
  <2> QED BY <1>0, <1>9
<1> QED BY <1>10, <1>11, Zenon

-----------------------------------------------------------------------------
(* Cutting the chain *)

\* A prefix of a linked chain is linked.
LEMMA LinkedPrefix ==
  ASSUME NEW c, Linked(c), NEW n \in 1 .. Len(c)
  PROVE  /\ Linked(SubSeq(c, 1, n)) /\ Len(SubSeq(c, 1, n)) = n
         /\ \A j \in 1 .. n : SubSeq(c, 1, n)[j] = c[j]
<1>1. c \in Seq(Block) /\ n \in Nat /\ n > 0
  BY DEF Linked
<1> DEFINE p == SubSeq(c, 1, n)
<1>2. p \in Seq(Block) /\ Len(p) = n /\ \A j \in 1 .. n : p[j] = c[j]
  BY <1>1
<1> HIDE DEF p
<1>3. \A i \in 1 .. n : i \in 1 .. Len(c)
  BY <1>1
<1>4. \A i \in 1 .. n : Height[p[i]] = i - 1 /\ p[i] \notin BadInputs
  BY <1>2, <1>3, Zenon DEF Linked
<1>5. \A i \in 2 .. n : i \in 2 .. Len(c) /\ i \in 1 .. n /\ i - 1 \in 1 .. n
  BY <1>1
<1>6. \A i \in 2 .. n : Parent[p[i]] = p[i - 1]
  BY <1>2, <1>5, Zenon DEF Linked
<1>7. Linked(p)
  BY <1>1, <1>2, <1>4, <1>6, ZenonT(30) DEF Linked
<1> QED BY <1>2, <1>7 DEF p

\* pop_block_from_blockchain with the hook of checkpoints.
LEMMA DetachFacts ==
  ASSUME NEW s \in State, Linked(s.chain), TableOK(s.db), NEW height \in 1 .. Len(s.chain)
  PROVE  LET v == Detach(s, height)
         IN  /\ v \in State /\ Same(s, v) /\ Linked(v.chain) /\ TableOK(v.db)
             /\ v.chain = SubSeq(s.chain, 1, height)
             /\ Len(v.chain) = height /\ \A j \in 1 .. height : v.chain[j] = s.chain[j]
             /\ LowProgram /\ High(height) => \A h \in DOMAIN v.db : h < height
<1> DEFINE a == SubSeq(s.chain, 1, height)
           d == checkpoints_blockchain_detached(s.db, height)
           k == MinOf(s.cull, height)
           v == Detach(s, height)
<1>1. s.chain \in Seq(Block) /\ s.db \in Tables /\ s.cull \in Nat
  BY StateFields
<1>2. height \in Nat /\ k \in Nat
  BY <1>1 DEF MinOf
<1>3. Linked(a) /\ Len(a) = height /\ \A j \in 1 .. height : a[j] = s.chain[j]
  BY LinkedPrefix
<1>4. /\ d \in Tables /\ DOMAIN d \subseteq DOMAIN s.db
      /\ (LowProgram /\ TableOK(s.db) /\ High(height)) => \A h \in DOMAIN d : h < height
  BY <1>1, <1>2, DetachedTable, Zenon
<1>5. v = [s EXCEPT !.chain = a, !.db = d, !.cull = k]
  BY DEF Detach
<1> HIDE DEF a, d, k, v
<1>6. ChainSet(s, v, a, d)
  <2>1. a \in Seq(Block)
    BY <1>3 DEF Linked
  <2> QED BY <1>2, <1>4, <1>5, <2>1, SetChain, ZenonT(30)
<1>7. v \in State /\ v.chain = a /\ v.db = d /\ Same(s, v)
  BY <1>6 DEF ChainSet
<1>8. TableOK(d)
  BY <1>4 DEF TableOK
<1> QED BY <1>3, <1>4, <1>7, <1>8 DEF v, a

\* v is s but for "panicked".
PanicSet(s, v, p) ==
  /\ v \in State /\ v.chain = s.chain /\ v.db = s.db /\ v.alt = s.alt /\ v.calls = s.calls
  /\ v.thrown = s.thrown /\ v.panicked = p

\* An update of the history variable of rollback_blockchain_switching.
LEMMA SetPanicked ==
  ASSUME NEW s \in State, NEW p \in BOOLEAN
  PROVE  \A v : v = [s EXCEPT !.panicked = p] => PanicSet(s, v, p)
BY DEF State, PanicSet

\* The chain of a rollback to "height": the blocks up to there, then those of
\* "original" that could be connected.
RolledBack(s, v, original, height) ==
  /\ v \in State /\ Linked(v.chain) /\ TableOK(v.db)
  /\ v.alt = s.alt /\ v.calls = s.calls /\ v.thrown = s.thrown
  /\ Len(v.chain) >= height /\ Len(v.chain) <= height + Len(original)
  /\ \A j \in 1 .. height : v.chain[j] = s.chain[j]
  /\ \A j \in 1 .. Len(v.chain) - height : v.chain[height + j] = original[j].block

\* The blocks of a list are valid and follow block "height" of a chain.
Follows(list, c, height) ==
  \A j \in 1 .. Len(list) :
    /\ list[j].block \notin BadInputs
    /\ Parent[list[j].block] = IF j = 1 THEN c[height] ELSE list[j - 1].block

\* rollback_blockchain_switching: what was there before the switch comes back.
LEMMA RollbackFacts ==
  ASSUME NEW s \in State, Linked(s.chain), TableOK(s.db), NEW original, EntriesOK(original),
         NEW height \in 1 .. Len(s.chain)
  PROVE  LET v == rollback_blockchain_switching(s, original, height)
         IN  /\ RolledBack(s, v, original, height)
             /\ original = <<>> => v.panicked = s.panicked
             /\ (LowProgram /\ High(height) /\ Follows(original, s.chain, height)) =>
                  v.panicked = s.panicked /\ Len(v.chain) = height + Len(original)
<1> DEFINE d == Detach(s, height)
           r == ConnectAll(d, original)
           p == r.s.panicked \/ ~r.ok
           v == rollback_blockchain_switching(s, original, height)
<1>1. /\ d \in State /\ Same(s, d) /\ Linked(d.chain) /\ TableOK(d.db)
      /\ Len(d.chain) = height /\ \A j \in 1 .. height : d.chain[j] = s.chain[j]
      /\ LowProgram /\ High(height) => \A h \in DOMAIN d.db : h < height
  BY DetachFacts
<1>2. s.chain \in Seq(Block) /\ original \in Seq(Entry) /\ height \in Nat /\ Len(original) \in Nat
  BY StateFields DEF EntriesOK
<1>3. v = [r.s EXCEPT !.panicked = p]
  <2>1. ~(height > Len(s.chain))
    BY <1>2
  <2> QED BY <2>1 DEF rollback_blockchain_switching
<1> HIDE DEF d
<1>4. Outcome(d, original, Len(original), r)
  BY <1>1, ConnectAllFacts, ZenonT(30)
<1> HIDE DEF r
<1>5. r.s \in State /\ r.ok \in BOOLEAN /\ r.done \in Nat /\ r.s.panicked \in BOOLEAN
  BY <1>4, StateFields DEF Outcome, Results
<1>6. p \in BOOLEAN
  BY <1>5
<1> HIDE DEF v, p
<1>7. PanicSet(r.s, v, p)
  BY <1>3, <1>5, <1>6, SetPanicked, Zenon
<1>8. /\ v \in State /\ v.chain = r.s.chain /\ v.db = r.s.db /\ v.alt = r.s.alt
      /\ v.calls = r.s.calls /\ v.thrown = r.s.thrown /\ v.panicked = p
  BY <1>7, SMTT(30) DEF PanicSet
<1>9. r.done <= Len(original) /\ (r.ok => r.done = Len(original)) /\ (~r.ok => r.done < Len(original))
  BY <1>4, Zenon DEF Outcome
<1>10. /\ Len(r.s.chain) = height + r.done
       /\ \A j \in 1 .. height : r.s.chain[j] = d.chain[j]
       /\ \A j \in 1 .. r.done : r.s.chain[height + j] = original[j].block
  BY <1>1, <1>4, Zenon DEF Outcome
<1>11. Linked(r.s.chain) /\ TableOK(r.s.db) /\ Same(d, r.s) /\ (Connectable(d, original) => r.ok)
  BY <1>4, Zenon DEF Outcome
<1>12. r.s.panicked = s.panicked /\ v.alt = s.alt /\ v.calls = s.calls /\ v.thrown = s.thrown
  BY <1>1, <1>8, <1>11, Zenon DEF Same
<1>13. RolledBack(s, v, original, height)
  <2>1. Len(v.chain) >= height /\ Len(v.chain) <= height + Len(original) /\ Len(v.chain) - height = r.done
    <3> DEFINE k == Len(original)
    <3>1. Len(v.chain) = height + r.done /\ r.done \in Nat /\ r.done <= k /\ height \in Nat
      BY <1>2, <1>5, <1>8, <1>9, <1>10, Zenon
    <3>2. k \in Nat
      BY DEF EntriesOK
    <3> HIDE DEF k
    <3>3. Len(v.chain) >= height /\ Len(v.chain) <= height + k /\ Len(v.chain) - height = r.done
      BY <3>1, <3>2
    <3> QED BY <3>3 DEF k
  <2>2. v \in State /\ Linked(v.chain) /\ TableOK(v.db)
    BY <1>8, <1>11, Zenon
  <2>3. \A j \in 1 .. height : v.chain[j] = s.chain[j]
    BY <1>1, <1>8, <1>10, Zenon
  <2>4. \A j \in 1 .. Len(v.chain) - height : v.chain[height + j] = original[j].block
    BY <1>8, <1>10, <2>1, Zenon
  <2> QED BY <1>12, <2>1, <2>2, <2>3, <2>4, Zenon DEF RolledBack
<1>14. ASSUME original = <<>> PROVE v.panicked = s.panicked
  <2>1. r.ok
    BY <1>5, <1>9, <1>14
  <2> QED BY <1>5, <1>8, <1>12, <2>1, Zenon DEF p
<1>15. ASSUME LowProgram, High(height), Follows(original, s.chain, height)
       PROVE  v.panicked = s.panicked /\ Len(v.chain) = height + Len(original)
  <2>1. Last(d.chain) = s.chain[height]
    BY <1>1, <1>2 DEF Last
  <2>2. Connectable(d, original)
    BY <1>1, <1>15, <2>1, SMTT(30) DEF Connectable, Follows
  <2>3. r.ok
    BY <1>11, <2>2, Zenon
  <2> QED BY <1>5, <1>8, <1>9, <1>10, <1>12, <2>3, ZenonT(30) DEF p
<1> QED BY <1>13, <1>14, <1>15, ZenonT(30) DEF v

-----------------------------------------------------------------------------
(* The alternative blocks *)

\* What membership of Alternatives says, both ways.
LEMMA AlternativesFacts ==
  /\ \A alt \in Alternatives : DOMAIN alt \subseteq Block /\ \A b \in DOMAIN alt : alt[b] \in SUBSET Checkpoint
  /\ \A D \in SUBSET Block : \A f \in [D -> SUBSET Checkpoint] : f \in Alternatives
BY DEF Alternatives

\* Blocks are taken out.
LEMMA RestrictAlt ==
  ASSUME NEW alt \in Alternatives, NEW S
  PROVE  /\ Restrict(alt, DOMAIN alt \ S) \in Alternatives
         /\ AltOK(alt) => AltOK(Restrict(alt, DOMAIN alt \ S))
         /\ DOMAIN Restrict(alt, DOMAIN alt \ S) \subseteq DOMAIN alt
<1> DEFINE D == DOMAIN alt \ S
           f == [b \in D |-> alt[b]]
<1>1. D \in SUBSET Block /\ f \in [D -> SUBSET Checkpoint]
  BY AlternativesFacts
<1>2. Restrict(alt, DOMAIN alt \ S) = f /\ DOMAIN f = D /\ \A b \in D : f[b] = alt[b]
  BY DEF Restrict
<1> HIDE DEF f
<1>3. f \in Alternatives
  <2> HIDE DEF D
  <2> QED BY <1>1, AlternativesFacts
<1>4. AltOK(alt) => AltOK(f)
  BY <1>2 DEF AltOK
<1> QED BY <1>2, <1>3, <1>4

\* v is s but for the alternative blocks, the invalid ones and "thrown".
AltSet(s, v, a) ==
  /\ v \in State /\ v.chain = s.chain /\ v.db = s.db /\ v.calls = s.calls
  /\ v.panicked = s.panicked /\ v.alt = a

\* An update of the alternative blocks.
LEMMA SetAlt ==
  ASSUME NEW s \in State, NEW a \in Alternatives
  PROVE  \A v : v = [s EXCEPT !.alt = a] => AltSet(s, v, a)
BY SMTT(30) DEF State, AltSet

\* An exception changes nothing else.
LEMMA SetThrown ==
  ASSUME NEW s \in State, NEW t \in BOOLEAN
  PROVE  \A v : v = [s EXCEPT !.thrown = t] => AltSet(s, v, s.alt)
BY DEF State, AltSet

\* An update of the alternative blocks with an exception.
LEMMA SetAltThrown ==
  ASSUME NEW s \in State, NEW a \in Alternatives, NEW t \in BOOLEAN
  PROVE  \A v : v = [s EXCEPT !.alt = a, !.thrown = t] => AltSet(s, v, a)
BY Zenon DEF State, AltSet

\* A block marked as invalid.
LEMMA SetMarked ==
  ASSUME NEW s \in State, NEW i \in SUBSET Block
  PROVE  \A v : v = [s EXCEPT !.invalid = i] => AltSet(s, v, s.alt)
BY DEF State, AltSet

\* Alternative blocks may have gone.
Shrunk(s, v) ==
  /\ v \in State /\ v.chain = s.chain /\ v.db = s.db /\ v.calls = s.calls
  /\ v.panicked = s.panicked /\ (AltOK(s.alt) => AltOK(v.alt))
  /\ DOMAIN v.alt \subseteq DOMAIN s.alt

\* remove_alt_block removes an alternative block or throws.
LEMMA RemoveFacts ==
  ASSUME NEW s \in State, NEW b
  PROVE  Shrunk(s, remove_alt_block(s, b))
<1> DEFINE v == remove_alt_block(s, b)
           a == Restrict(s.alt, DOMAIN s.alt \ {b})
<1>1. s.alt \in Alternatives
  BY StateFields
<1>2. a \in Alternatives /\ (AltOK(s.alt) => AltOK(a)) /\ DOMAIN a \subseteq DOMAIN s.alt
  BY <1>1, RestrictAlt, Zenon
<1>3. (b \in DOMAIN s.alt /\ v = [s EXCEPT !.alt = a]) \/ v = [s EXCEPT !.thrown = TRUE]
  BY DEF remove_alt_block
<1> HIDE DEF a, v
<1>4. AltSet(s, v, a) \/ AltSet(s, v, s.alt)
  <2>1. TRUE \in BOOLEAN
    OBVIOUS
  <2> QED BY <1>2, <1>3, <2>1, SetAlt, SetThrown, Zenon
<1>5. Shrunk(s, v)
  BY <1>2, <1>4 DEF AltSet, Shrunk
<1> QED BY <1>5 DEF v

\* The removal of the blocks of a list, which may end in an exception.
LEMMA RemoveAllFacts ==
  ASSUME NEW s \in State, NEW list
  PROVE  Shrunk(s, RemoveAll(s, list))
<1> DEFINE absent == {i \in DOMAIN list : list[i] \notin DOMAIN s.alt}
           gone == {list[i] : i \in {j \in DOMAIN list : \A k \in absent : j < k}}
           a == Restrict(s.alt, DOMAIN s.alt \ gone)
           t == s.thrown \/ absent # {}
           v == RemoveAll(s, list)
<1>1. s.alt \in Alternatives /\ t \in BOOLEAN
  BY StateFields
<1>2. v = [s EXCEPT !.alt = a, !.thrown = t]
  BY DEF RemoveAll
<1> HIDE DEF absent, gone, t, v
<1>3. a \in Alternatives /\ (AltOK(s.alt) => AltOK(a)) /\ DOMAIN a \subseteq DOMAIN s.alt
  BY <1>1, RestrictAlt, Zenon
<1> HIDE DEF a
<1>4. AltSet(s, v, a)
  BY <1>1, <1>2, <1>3, SetAltThrown, Zenon
<1>5. Shrunk(s, v)
  BY <1>3, <1>4 DEF AltSet, Shrunk
<1> QED BY <1>5 DEF v

\* A block that a failed switch marks as invalid.
LEMMA MarkFacts ==
  ASSUME NEW s \in State, NEW b \in Block
  PROVE  Shrunk(s, [s EXCEPT !.invalid = s.invalid \cup {b}])
<1> DEFINE i == s.invalid \cup {b}
           v == [s EXCEPT !.invalid = i]
<1>1. i \in SUBSET Block
  BY StateFields
<1> HIDE DEF i
<1>2. AltSet(s, v, s.alt)
  BY <1>1, SetMarked, Zenon
<1> HIDE DEF v
<1>3. Shrunk(s, v)
  BY <1>2 DEF AltSet, Shrunk
<1> QED BY <1>3 DEF v, i

\* Two removals are a removal.
LEMMA ShrunkTwice ==
  ASSUME NEW s, NEW u, NEW v, Shrunk(s, u), Shrunk(u, v)
  PROVE  Shrunk(s, v)
BY DEF Shrunk

\* The failed switch: the rollback, then marks and removals of alternative blocks.
LEMMA FailedFacts ==
  ASSUME NEW s, NEW alt_chain \in Seq(Entry), NEW done \in Nat, done < Len(alt_chain),
         NEW original, NEW split, rollback_blockchain_switching(s, original, split) \in State
  PROVE  Shrunk(rollback_blockchain_switching(s, original, split),
                SwitchFailed(s, alt_chain, done, original, split))
<1> DEFINE back == rollback_blockchain_switching(s, original, split)
           failed == alt_chain[done + 1].block
           next == alt_chain[done + 2].block
           m1 == [back EXCEPT !.invalid = back.invalid \cup {failed}]
           m2 == remove_alt_block(m1, failed)
           m3 == [m2 EXCEPT !.invalid = m2.invalid \cup {next}]
           m4 == remove_alt_block(m3, failed)
<1>1. failed \in Block /\ (done + 1 # Len(alt_chain) => next \in Block)
  <2>1. done + 1 \in 1 .. Len(alt_chain)
    OBVIOUS
  <2>2. alt_chain[done + 1] \in Entry
    BY <2>1
  <2>3. ASSUME done + 1 # Len(alt_chain) PROVE alt_chain[done + 2] \in Entry
    <3>1. done + 2 \in 1 .. Len(alt_chain)
      BY <2>3
    <3> QED BY <3>1
  <2> QED BY <2>2, <2>3 DEF Entry
<1>2. SwitchFailed(s, alt_chain, done, original, split) = IF done + 1 = Len(alt_chain) THEN m2 ELSE m4
  BY Zenon DEF SwitchFailed
<1> HIDE DEF back, failed, next
<1>3. back \in State
  BY DEF back
<1>4. Shrunk(back, m1)
  BY <1>1, <1>3, MarkFacts, Zenon
<1> HIDE DEF m1
<1>5. m1 \in State
  BY <1>4 DEF Shrunk
<1>6. Shrunk(m1, m2)
  BY <1>5, RemoveFacts
<1> HIDE DEF m2
<1>7. m2 \in State
  BY <1>6 DEF Shrunk
<1>8. Shrunk(back, m2)
  BY <1>4, <1>6, ShrunkTwice
<1>9. ASSUME done + 1 # Len(alt_chain) PROVE Shrunk(back, m4)
  <2>1. Shrunk(m2, m3)
    BY <1>1, <1>7, <1>9, MarkFacts, Zenon
  <2> HIDE DEF m3
  <2>2. m3 \in State
    BY <2>1 DEF Shrunk
  <2>3. Shrunk(m3, m4)
    BY <2>2, RemoveFacts
  <2> HIDE DEF m4
  <2>4. Shrunk(m2, m4)
    BY <2>1, <2>3, ShrunkTwice
  <2> QED BY <1>8, <2>4, ShrunkTwice
<1> HIDE DEF m4
<1> QED BY <1>2, <1>8, <1>9 DEF back
==============================================================================
