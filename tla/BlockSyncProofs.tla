--------------------------- MODULE BlockSyncProofs ---------------------------
(***************************************************************************)
(* What the operators of BlockSync keep, for all chains of the peers,      *)
(* connections and thresholds: the block queue stays well formed           *)
(* (QueueOK), the contexts stay well formed (ContextOK), and every way     *)
(* out of a handler leaves the connection with something to wait for       *)
(* (Handled).  BlockSyncProofs combines them.                              *)
(***************************************************************************)
EXTENDS BlockSync, WellFoundedInduction, TLAPS

-----------------------------------------------------------------------------
(* Induction over sets of numbers: the provers can give a value to a set, not  *)
(* to an operator.                                                            *)

\* A set that holds 0, and with a number the next one, holds them all.
LEMMA SetInduction ==
  ASSUME NEW S, 0 \in S, \A n \in Nat : n \in S => n + 1 \in S
  PROVE  \A n \in Nat : n \in S
<1> DEFINE T == Nat \ S
           R == OpToRel(<, Nat)
<1>1. SUFFICES ASSUME T # {} PROVE FALSE
  OBVIOUS
<1>2. IsWellFoundedOn(R, Nat)
  BY NatLessThanWellFounded, Zenon
<1>3. PICK x \in T : \A y \in T : <<y, x>> \notin R
  <2>1. T \subseteq Nat
    OBVIOUS
  <2> HIDE DEF R, T
  <2> QED BY <1>1, <1>2, <2>1, WFMin, Zenon
<1>4. x \in Nat /\ x \notin S /\ x # 0
  OBVIOUS
<1>5. x - 1 \in Nat /\ x - 1 \notin S
  BY <1>4
<1>6. <<x - 1, x>> \in R
  BY <1>4, <1>5 DEF OpToRel
<1> QED BY <1>3, <1>5, <1>6, Zenon

\* A set of natural numbers that is not empty has a smallest one.
LEMMA SmallestExists ==
  ASSUME NEW S \in SUBSET Nat, S # {}
  PROVE  \E n \in S : \A m \in S : n <= m
<1> SUFFICES ASSUME \A n \in S : \E m \in S : m < n PROVE FALSE
  OBVIOUS
<1> DEFINE T == {n \in Nat : \A m \in S : m >= n}
<1>1. 0 \in T
  OBVIOUS
<1>2. \A n \in Nat : n \in T => n + 1 \in T
  OBVIOUS
<1>3. \A n \in Nat : n \in T
  <2> HIDE DEF T
  <2> QED BY <1>1, <1>2, SetInduction
<1>4. PICK m \in S : TRUE
  BY Zenon
<1>5. m + 1 \in T
  BY <1>3
<1> QED BY <1>4, <1>5

\* A set of numbers up to a bound that is not empty has a largest number.
LEMMA LargestExists ==
  ASSUME NEW S \in SUBSET Int, NEW m \in Int, NEW low \in S, \A i \in S : i <= m
  PROVE  \E i \in S : \A j \in S : j <= i
<1> SUFFICES ASSUME \A i \in S : \E j \in S : j > i PROVE FALSE
  OBVIOUS
<1> DEFINE T == {n \in Nat : \E i \in S : i >= low + n}
<1>1. 0 \in T
  OBVIOUS
<1>2. \A n \in Nat : n \in T => n + 1 \in T
  OBVIOUS
<1>3. \A n \in Nat : n \in T
  <2> HIDE DEF T
  <2> QED BY <1>1, <1>2, SetInduction
<1>4. m - low + 1 \in Nat
  OBVIOUS
<1>5. PICK i \in S : i >= low + (m - low + 1)
  BY <1>3, <1>4, Zenon
<1> QED BY <1>5

-----------------------------------------------------------------------------
(* Sequences *)

\* PrefixIn(s, S) is the length of the longest prefix of s within S: such a
\* prefix exists, so the CHOOSE that defines it finds it (the loops of
\* reserve_span and skip_unneeded_hashes stop).
LEMMA PrefixInExists ==
  ASSUME NEW A, NEW s \in Seq(A), NEW S
  PROVE  /\ PrefixIn(s, S) \in 0 .. Len(s)
         /\ \A i \in 1 .. PrefixIn(s, S) : s[i] \in S
         /\ PrefixIn(s, S) = Len(s) \/ s[PrefixIn(s, S) + 1] \notin S
<1> DEFINE T == {n \in 0 .. Len(s) : \A i \in 1 .. n : s[i] \in S}
           P(n) == /\ \A i \in 1 .. n : s[i] \in S
                   /\ n = Len(s) \/ s[n + 1] \notin S
<1>1. T \in SUBSET Int /\ 0 \in T /\ Len(s) \in Int /\ \A n \in T : n <= Len(s)
  OBVIOUS
<1>2. PICK n \in T : \A m \in T : m <= n
  <2> HIDE DEF T
  <2> QED BY <1>1, LargestExists, Zenon
<1>3. n \in 0 .. Len(s) /\ P(n)
  <2>1. n = Len(s) \/ n + 1 \notin T
    BY <1>2
  <2>2. n + 1 \in 0 .. Len(s) => s[n + 1] \notin S
    BY <1>2, <2>1
  <2> QED BY <1>2, <2>1, <2>2
<1>4. PrefixIn(s, S) \in 0 .. Len(s) /\ P(PrefixIn(s, S))
  BY <1>3, Zenon DEF PrefixIn
<1> QED BY <1>4

\* The end of a sequence after a prefix.
LEMMA SubSeqType ==
  ASSUME NEW A, NEW s \in Seq(A), NEW m \in Nat \ {0}, NEW n \in Nat, n <= Len(s)
  PROVE  /\ SubSeq(s, m, n) \in Seq(A)
         /\ m <= n => SubSeq(s, m, n) # <<>>
         /\ Len(SubSeq(s, m, n)) = IF m <= n THEN n - m + 1 ELSE 0
         /\ \A i \in 1 .. Len(SubSeq(s, m, n)) : SubSeq(s, m, n)[i] = s[m + i - 1]
OBVIOUS

\* The elements of a sequence.
LEMMA RangeFacts ==
  ASSUME NEW A, NEW s \in Seq(A)
  PROVE  /\ Range(s) \subseteq A
         /\ \A i \in 1 .. Len(s) : s[i] \in Range(s)
         /\ s # <<>> => s[1] \in Range(s) /\ Head(s) \in A /\ Last(s) \in A
         /\ \A b \in Range(s) : \E i \in 1 .. Len(s) : s[i] = b
BY DEF Range, Last
\* Without(s, S) is a sequence of elements of s: the function that defines it by
\* recursion exists, by induction on its domain.
LEMMA WithoutType ==
  ASSUME NEW A, NEW s \in Seq(A), NEW S
  PROVE  Without(s, S) \in Seq(A)
<1> DEFINE Def(f, i) == IF i = 0 THEN <<>> ELSE IF s[i] \in S THEN f[i - 1] ELSE Append(f[i - 1], s[i])
           Rec(n, f) == \A i \in 0 .. n : f[i] = Def(f, i)
           T == {n \in Nat : \E f : Rec(n, f)}
           kept == CHOOSE f : f = [i \in 0 .. Len(s) |-> Def(f, i)]
           U == {n \in Nat : n <= Len(s) => kept[n] \in Seq(A)}
<1>1. 0 \in T
  <2> DEFINE f == [i \in 0 .. 0 |-> <<>>]
  <2>1. Rec(0, f)
    OBVIOUS
  <2> QED BY <2>1, Zenon
<1>2. ASSUME NEW n \in Nat, n \in T PROVE n + 1 \in T
  <2>2. PICK f : Rec(n, f)
    BY <1>2, Zenon
  <2> DEFINE g == [i \in 0 .. n + 1 |-> IF i = n + 1 THEN Def(f, n + 1) ELSE f[i]]
  <2>3. \A i \in 0 .. n : g[i] = f[i]
    OBVIOUS
  <2>4. g[n + 1] = Def(f, n + 1)
    OBVIOUS
  <2>5. Rec(n + 1, g)
    <3> HIDE DEF g
    <3> QED BY <2>2, <2>3, <2>4
  <2>6. n + 1 \in Nat
    OBVIOUS
  <2> QED BY <2>5, <2>6, Zenon
<1>3. Len(s) \in T
  <2> HIDE DEF T
  <2> QED BY <1>1, <1>2, SetInduction
<1>4. PICK f : Rec(Len(s), f)
  BY <1>3, Zenon
<1>5. kept = [i \in 0 .. Len(s) |-> Def(kept, i)]
  <2> DEFINE h == [i \in 0 .. Len(s) |-> f[i]]
  <2>1. h = [i \in 0 .. Len(s) |-> Def(h, i)]
    BY <1>4
  <2> QED BY <2>1, Zenon
<1>6. Rec(Len(s), kept)
  <2> HIDE DEF kept
  <2> QED BY <1>5, Zenon
<1>7. 0 \in U
  <2>1. kept[0] = <<>>
    <3> HIDE DEF kept
    <3> QED BY <1>6
  <2>2. 0 \in Nat /\ <<>> \in Seq(A)
    OBVIOUS
  <2> QED BY <2>1, <2>2, Zenon
<1>8. ASSUME NEW n \in Nat, n \in U PROVE n + 1 \in U
  <2>0. n + 1 \in Nat
    OBVIOUS
  <2>1. SUFFICES ASSUME n + 1 <= Len(s) PROVE kept[n + 1] \in Seq(A)
    BY <2>0, Zenon
  <2> HIDE DEF kept
  <2>2. kept[n] \in Seq(A) /\ s[n + 1] \in A
    BY <1>8, <2>1
  <2>3. kept[n + 1] = IF s[n + 1] \in S THEN kept[n] ELSE Append(kept[n], s[n + 1])
    BY <1>6, <2>1
  <2> QED BY <2>2, <2>3
<1>9. Len(s) \in U
  <2> HIDE DEF U
  <2> QED BY <1>7, <1>8, SetInduction
<1>10. Without(s, S) = kept[Len(s)]
  BY Zenon DEF Without
<1> QED
  <2> HIDE DEF kept
  <2> QED BY <1>9, <1>10

-----------------------------------------------------------------------------
(* block_queue *)

Span == [hashes : Seq(Block), blocks : Seq(Block), conn : Conns, nblocks : Nat]

\* Every span has blocks or hashes to ask for, and the hashes that count as
\* requested, or as there, are listed by a span, or by one with blocks.
QueueOK(q) ==
  /\ \A h \in Starts(q) :
       h \in Nat /\ q.spans[h] \in Span /\ (q.spans[h].blocks = <<>> => q.spans[h].hashes # <<>>)
  /\ \A b \in q.requested : \E h \in Starts(q) : b \in Range(q.spans[h].hashes)
  /\ \A b \in q.have : \E h \in FilledStarts(q) : b \in Range(q.spans[h].hashes)

\* erase_block forgets the hashes of the spans it erases: those that are left are
\* listed by a span that is left.
LEMMA EraseKeeps ==
  ASSUME NEW q, QueueOK(q), NEW S
  PROVE  QueueOK(EraseAll(q, S))
<1> DEFINE hashes == UNION {Range(q.spans[h].hashes) : h \in S}
           e == EraseAll(q, S)
<1>1. /\ e.spans = [h \in Starts(q) \ S |-> q.spans[h]]
      /\ e.requested = q.requested \ hashes
      /\ e.have = q.have \ hashes
  BY DEF EraseAll
<1>2. Starts(e) = Starts(q) \ S /\ \A h \in Starts(e) : e.spans[h] = q.spans[h]
  <2> HIDE DEF e
  <2> QED BY <1>1 DEF Starts
<1>3. FilledStarts(e) = FilledStarts(q) \ S
  <2> HIDE DEF e
  <2> QED BY <1>2 DEF FilledStarts
<1>4. \A h \in S : \A b : b \in Range(q.spans[h].hashes) => b \in hashes
  OBVIOUS
<1>5. FilledStarts(q) \subseteq Starts(q)
  BY DEF FilledStarts
<1> HIDE DEF e, hashes
<1>6. \A h \in Starts(e) :
        h \in Nat /\ e.spans[h] \in Span /\ (e.spans[h].blocks = <<>> => e.spans[h].hashes # <<>>)
  BY <1>2 DEF QueueOK
<1>7. \A b \in e.requested : \E h \in Starts(e) : b \in Range(e.spans[h].hashes)
  <2> TAKE b \in e.requested
  <2>1. PICK h \in Starts(q) : b \in Range(q.spans[h].hashes)
    BY <1>1 DEF QueueOK
  <2>2. h \notin S
    BY <1>1, <1>4, <2>1
  <2> QED BY <1>2, <2>1, <2>2
<1>8. \A b \in e.have : \E h \in FilledStarts(e) : b \in Range(e.spans[h].hashes)
  <2> TAKE b \in e.have
  <2>1. PICK h \in FilledStarts(q) : b \in Range(q.spans[h].hashes)
    BY <1>1 DEF QueueOK
  <2>2. h \notin S
    BY <1>1, <1>4, <2>1
  <2> QED BY <1>2, <1>3, <1>5, <2>1, <2>2
<1> QED BY <1>6, <1>7, <1>8 DEF QueueOK, e

\* add_blocks takes over the hashes of the span it replaces.
LEMMA AddBlocksKeeps ==
  ASSUME NEW q, QueueOK(q), NEW start \in Nat, NEW blocks \in Seq(Block), blocks # <<>>,
         NEW c \in Conns
  PROVE  QueueOK(add_blocks(q, start, blocks, c))
<1> DEFINE hashes == IF start \in Starts(q) THEN q.spans[start].hashes ELSE <<>>
           span == [hashes |-> hashes, blocks |-> blocks, conn |-> c, nblocks |-> Len(blocks)]
           a == add_blocks(q, start, blocks, c)
<1>1. /\ a.spans = Put(q, start, span)
      /\ a.requested = q.requested \cup Range(hashes)
      /\ a.have = q.have \cup Range(hashes)
  BY DEF add_blocks
<1>2. hashes \in Seq(Block)
  BY DEF QueueOK, Span
<1>3. span \in Span /\ span.hashes = hashes /\ span.blocks # <<>>
  <2> HIDE DEF hashes
  <2> QED BY <1>2 DEF Span
<1>4. start \in Starts(q) => q.spans[start].hashes = hashes
  OBVIOUS
<1> HIDE DEF hashes, span
<1>5. /\ Starts(a) = Starts(q) \cup {start}
      /\ a.spans[start] = span
      /\ \A h \in Starts(q) \ {start} : a.spans[h] = q.spans[h]
  <2> HIDE DEF a
  <2> QED BY <1>1 DEF Starts, Put
<1> HIDE DEF a
<1>6. /\ start \in FilledStarts(a)
      /\ \A h \in FilledStarts(q) : h \in Starts(q) /\ h \in FilledStarts(a)
  BY <1>3, <1>5 DEF FilledStarts, Filled
<1>7. \A h \in Starts(a) :
        h \in Nat /\ a.spans[h] \in Span /\ (a.spans[h].blocks = <<>> => a.spans[h].hashes # <<>>)
  BY <1>3, <1>5 DEF QueueOK
<1>8. \A h \in Starts(q) : h \in Starts(a) /\ a.spans[h].hashes = q.spans[h].hashes
  BY <1>3, <1>4, <1>5
<1>9. \A b \in a.requested : \E h \in Starts(a) : b \in Range(a.spans[h].hashes)
  BY <1>1, <1>3, <1>5, <1>8 DEF QueueOK
<1>10. \A b \in a.have : \E h \in FilledStarts(a) : b \in Range(a.spans[h].hashes)
  BY <1>1, <1>3, <1>5, <1>6, <1>8, Zenon DEF QueueOK
<1> QED BY <1>7, <1>9, <1>10 DEF QueueOK, a

\* A span that is added where none starts, with hashes that become requested.
LEMMA PutKeeps ==
  ASSUME NEW q, QueueOK(q), NEW start \in Nat, start \notin Starts(q), NEW span \in Span,
         span.hashes # <<>>
  PROVE  QueueOK([spans |-> Put(q, start, span),
                  requested |-> q.requested \cup Range(span.hashes), have |-> q.have])
<1> DEFINE a == [spans |-> Put(q, start, span),
                 requested |-> q.requested \cup Range(span.hashes), have |-> q.have]
<1>1. /\ a.spans = Put(q, start, span)
      /\ a.requested = q.requested \cup Range(span.hashes)
      /\ a.have = q.have
  OBVIOUS
<1> HIDE DEF a
<1>2. /\ Starts(a) = Starts(q) \cup {start}
      /\ a.spans[start] = span
      /\ \A h \in Starts(q) : a.spans[h] = q.spans[h]
  BY <1>1 DEF Starts, Put
<1>3. FilledStarts(q) \subseteq Starts(q) /\ FilledStarts(q) \subseteq FilledStarts(a)
  BY <1>2 DEF FilledStarts
<1>4. \A h \in Starts(a) :
        h \in Nat /\ a.spans[h] \in Span /\ (a.spans[h].blocks = <<>> => a.spans[h].hashes # <<>>)
  BY <1>2 DEF QueueOK
<1>5. \A b \in a.requested : \E h \in Starts(a) : b \in Range(a.spans[h].hashes)
  BY <1>1, <1>2 DEF QueueOK
<1>6. \A b \in a.have : \E h \in FilledStarts(a) : b \in Range(a.spans[h].hashes)
  BY <1>1, <1>2, <1>3 DEF QueueOK
<1> QED BY <1>4, <1>5, <1>6, Zenon DEF QueueOK, a

\* set_span_hashes exchanges the hashes of a span of the connection.
LEMMA SetHashesKeeps ==
  ASSUME NEW q, QueueOK(q), NEW start, NEW c \in Conns, NEW hashes \in Seq(Block), hashes # <<>>
  PROVE  QueueOK(set_span_hashes(q, start, c, hashes))
<1>1. CASE ~(start \in Starts(q) /\ q.spans[start].conn = c)
  BY <1>1 DEF set_span_hashes
<1>2. CASE start \in Starts(q) /\ q.spans[start].conn = c
  <2> DEFINE rest == EraseAll(q, {start})
             span == [q.spans[start] EXCEPT !.hashes = hashes]
  <2>1. QueueOK(rest)
    BY EraseKeeps
  <2>2. start \notin Starts(rest)
    BY DEF EraseAll, Starts
  <2>3. span \in Span /\ span.hashes = hashes
    BY <1>2 DEF QueueOK, Span
  <2>4. set_span_hashes(q, start, c, hashes) =
          [spans |-> Put(rest, start, span),
           requested |-> rest.requested \cup Range(span.hashes), have |-> rest.have]
    <3> HIDE DEF rest, span
    <3> QED BY <1>2, <2>3 DEF set_span_hashes, rest, span
  <2>5. start \in Nat
    BY <1>2 DEF QueueOK
  <2> HIDE DEF rest, span
  <2> QED BY <2>1, <2>2, <2>3, <2>4, <2>5, PutKeeps
<1> QED BY <1>1, <1>2

\* reserve_span reserves a run of the hashes after those that are requested.
LEMMA ReserveKeeps ==
  ASSUME NEW q, QueueOK(q), NEW last \in Int, NEW c \in Conns, NEW hashes \in Seq(Block),
         NEW r, r = reserve_span(q, last, c, hashes), NEW skip, skip = PrefixIn(hashes, q.requested)
  PROVE  /\ r.n \in Nat
         /\ r.n > 0 => /\ QueueOK(r.queue)
                       /\ r.start - (last - Len(hashes) + 1) = skip
                       /\ skip \in Nat /\ skip + r.n <= Len(hashes)
<1> DEFINE n == MinOf(block_sync_size, Len(hashes) - skip)
           start == last - Len(hashes) + 1 + skip
           empty == [hashes |-> <<>>, blocks |-> <<>>, conn |-> c, nblocks |-> n]
           inserted == IF start \in Starts(q) THEN q
                       ELSE [spans |-> Put(q, start, empty), requested |-> q.requested,
                             have |-> q.have]
           some == SubSeq(hashes, skip + 1, skip + n)
<1>1. skip \in 0 .. Len(hashes) /\ Len(hashes) \in Nat
  BY PrefixInExists
<1>2. n \in Nat /\ skip + n <= Len(hashes) /\ start \in Int
  BY <1>1, SyncAssumption DEF MinOf
<1>3. r = IF Len(hashes) > last \/ n = 0 THEN [start |-> 0, n |-> 0, queue |-> q]
          ELSE [start |-> start, n |-> n, queue |-> set_span_hashes(inserted, start, c, some)]
  BY Zenon DEF reserve_span
<1> HIDE DEF n, start, inserted, some
<1>4. CASE Len(hashes) > last \/ n = 0
  BY <1>3, <1>4
<1>5. CASE ~(Len(hashes) > last \/ n = 0)
  <2>1. r.start = start /\ r.n = n /\ r.queue = set_span_hashes(inserted, start, c, some)
    BY <1>3, <1>5
  <2>2. some \in Seq(Block) /\ some # <<>>
    <3>1. skip + 1 \in Nat \ {0} /\ skip + n \in Nat /\ skip + n <= Len(hashes) /\ skip + 1 <= skip + n
      BY <1>1, <1>2, <1>5
    <3>2. \A m \in Nat \ {0}, k \in Nat : m <= k /\ k <= Len(hashes) =>
            SubSeq(hashes, m, k) \in Seq(Block) /\ SubSeq(hashes, m, k) # <<>>
      BY SubSeqType, Zenon
    <3> QED BY <3>1, <3>2, Zenon DEF some
  <2>3. r.start - (last - Len(hashes) + 1) = skip
    BY <1>1, <2>1 DEF start
  <2>4. QueueOK(r.queue)
    <3>1. CASE start \in Starts(q)
      BY <2>1, <2>2, <3>1, SetHashesKeeps DEF inserted
    <3>2. CASE start \notin Starts(q)
      <4> DEFINE rest == EraseAll(inserted, {start})
                 span == [inserted.spans[start] EXCEPT !.hashes = some]
      <4>1. /\ inserted.spans = Put(q, start, empty)
            /\ inserted.requested = q.requested /\ inserted.have = q.have
        BY <3>2 DEF inserted
      <4>2. /\ Starts(inserted) = Starts(q) \cup {start}
            /\ inserted.spans[start] = empty
            /\ \A h \in Starts(q) : inserted.spans[h] = q.spans[h]
        BY <3>2, <4>1 DEF Starts, Put
      <4>3. empty \in Span /\ empty.conn = c
        BY <1>2 DEF Span
      <4> HIDE DEF empty
      <4>4. /\ span = [empty EXCEPT !.hashes = some]
            /\ span \in Span /\ span.hashes = some
        BY <2>2, <4>2, <4>3, Zenon DEF Span
      <4>5. /\ Starts(rest) = Starts(q)
            /\ \A h \in Starts(q) : rest.spans[h] = q.spans[h]
            /\ rest.requested \subseteq q.requested /\ rest.have \subseteq q.have
        <5>1. /\ rest.spans = [h \in Starts(inserted) \ {start} |-> inserted.spans[h]]
              /\ rest.requested \subseteq q.requested /\ rest.have \subseteq q.have
          BY <4>1 DEF EraseAll
        <5> HIDE DEF rest
        <5> QED BY <3>2, <4>2, <5>1 DEF Starts
      <4> HIDE DEF span, rest
      <4>6. QueueOK(rest)
        BY <4>5 DEF QueueOK, FilledStarts
      <4>7. r.queue = [spans |-> Put(rest, start, span),
                       requested |-> rest.requested \cup Range(span.hashes), have |-> rest.have]
        BY <2>1, <4>2, <4>3, <4>4 DEF set_span_hashes, rest, span
      <4>8. span \in Span /\ span.hashes # <<>> /\ start \notin Starts(rest)
        BY <2>2, <3>2, <4>4, <4>5
      <4>9. start \in Nat
        BY <1>1, <1>5 DEF start
      <4> QED BY <4>6, <4>7, <4>8, <4>9, PutKeeps
    <3> QED BY <3>1, <3>2
  <2> QED BY <1>1, <1>2, <2>1, <2>3, <2>4
<1> QED BY <1>4, <1>5

-----------------------------------------------------------------------------
(* The chains of the peers *)

\* The path to a block of some peer is a chain from the genesis block.
LEMMA PathFacts ==
  ASSUME NEW b \in Block
  PROVE  /\ PathTo(b) \in Seq(Block) /\ PathTo(b) # <<>> /\ PathTo(b)[1] = genesis
         /\ Height(b) \in Nat
<1> DEFINE c == CHOOSE c \in Conns : b \in Range(Chain[c])
           i == CHOOSE i \in DOMAIN Chain[c] : Chain[c][i] = b
<1>1. \E d \in Conns : b \in Range(Chain[d])
  BY DEF Block
<1>2. c \in Conns /\ b \in Range(Chain[c])
  BY <1>1, Zenon
<1> HIDE DEF c
<1>3. Chain[c] \in Seq(Block) /\ Chain[c] # <<>> /\ Chain[c][1] = genesis
  BY <1>2, SyncAssumption
<1>4. \E j \in DOMAIN Chain[c] : Chain[c][j] = b
  BY <1>2 DEF Range
<1>5. i \in DOMAIN Chain[c]
  BY <1>4, Zenon
<1> HIDE DEF i
<1>6. PathTo(b) = SubSeq(Chain[c], 1, i)
  BY Zenon DEF PathTo, c, i
<1>7. i \in 1 .. Len(Chain[c])
  BY <1>3, <1>5
<1>8. /\ SubSeq(Chain[c], 1, i) \in Seq(Block)
      /\ Len(SubSeq(Chain[c], 1, i)) = i
      /\ SubSeq(Chain[c], 1, i)[1] = Chain[c][1]
  BY <1>3, <1>7
<1> QED BY <1>3, <1>6, <1>7, <1>8 DEF Height

Request == [kind : {"blocks", "chain"}, hashes : Seq(Block), split : Nat]

Context ==
  [state : {"synchronizing", "standby", "normal"}, needed : Seq(Block), asked : SUBSET Block,
   last : Int, remote : Nat, known : SUBSET Block, waiting : BOOLEAN, callbacks : Nat,
   unanswered : Seq(Request)]

Threads ==
  [at : {"idle", "adding", "processing", "stopping", "requesting"}, start : Nat,
   blocks : Seq(Block), owner : SUBSET Conns]

\* The main chain starts with the genesis block.
ChainOK == chain \in Seq(Block) /\ chain # <<>> /\ chain[1] = genesis

\* The request of a chain entry starts from a block that the peer has: at least
\* the genesis block.
LEMMA RequestChainType ==
  ASSUME ChainOK, NEW c \in Conns, NEW known
  PROVE  RequestChain(c, known) \in Request /\ RequestChain(c, known).kind = "chain"
<1> DEFINE shared == {i \in DOMAIN chain : chain[i] \in Range(Chain[c])}
           top == CHOOSE i \in shared : \A j \in shared : j <= i
           from == {Height(b) : b \in known \cap Range(Chain[c])}
           split == IF from # {} THEN CHOOSE h \in from : TRUE ELSE top - 1
<1>1. Chain[c] \in Seq(Block) /\ Chain[c] # <<>> /\ Chain[c][1] = genesis
  BY SyncAssumption
<1>2. genesis \in Range(Chain[c]) /\ Range(Chain[c]) \subseteq Block
  BY <1>1, RangeFacts
<1>3. shared \in SUBSET Int /\ 1 \in shared /\ Len(chain) \in Int /\ \A i \in shared : i <= Len(chain)
  BY <1>2 DEF ChainOK
<1>4. \E i \in shared : \A j \in shared : j <= i
  <2> HIDE DEF shared
  <2> QED BY <1>3, LargestExists, Zenon
<1>5. top \in shared
  <2> HIDE DEF shared
  <2> QED BY <1>4, Zenon
<1>6. top - 1 \in Nat
  <2> HIDE DEF top
  <2> QED BY <1>5 DEF ChainOK
<1>7. from \subseteq Nat
  BY <1>2, PathFacts
<1>8. from # {} => (CHOOSE h \in from : TRUE) \in from
  <2> HIDE DEF from
  <2> QED BY Zenon
<1>9. split \in Nat
  <2> HIDE DEF top, from
  <2> QED BY <1>6, <1>7, <1>8, Zenon
<1>10. RequestChain(c, known) = [kind |-> "chain", hashes |-> <<>>, split |-> split]
  BY Zenon DEF RequestChain
<1> HIDE DEF split
<1> QED BY <1>9, <1>10 DEF Request

-----------------------------------------------------------------------------
(* Connections *)

\* What the peer may not have of the hashes it is asked for is among the objects
\* that the context has as requested: a peer that sends no block is dropped.
Owed(c, x, hashes) == hashes # <<>> /\ Range(hashes) \ Range(Chain[c]) \subseteq x.asked

ContextOK(c, x) ==
  /\ x \in Context
  /\ \A i \in 1 .. Len(x.unanswered) :
       x.unanswered[i].kind = "blocks" => Owed(c, x, x.unanswered[i].hashes)

\* A context whose last height is forgotten.
LEMMA LastForgotten ==
  ASSUME NEW x \in Context
  PROVE  LET z == [x EXCEPT !.last = 0]
         IN  z \in Context /\ z.unanswered = x.unanswered /\ z.asked = x.asked
<1> DEFINE z == [x EXCEPT !.last = 0]
<1>1. z \in Context
  BY DEF Context
<1>2. z.unanswered = x.unanswered /\ z.asked = x.asked
  BY DEF Context
<1> QED BY <1>1, <1>2, Zenon

\* A thread goes on by itself, or its connection waits for something.
Fits(c, x, t) ==
  /\ t.at = "requesting" => Owed(c, x, t.blocks)
  /\ x.state = "synchronizing" /\ t.at = "idle" /\ t.blocks = <<>> =>
       x.unanswered # <<>> \/ x.callbacks > 0

Sound ==
  /\ QueueOK(queue)
  /\ open \subseteq Conns
  /\ ctx \in [Conns -> Context]
  /\ \A c \in Conns : ContextOK(c, ctx[c])
  /\ thread \in [Conns -> Threads]
  /\ \A c \in Conns : thread[c].at = "processing" => thread[c].blocks # <<>>
  /\ \A c \in open : Fits(c, ctx[c], thread[c])

\* A request that is sent leaves something to wait for.
LEMMA SendKeeps ==
  ASSUME NEW c \in Conns, NEW x, ContextOK(c, x), NEW request \in Request,
         request.kind = "blocks" => Owed(c, x, request.hashes)
  PROVE  /\ ContextOK(c, Send(x, request))
         /\ Send(x, request).unanswered # <<>>
         /\ Send(x, request).state = x.state
         /\ Send(x, request).asked = x.asked
<1> DEFINE u == x.unanswered
           v == IF Len(u) < MaxUnanswered THEN Append(u, request) ELSE u
           y == [x EXCEPT !.unanswered = v]
<1>1. Send(x, request) = y
  BY DEF Send
<1>2. u \in Seq(Request) /\ x \in Context
  BY DEF ContextOK, Context
<1>3. v \in Seq(Request) /\ v # <<>>
  <2>1. MaxUnanswered \in Nat \ {0}
    BY SyncAssumption
  <2>2. Append(u, request) \in Seq(Request) /\ Append(u, request) # <<>>
    BY <1>2
  <2> QED BY <1>2, <2>1, <2>2
<1>4. \A i \in 1 .. Len(v) : (i \in 1 .. Len(u) /\ v[i] = u[i]) \/ v[i] = request
  BY <1>2
<1> HIDE DEF v
<1>5. y \in Context /\ y.unanswered = v /\ y.state = x.state /\ y.asked = x.asked
  BY <1>2, <1>3, Zenon DEF Context
<1> HIDE DEF y
<1>6. ContextOK(c, y)
  BY <1>4, <1>5 DEF ContextOK, Owed
<1> QED BY <1>1, <1>3, <1>5, <1>6

\* The connection goes on with the context x, the queue q and its thread at t.
LEMMA BecomesKeeps ==
  ASSUME Sound, NEW c \in Conns, NEW x, ContextOK(c, x), NEW q, QueueOK(q), NEW t \in Threads,
         t.at # "processing", c \in open => Fits(c, x, t), Becomes(c, x, q, t)
  PROVE  Sound' /\ thread' = [thread EXCEPT ![c] = t]
<1>1. /\ thread' = [thread EXCEPT ![c] = t]
      /\ ctx' = [ctx EXCEPT ![c] = IF c \in open THEN x ELSE ctx[c]]
      /\ queue' = q
      /\ open' = open
  BY DEF Becomes
<1>2. thread' \in [Conns -> Threads]
  BY <1>1 DEF Sound
<1>3. ctx' \in [Conns -> Context]
  BY <1>1, Zenon DEF Sound, ContextOK
<1>4. QueueOK(queue)'
  BY <1>1 DEF QueueOK, Starts, FilledStarts
<1>5. ASSUME NEW d \in Conns
      PROVE  ContextOK(d, ctx[d])' /\ (thread'[d].at = "processing" => thread'[d].blocks # <<>>)
  <2>1. CASE d # c
    <3>1. ctx'[d] = ctx[d] /\ thread'[d] = thread[d]
      BY <1>1, <2>1, Zenon DEF Sound
    <3> QED BY <3>1, Zenon DEF Sound, ContextOK, Owed
  <2>2. CASE d = c
    <3>1. (ctx'[c] = x \/ ctx'[c] = ctx[c]) /\ thread'[c] = t
      BY <1>1 DEF Sound
    <3> QED BY <2>2, <3>1 DEF Sound, ContextOK, Owed
  <2> QED BY <2>1, <2>2, Zenon
<1>6. ASSUME NEW d \in open
      PROVE  Fits(d, ctx[d], thread[d])'
  <2>0. d \in Conns
    BY Zenon DEF Sound
  <2>1. CASE d # c
    <3>1. ctx'[d] = ctx[d] /\ thread'[d] = thread[d]
      BY <1>1, <2>0, <2>1, Zenon DEF Sound
    <3> QED BY <3>1 DEF Sound, Fits, Owed
  <2>2. CASE d = c
    <3>1. ctx'[c] = x /\ thread'[c] = t
      BY <1>1, <2>2 DEF Sound
    <3> QED BY <2>2, <3>1 DEF Sound, Fits, Owed
  <2> QED BY <2>1, <2>2
<1> QED BY <1>1, <1>2, <1>3, <1>4, <1>5, <1>6 DEF Sound

\* drop_connection flushes spans of the connection and forgets what it waits for.
LEMMA DropConnectionKeeps ==
  ASSUME Sound, NEW c \in Conns, NEW x, ContextOK(c, x), NEW q, QueueOK(q), NEW all,
         drop_connection(c, x, q, all)
  PROVE  /\ QueueOK(queue)'
         /\ open' = open \ {c}
         /\ ctx' \in [Conns -> Context]
         /\ \A d \in Conns : ContextOK(d, ctx[d])'
         /\ \A d \in Conns \ {c} : ctx'[d] = ctx[d]
<1> DEFINE y == [x EXCEPT !.unanswered = <<>>, !.callbacks = 0]
<1>1. /\ queue' = flush_spans(q, c, all)
      /\ ctx' = [ctx EXCEPT ![c] = y]
      /\ open' = open \ {c}
  BY DEF drop_connection
<1>2. QueueOK(queue)'
  <2>1. QueueOK(flush_spans(q, c, all))
    BY EraseKeeps DEF flush_spans
  <2> QED BY <1>1, <2>1 DEF QueueOK, Starts, FilledStarts
<1>3. y \in Context /\ y.unanswered = <<>>
  <2>1. x \in Context
    BY DEF ContextOK
  <2>2. \A u \in Seq(Request) :
          /\ [x EXCEPT !.unanswered = u, !.callbacks = 0] \in Context
          /\ [x EXCEPT !.unanswered = u, !.callbacks = 0].unanswered = u
    BY <2>1, Zenon DEF Context
  <2>3. <<>> \in Seq(Request)
    OBVIOUS
  <2> QED BY <2>2, <2>3, Zenon
<1> HIDE DEF y
<1>4. ctx' \in [Conns -> Context] /\ \A d \in Conns \ {c} : ctx'[d] = ctx[d]
  BY <1>1, <1>3 DEF Sound
<1>5. ctx'[c] = y
  BY <1>1 DEF Sound
<1>6. ASSUME NEW d \in Conns PROVE ContextOK(d, ctx[d])'
  <2>1. CASE d # c
    BY <1>4, <2>1 DEF Sound, ContextOK, Owed
  <2>2. CASE d = c
    BY <1>3, <1>5, <2>2 DEF ContextOK
  <2> QED BY <2>1, <2>2, ZenonT(30)
<1> QED BY <1>1, <1>2, <1>4, <1>6

\* The thread of a handler that has returned.
LEMMA IdleType == Idle \in Threads /\ Idle.at = "idle" /\ Idle.blocks = <<>>
<1>1. Idle.at = "idle" /\ Idle.start = 0 /\ Idle.blocks = <<>> /\ Idle.owner = {}
  BY DEF Idle
<1>2. Idle \in Threads
  BY DEF Idle, Threads
<1> QED BY <1>1, <1>2

\* The threads that handlers leave behind.
LEMMA IdleFacts ==
  /\ [Idle EXCEPT !.at = "adding"] \in Threads /\ [Idle EXCEPT !.at = "adding"].at = "adding"
  /\ \A blocks \in Seq(Block) :
       /\ [Idle EXCEPT !.blocks = blocks] \in Threads
       /\ [Idle EXCEPT !.blocks = blocks].at = "idle"
       /\ [Idle EXCEPT !.blocks = blocks].blocks = blocks
       /\ [Idle EXCEPT !.at = "requesting", !.blocks = blocks] \in Threads
       /\ [Idle EXCEPT !.at = "requesting", !.blocks = blocks].at = "requesting"
       /\ [Idle EXCEPT !.at = "requesting", !.blocks = blocks].blocks = blocks
<1>2. Idle \in Threads /\ Idle.at = "idle"
  BY IdleType
<1>3. [Idle EXCEPT !.at = "adding"] \in Threads /\ [Idle EXCEPT !.at = "adding"].at = "adding"
  BY <1>2 DEF Threads
<1>4. ASSUME NEW blocks \in Seq(Block)
      PROVE  /\ [Idle EXCEPT !.blocks = blocks] \in Threads
             /\ [Idle EXCEPT !.blocks = blocks].at = "idle"
             /\ [Idle EXCEPT !.blocks = blocks].blocks = blocks
  BY <1>2 DEF Threads
<1>5. ASSUME NEW blocks \in Seq(Block)
      PROVE  /\ [Idle EXCEPT !.at = "requesting", !.blocks = blocks] \in Threads
             /\ [Idle EXCEPT !.at = "requesting", !.blocks = blocks].at = "requesting"
             /\ [Idle EXCEPT !.at = "requesting", !.blocks = blocks].blocks = blocks
  BY <1>2, Zenon DEF Threads
<1> QED BY <1>3, <1>4, <1>5, Zenon

\* The handler of c has come to an end, or is about to ask for the next span.
Handled(c) ==
  /\ Sound'
  /\ \E t \in Threads : t.at \in {"idle", "requesting"} /\ thread' = [thread EXCEPT ![c] = t]

\* A handler that returns with its connection idle has been handled: NeverWedged's
\* condition holds of what it leaves behind.
LEMMA HandledIdle ==
  ASSUME NEW c \in Conns, Sound', thread' = [thread EXCEPT ![c] = Idle]
  PROVE  Handled(c)
BY IdleType, Zenon DEF Handled

\* drop_connection ends the handler: the context is gone and its spans with it.
LEMMA DropKeeps ==
  ASSUME Sound, NEW c \in Conns, NEW x, ContextOK(c, x), NEW q, QueueOK(q), Drop(c, x, q)
  PROVE  Handled(c)
<1>1. drop_connection(c, x, q, FALSE) /\ thread' = [thread EXCEPT ![c] = Idle]
  BY Zenon DEF Drop
<1>2. /\ QueueOK(queue)'
      /\ open' = open \ {c}
      /\ ctx' \in [Conns -> Context]
      /\ \A d \in Conns : ContextOK(d, ctx[d])'
      /\ \A d \in Conns \ {c} : ctx'[d] = ctx[d]
  BY <1>1, DropConnectionKeeps, Zenon
<1>3. thread' \in [Conns -> Threads] /\ thread'[c] = Idle /\ \A d \in Conns \ {c} : thread'[d] = thread[d]
  BY <1>1, IdleType DEF Sound
<1>4. \A d \in Conns : thread'[d].at = "processing" => thread'[d].blocks # <<>>
  <2> TAKE d \in Conns
  <2>1. CASE d = c
    BY <1>3, <2>1, IdleType
  <2>2. CASE d # c
    BY <1>3, <2>2, Zenon DEF Sound
  <2> QED BY <2>1, <2>2
<1>5. \A d \in open' : Fits(d, ctx[d], thread[d])'
  BY <1>2, <1>3 DEF Sound, Fits, Owed
<1>6. open' \subseteq Conns
  BY <1>2, Zenon DEF Sound
<1>7. Sound'
  BY <1>2, <1>3, <1>4, <1>5, <1>6 DEF Sound
<1> QED BY <1>1, <1>7, HandledIdle, Zenon

\* A context that has the same requests pending and no fewer objects requested.
LEMMA ContextChange ==
  ASSUME NEW c, NEW x, ContextOK(c, x), NEW y \in Context,
         y.unanswered = x.unanswered, x.asked \subseteq y.asked
  PROVE  ContextOK(c, y)
BY DEF ContextOK, Owed

\* skip_unneeded_hashes drops a prefix of m_needed_objects and leaves the rest of
\* the context alone.
LEMMA SkipKeeps ==
  ASSUME NEW c, NEW x, ContextOK(c, x), NEW have
  PROVE  ContextOK(c, skip_unneeded_hashes(x, have))
<1> DEFINE n == PrefixIn(x.needed, core \cup have)
           needed == SubSeq(x.needed, n + 1, Len(x.needed))
           known == IF x.needed # <<>> /\ needed = <<>> THEN {Last(x.needed)} ELSE x.known
           y == [x EXCEPT !.needed = needed, !.known = known]
<1>1. x \in Context /\ x.needed \in Seq(Block) /\ x.known \in SUBSET Block
  BY DEF ContextOK, Context
<1>2. n \in 0 .. Len(x.needed)
  <2>1. x.needed \in Seq(Block)
    BY <1>1
  <2> QED BY <2>1, PrefixInExists
<1> HIDE DEF n
<1>3. needed \in Seq(Block)
  BY <1>1, <1>2
<1> HIDE DEF needed
<1>4. known \in SUBSET Block
  BY <1>1, RangeFacts
<1> HIDE DEF known
<1>5. y \in Context /\ y.unanswered = x.unanswered /\ y.asked = x.asked
  BY <1>1, <1>3, <1>4, Zenon DEF Context
<1>6. skip_unneeded_hashes(x, have) = y
  BY Zenon DEF skip_unneeded_hashes, known, needed, n
<1> HIDE DEF y
<1>7. ContextOK(c, y)
  BY <1>5, ContextChange
<1> QED BY <1>6, <1>7

\* From the label skip on.
LEMMA NoBlocksKeeps ==
  ASSUME Sound, ChainOK, NEW c \in Conns, NEW x0, ContextOK(c, x0), NEW q, QueueOK(q),
         NoBlocks(c, x0, q)
  PROVE  Handled(c)
<1> DEFINE x == [x0 EXCEPT !.needed = <<>>]
           w == [x EXCEPT !.waiting = TRUE]
           n == [x EXCEPT !.state = "normal"]
           r == RequestChain(c, x.known)
<1>1. x0 \in Context
  BY DEF ContextOK
<1>2. /\ x \in Context /\ x.unanswered = x0.unanswered /\ x.asked = x0.asked
      /\ w \in Context /\ w.unanswered = x0.unanswered /\ w.asked = x0.asked
      /\ n \in Context /\ n.unanswered = x0.unanswered /\ n.asked = x0.asked /\ n.state = "normal"
  <2>1. x \in Context /\ x.unanswered = x0.unanswered /\ x.asked = x0.asked
    <3>1. \A s \in Seq(Block) :
            /\ [x0 EXCEPT !.needed = s] \in Context
            /\ [x0 EXCEPT !.needed = s].unanswered = x0.unanswered
            /\ [x0 EXCEPT !.needed = s].asked = x0.asked
      BY <1>1, Zenon DEF Context
    <3>2. <<>> \in Seq(Block)
      OBVIOUS
    <3> QED BY <3>1, <3>2, Zenon
  <2> HIDE DEF x
  <2>2. w \in Context /\ w.unanswered = x.unanswered /\ w.asked = x.asked
    BY <2>1, Zenon DEF Context
  <2>3. n \in Context /\ n.unanswered = x.unanswered /\ n.asked = x.asked /\ n.state = "normal"
    BY <2>1 DEF Context
  <2> QED BY <2>1, <2>2, <2>3
<1>3. \/ Becomes(c, Send(w, r), q, Idle)
      \/ Becomes(c, n, q, Idle)
      \/ Drop(c, x, q)
  BY Zenon DEF NoBlocks
<1> HIDE DEF x, w, n, r
<1>4. ContextOK(c, x) /\ ContextOK(c, w) /\ ContextOK(c, n)
  BY <1>2, ContextChange
<1>5. CASE Becomes(c, Send(w, r), q, Idle)
  <2>1. r \in Request /\ r.kind = "chain"
    BY RequestChainType DEF r
  <2>2. ContextOK(c, Send(w, r)) /\ Send(w, r).unanswered # <<>>
    BY <1>4, <2>1, SendKeeps
  <2>3. Fits(c, Send(w, r), Idle)
    BY <2>2, IdleType, Zenon DEF Fits
  <2>4. Sound' /\ thread' = [thread EXCEPT ![c] = Idle]
    BY <1>5, <2>2, <2>3, IdleType, BecomesKeeps, Zenon
  <2> QED BY <2>4, HandledIdle, Zenon
<1>6. CASE Becomes(c, n, q, Idle)
  <2>1. Fits(c, n, Idle)
    BY <1>2, IdleType, Zenon DEF Fits
  <2>2. Sound' /\ thread' = [thread EXCEPT ![c] = Idle]
    BY <1>4, <1>6, <2>1, IdleType, BecomesKeeps
  <2> QED BY <2>2, HandledIdle, Zenon
<1>7. CASE Drop(c, x, q)
  BY <1>4, <1>7, DropKeeps
<1> QED BY <1>3, <1>5, <1>6, <1>7

\* The blocks of a span are asked for.
LEMMA AskKeeps ==
  ASSUME Sound, NEW c \in Conns, NEW x, ContextOK(c, x), NEW q, QueueOK(q),
         NEW hashes \in Seq(Block), hashes # <<>>, NEW needed \in Seq(Block),
         Ask(c, x, q, hashes, needed)
  PROVE  Handled(c)
<1> DEFINE y == [x EXCEPT !.asked = x.asked \cup Range(hashes), !.needed = needed, !.waiting = TRUE]
           r == GetBlocks(hashes)
<1>1. x \in Context
  BY DEF ContextOK
<1>2. Range(hashes) \subseteq Block
  BY RangeFacts
<1>3. y \in Context /\ y.unanswered = x.unanswered /\ y.asked = x.asked \cup Range(hashes)
  BY <1>1, <1>2, Zenon DEF Context
<1>4. Becomes(c, Send(y, r), q, Idle)
  BY Zenon DEF Ask
<1>5. r \in Request /\ r.hashes = hashes
  BY DEF GetBlocks, Request
<1> HIDE DEF y, r
<1>6. ContextOK(c, y)
  BY <1>3, ContextChange
<1>7. Owed(c, y, r.hashes)
  BY <1>3, <1>5, Zenon DEF Owed
<1>8. ContextOK(c, Send(y, r)) /\ Send(y, r).unanswered # <<>>
  BY <1>5, <1>6, <1>7, SendKeeps, Zenon
<1>9. Fits(c, Send(y, r), Idle)
  BY <1>8, IdleType, Zenon DEF Fits
<1>10. Sound' /\ thread' = [thread EXCEPT ![c] = Idle]
  BY <1>4, <1>8, <1>9, IdleType, BecomesKeeps, Zenon
<1> QED BY <1>10, HandledIdle, Zenon

\* The next span, if it is scheduled, has hashes to ask for.
LEMMA NextSpanHashes ==
  ASSUME NEW q, QueueOK(q), NEW span \in get_next_span_if_scheduled(q)
  PROVE  span.hashes \in Seq(Block) /\ span.hashes # <<>>
BY DEF get_next_span_if_scheduled, QueueOK, Filled, Span

\* The span that request_missing_objects reserves keeps the queue sound, and what it
\* asks for is what the connection is then owed.
LEMMA ReserveStep ==
  ASSUME Sound, ChainOK, NEW c \in Conns, NEW x0, ContextOK(c, x0), NEW q, QueueOK(q),
         NEW force, Reserve(c, x0, q, force)
  PROVE  Handled(c)
<1> DEFINE x == skip_unneeded_hashes(x0, {})
           r == reserve_span(q, x.last, c, x.needed)
           skip == r.start - (x.last - Len(x.needed) + 1)
           first == SubSeq(x.needed, skip + 1, skip + r.n)
           rest == SubSeq(x.needed, skip + r.n + 1, Len(x.needed))
<1>1. \/ r.n > 0 /\ Ask(c, x, r.queue, first, rest)
      \/ \E span \in get_next_span_if_scheduled(q) :
           Ask(c, x, q, span.hashes, Without(x.needed, Range(span.hashes)))
      \/ NoBlocks(c, x, q)
  BY ZenonT(30) DEF Reserve
<1>2. ContextOK(c, x)
  BY SkipKeeps
<1> HIDE DEF x
<1>3. x.needed \in Seq(Block) /\ x.last \in Int /\ Len(x.needed) \in Nat
  BY <1>2 DEF ContextOK, Context
<1>4. /\ r.n \in Nat
      /\ r.n > 0 => /\ QueueOK(r.queue)
                    /\ skip = PrefixIn(x.needed, q.requested)
                    /\ skip \in Nat /\ skip + r.n <= Len(x.needed)
  <2> DEFINE p == PrefixIn(x.needed, q.requested)
             s == x.needed
             l == x.last
  <2>1. r = reserve_span(q, l, c, s) /\ p = PrefixIn(s, q.requested)
    OBVIOUS
  <2>2. s \in Seq(Block) /\ l \in Int
    BY <1>3
  <2> HIDE DEF r, p, s, l
  <2>3. /\ r.n \in Nat
        /\ r.n > 0 => /\ QueueOK(r.queue)
                      /\ r.start - (l - Len(s) + 1) = p
                      /\ p \in Nat /\ p + r.n <= Len(s)
    BY <2>1, <2>2, ReserveKeeps
  <2> QED BY <2>3 DEF p, s, l
<1> HIDE DEF r, skip
<1>5. CASE r.n > 0 /\ Ask(c, x, r.queue, first, rest)
  <2>1. first \in Seq(Block) /\ first # <<>>
    <3>1. skip + 1 \in Nat \ {0} /\ skip + r.n \in Nat /\ skip + r.n <= Len(x.needed) /\ skip + 1 <= skip + r.n
      BY <1>3, <1>4, <1>5
    <3>2. \A m \in Nat \ {0}, k \in Nat : m <= k /\ k <= Len(x.needed) =>
            SubSeq(x.needed, m, k) \in Seq(Block) /\ SubSeq(x.needed, m, k) # <<>>
      BY <1>3, SubSeqType, Zenon
    <3> QED BY <3>1, <3>2, Zenon
  <2>2. rest \in Seq(Block)
    BY <1>3, <1>4, <1>5
  <2> HIDE DEF first, rest
  <2> QED BY <1>2, <1>4, <1>5, <2>1, <2>2, AskKeeps
<1>6. ASSUME NEW span \in get_next_span_if_scheduled(q),
             Ask(c, x, q, span.hashes, Without(x.needed, Range(span.hashes)))
      PROVE  Handled(c)
  <2>1. Without(x.needed, Range(span.hashes)) \in Seq(Block)
    BY <1>3, WithoutType
  <2> QED BY <1>2, <1>6, <2>1, NextSpanHashes, AskKeeps
<1>7. CASE NoBlocks(c, x, q)
  BY <1>2, <1>7, NoBlocksKeeps
<1> QED BY <1>1, <1>5, <1>6, <1>7

\* The downloading branch of request_missing_objects, with or without a span to
\* take over, ends in a request, a chain request or a dropped connection.
LEMMA DownloadKeeps ==
  ASSUME Sound, ChainOK, NEW c \in Conns, NEW x, ContextOK(c, x), NEW q, QueueOK(q),
         NEW force, Download(c, x, q, force)
  PROVE  Handled(c)
<1> DEFINE z == [x EXCEPT !.last = 0]
           a(span) == [x EXCEPT !.asked = x.asked \cup Range(span.hashes)]
           t(span) == [Idle EXCEPT !.at = "requesting", !.blocks = span.hashes]
<1>1. \/ \E span \in get_next_span_if_scheduled(q) : Becomes(c, a(span), q, t(span))
      \/ NoBlocks(c, x, q)
      \/ NoBlocks(c, z, q)
      \/ Reserve(c, x, q, force)
  BY Zenon DEF Download
<1>2. x \in Context
  BY DEF ContextOK
<1>3. ASSUME NEW span \in get_next_span_if_scheduled(q), Becomes(c, a(span), q, t(span))
      PROVE  Handled(c)
  <2>1. span.hashes \in Seq(Block) /\ span.hashes # <<>>
    BY NextSpanHashes, Zenon
  <2>2. Range(span.hashes) \subseteq Block
    BY <2>1, RangeFacts
  <2> DEFINE y == a(span)
             s == t(span)
  <2>3. y \in Context /\ y.unanswered = x.unanswered /\ y.asked = x.asked \cup Range(span.hashes)
    BY <1>2, <2>2, Zenon DEF Context
  <2>4. s \in Threads /\ s.at = "requesting" /\ s.blocks = span.hashes
    BY <2>1, IdleFacts, Zenon
  <2>5. Becomes(c, y, q, s)
    BY <1>3
  <2> HIDE DEF y, s
  <2>6. ContextOK(c, y)
    BY <2>3, ContextChange
  <2>7. Fits(c, y, s)
    BY <2>1, <2>3, <2>4, Zenon DEF Fits, Owed
  <2>8. Sound' /\ thread' = [thread EXCEPT ![c] = s]
    BY <2>4, <2>5, <2>6, <2>7, BecomesKeeps
  <2> QED BY <2>4, <2>8, Zenon DEF Handled
<1>4. CASE NoBlocks(c, z, q)
  <2>1. z \in Context /\ z.unanswered = x.unanswered /\ z.asked = x.asked
    BY <1>2, LastForgotten, Zenon
  <2>2. ContextOK(c, z)
    <3> HIDE DEF z
    <3> QED BY <2>1, ContextChange
  <2> HIDE DEF z
  <2> QED BY <1>4, <2>2, NoBlocksKeeps
<1> QED BY <1>1, <1>3, <1>4, NoBlocksKeeps, ReserveStep, Zenon

\* The waiting branch of request_missing_objects: the connection goes to standby
\* (so CheckStandby is owed to it) or is dropped.
LEMMA WaitKeeps ==
  ASSUME Sound, NEW c \in Conns, NEW x, ContextOK(c, x), NEW q, QueueOK(q), NEW free,
         Wait(c, x, q, free)
  PROVE  Handled(c)
<1> DEFINE s == [x EXCEPT !.state = "standby", !.callbacks = x.callbacks + 1]
           u == [x EXCEPT !.state = "standby"]
<1>1. Becomes(c, s, q, Idle) \/ Drop(c, x, q) \/ Becomes(c, u, q, Idle)
  BY Zenon DEF Wait
<1>2. x \in Context
  BY DEF ContextOK
<1>3. s \in Context /\ s.unanswered = x.unanswered /\ s.asked = x.asked /\ s.state = "standby"
  <2>1. x.callbacks + 1 \in Nat
    BY <1>2 DEF Context
  <2>2. \A k \in Nat :
          LET v == [x EXCEPT !.state = "standby", !.callbacks = k]
          IN  v \in Context /\ v.unanswered = x.unanswered /\ v.asked = x.asked /\ v.state = "standby"
    BY <1>2, Zenon DEF Context
  <2> QED BY <2>1, <2>2, Zenon
<1>4. u \in Context /\ u.unanswered = x.unanswered /\ u.asked = x.asked /\ u.state = "standby"
  BY <1>2 DEF Context
<1> HIDE DEF s, u
<1>5. ContextOK(c, s) /\ ContextOK(c, u)
  BY <1>3, <1>4, ContextChange, Zenon
<1>6. Fits(c, s, Idle) /\ Fits(c, u, Idle)
  BY <1>3, <1>4, IdleType DEF Fits
<1>7. CASE Becomes(c, s, q, Idle) \/ Becomes(c, u, q, Idle)
  <2>1. Sound' /\ thread' = [thread EXCEPT ![c] = Idle]
    BY <1>5, <1>6, <1>7, IdleType, BecomesKeeps
  <2> QED BY <2>1, HandledIdle, ZenonT(30)
<1> QED BY <1>1, <1>7, DropKeeps

\* request_missing_objects keeps the queue and the contexts sound, and leaves the
\* connection with something to wait for.
LEMMA RequestKeeps ==
  ASSUME Sound, ChainOK, NEW c \in Conns, NEW x0, ContextOK(c, x0), NEW q0, QueueOK(q0),
         NEW force, NEW free, request_missing_objects(c, x0, q0, force, free)
  PROVE  Handled(c)
<1> DEFINE q == flush_stale_spans(q0, open)
           x == skip_unneeded_hashes(x0, q.have)
           y == [x EXCEPT !.state = "synchronizing"]
<1>1. \/ Download(c, x0, q, TRUE)
      \/ \E again : Download(c, y, q, again)
      \/ Wait(c, x, q, free)
  <2>1. \/ Download(c, x0, q, TRUE)
        \/ \E near \in {NearBlock(x, q)} :
             \/ \E v \in {y}, again \in IF near THEN should_download_next_span(x, q) ELSE {FALSE} :
                  Download(c, v, q, again)
             \/ Wait(c, x, q, free)
    BY ZenonT(30) DEF request_missing_objects
  <2> HIDE DEF q, x, y
  <2> QED BY <2>1, Zenon
<1>2. QueueOK(q)
  BY EraseKeeps DEF flush_stale_spans
<1>3. ContextOK(c, x)
  BY SkipKeeps
<1> HIDE DEF x, q
<1>4. ContextOK(c, y)
  <2>1. x \in Context
    BY <1>3 DEF ContextOK
  <2>2. y \in Context /\ y.unanswered = x.unanswered /\ y.asked = x.asked
    BY <2>1, Zenon DEF Context
  <2> HIDE DEF y
  <2> QED BY <1>3, <2>2, ContextChange
<1> HIDE DEF y
<1> QED BY <1>1, <1>2, <1>3, <1>4, DownloadKeeps, WaitKeeps, Zenon


-----------------------------------------------------------------------------
(* The sync lock *)

Busy == {"adding", "processing", "stopping"}

\* m_sync_lock is held by the thread that is in the loop of try_add_next_blocks,
\* and no other thread is in it.
OneAdder ==
  /\ m_sync_lock = {c \in Conns : thread[c].at \in Busy}
  /\ \A c, d \in Conns : thread[c].at \in Busy /\ thread[d].at \in Busy => c = d

IInv == ChainOK /\ Sound /\ OneAdder

\* A handler that did not hold the lock returns.
LEMMA LockUntouched ==
  ASSUME Sound, OneAdder, NEW c \in Conns, thread[c].at \notin Busy, Handled(c), UNCHANGED m_sync_lock
  PROVE  OneAdder'
<1>1. PICK t \in Threads : t.at \in {"idle", "requesting"} /\ thread' = [thread EXCEPT ![c] = t]
  BY Zenon DEF Handled
<1>2. t.at \notin Busy
  BY <1>1, Zenon DEF Busy
<1>3. \A d \in Conns : thread'[d].at \in Busy <=> thread[d].at \in Busy
  BY <1>1, <1>2 DEF Sound
<1> QED BY <1>3 DEF OneAdder

\* The thread that holds the lock releases it and its handler returns.
LEMMA LockReleased ==
  ASSUME Sound, OneAdder, NEW c \in Conns, thread[c].at \in Busy, Handled(c), m_sync_lock' = {}
  PROVE  OneAdder'
<1>1. PICK t \in Threads : t.at \in {"idle", "requesting"} /\ thread' = [thread EXCEPT ![c] = t]
  BY Zenon DEF Handled
<1>2. t.at \notin Busy
  BY <1>1 DEF Busy
<1>3. \A d \in Conns : thread'[d].at \notin Busy
  BY <1>1, <1>2 DEF Sound, OneAdder
<1> QED BY <1>3 DEF OneAdder

\* try_add_next_blocks: the lock is taken if it is free.
LEMMA TryAddKeeps ==
  ASSUME IInv, NEW c \in Conns, thread[c].at \notin Busy, NEW x, ContextOK(c, x), NEW q, QueueOK(q),
         try_add_next_blocks(c, x, q)
  PROVE  Sound' /\ OneAdder'
<1> DEFINE t == [Idle EXCEPT !.at = "adding"]
<1>1. \/ request_missing_objects(c, x, q, FALSE, FALSE) /\ UNCHANGED m_sync_lock
      \/ m_sync_lock = {} /\ m_sync_lock' = {c} /\ Becomes(c, x, q, t)
  BY Zenon DEF try_add_next_blocks
<1>2. CASE request_missing_objects(c, x, q, FALSE, FALSE) /\ UNCHANGED m_sync_lock
  <2>1. Handled(c)
    BY <1>2, RequestKeeps, Zenon DEF IInv
  <2> QED BY <1>2, <2>1, LockUntouched, Zenon DEF IInv, Handled
<1>3. CASE m_sync_lock = {} /\ m_sync_lock' = {c} /\ Becomes(c, x, q, t)
  <2>1. t \in Threads /\ t.at = "adding"
    BY IdleFacts, Zenon
  <2> HIDE DEF t
  <2>2. Fits(c, x, t)
    BY <2>1 DEF Fits
  <2>3. Sound' /\ thread' = [thread EXCEPT ![c] = t]
    BY <1>3, <2>1, <2>2, BecomesKeeps DEF IInv
  <2>4. \A d \in Conns : thread[d].at \notin Busy
    BY <1>3, Zenon DEF IInv, OneAdder
  <2>5. \A d \in Conns : thread'[d].at \in Busy <=> d = c
    BY <2>1, <2>3, <2>4, Zenon DEF IInv, Sound, Busy
  <2> QED BY <1>3, <2>3, <2>5 DEF OneAdder
<1> QED BY <1>1, <1>2, <1>3, Zenon

-----------------------------------------------------------------------------
(* Steps that change one part of the state *)

\* Only the context of a connection changes.
LEMMA ContextStep ==
  ASSUME IInv, NEW c \in Conns, NEW y, ContextOK(c, y), c \in open => Fits(c, y, thread[c]),
         ctx' = [ctx EXCEPT ![c] = y], UNCHANGED <<chain, queue, open, thread, m_sync_lock>>
  PROVE  IInv'
<1>1. y \in Context
  BY DEF ContextOK
<1>2. ctx' \in [Conns -> Context] /\ ctx'[c] = y /\ \A d \in Conns \ {c} : ctx'[d] = ctx[d]
  BY <1>1, Zenon DEF IInv, Sound
<1>3. ASSUME NEW d \in Conns PROVE ContextOK(d, ctx[d])' /\ (d \in open' => Fits(d, ctx[d], thread[d])')
  <2>1. CASE d = c
    BY <1>2, <2>1 DEF ContextOK, Owed, Fits
  <2>2. CASE d # c
    BY <1>2, <2>2, ZenonT(30) DEF IInv, Sound, ContextOK, Owed, Fits
  <2> QED BY <2>1, <2>2, Zenon
<1>4. QueueOK(queue)'
  BY Zenon DEF IInv, Sound, QueueOK, Starts, FilledStarts
<1> QED BY <1>2, <1>3, <1>4 DEF IInv, Sound, OneAdder, ChainOK

\* Only the thread of a connection changes, and it keeps the lock.
LEMMA ThreadStep ==
  ASSUME IInv, NEW c \in Conns, NEW t \in Threads, thread[c].at \in Busy, t.at \in Busy,
         t.at = "processing" => t.blocks # <<>>,
         thread' = [thread EXCEPT ![c] = t], UNCHANGED <<chain, queue, ctx, open, m_sync_lock>>
  PROVE  IInv'
<1>1. thread' \in [Conns -> Threads] /\ thread'[c] = t /\ \A d \in Conns \ {c} : thread'[d] = thread[d]
  BY Zenon DEF IInv, Sound
<1>2. \A d \in Conns : thread'[d].at \in Busy <=> thread[d].at \in Busy
  BY <1>1
<1>3. OneAdder'
  BY <1>2, Zenon DEF IInv, OneAdder
<1>4. ASSUME NEW d \in Conns
      PROVE  /\ ContextOK(d, ctx[d])' /\ (d \in open' => Fits(d, ctx[d], thread[d])')
             /\ thread'[d].at = "processing" => thread'[d].blocks # <<>>
  <2>1. CASE d = c
    <3>1. t.at # "requesting" /\ t.at # "idle"
      BY DEF Busy
    <3> QED BY <1>1, <2>1, <3>1, Zenon DEF IInv, Sound, ContextOK, Owed, Fits
  <2>2. CASE d # c
    BY <1>1, <2>2, ZenonT(30) DEF IInv, Sound, ContextOK, Owed, Fits
  <2> QED BY <2>1, <2>2
<1>5. QueueOK(queue)'
  BY Zenon DEF IInv, Sound, QueueOK, Starts, FilledStarts
<1> QED BY <1>1, <1>3, <1>4, <1>5 DEF IInv, Sound, ChainOK

\* A pending request is answered: what the peer sent is no longer requested.
LEMMA AnsweredKeeps ==
  ASSUME NEW c, NEW x, ContextOK(c, x), x.unanswered # <<>>, NEW y \in Context,
         y.unanswered = Tail(x.unanswered), x.asked \ y.asked \subseteq Range(Chain[c])
  PROVE  ContextOK(c, y)
<1>1. x.unanswered \in Seq(Request)
  BY DEF ContextOK, Context
<1>2. \A i \in 1 .. Len(y.unanswered) :
        i + 1 \in 1 .. Len(x.unanswered) /\ y.unanswered[i] = x.unanswered[i + 1]
  BY <1>1
<1> QED BY <1>2 DEF ContextOK, Owed

-----------------------------------------------------------------------------
(* The actions *)

\* on_callback.
LEMMA CallbackStep ==
  ASSUME IInv, NEW c \in Conns, OnCallback(c)
  PROVE  IInv'
<1> DEFINE x == [ctx[c] EXCEPT !.callbacks = ctx[c].callbacks - 1]
           n == [x EXCEPT !.needed = <<>>]
           s == [x EXCEPT !.state = "synchronizing"]
           r == RequestChain(c, {})
<1>1. /\ c \in open /\ thread[c].at = "idle" /\ ctx[c].callbacks > 0 /\ UNCHANGED chain
      /\ \/ ctx' = [ctx EXCEPT ![c] = Send(n, r)] /\ UNCHANGED <<queue, open, thread, m_sync_lock>>
         \/ try_add_next_blocks(c, s, queue)
         \/ /\ x.state = "normal"
            /\ ctx' = [ctx EXCEPT ![c] = x] /\ UNCHANGED <<queue, open, thread, m_sync_lock>>
  BY Zenon DEF OnCallback, CanHandle
<1>2. ctx[c] \in Context /\ ContextOK(c, ctx[c])
  BY DEF IInv, Sound
<1>3. x \in Context /\ x.unanswered = ctx[c].unanswered /\ x.asked = ctx[c].asked
  <2>1. ctx[c].callbacks - 1 \in Nat
    BY <1>1, <1>2 DEF Context
  <2>2. \A k \in Nat :
          LET v == [ctx[c] EXCEPT !.callbacks = k]
          IN  v \in Context /\ v.unanswered = ctx[c].unanswered /\ v.asked = ctx[c].asked
    BY <1>2, Zenon DEF Context
  <2> QED BY <2>1, <2>2, Zenon
<1> HIDE DEF x
<1>4. n \in Context /\ n.unanswered = x.unanswered /\ n.asked = x.asked
  <2>1. \A k \in Seq(Block) :
          LET v == [x EXCEPT !.needed = k]
          IN  v \in Context /\ v.unanswered = x.unanswered /\ v.asked = x.asked
    BY <1>3, Zenon DEF Context
  <2>2. <<>> \in Seq(Block)
    OBVIOUS
  <2> QED BY <2>1, <2>2, Zenon
<1>5. s \in Context /\ s.unanswered = x.unanswered /\ s.asked = x.asked
  BY <1>3, Zenon DEF Context
<1> HIDE DEF n, s, r
<1>6. ContextOK(c, x) /\ ContextOK(c, n) /\ ContextOK(c, s)
  BY <1>2, <1>3, <1>4, <1>5, ContextChange
<1>7. CASE ctx' = [ctx EXCEPT ![c] = Send(n, r)] /\ UNCHANGED <<queue, open, thread, m_sync_lock>>
  <2>1. r \in Request /\ r.kind = "chain"
    BY RequestChainType, Zenon DEF r, IInv
  <2>2. ContextOK(c, Send(n, r)) /\ Send(n, r).unanswered # <<>>
    BY <1>6, <2>1, SendKeeps
  <2>3. Fits(c, Send(n, r), thread[c])
    BY <1>1, <2>2, Zenon DEF Fits
  <2> QED BY <1>1, <1>7, <2>2, <2>3, ContextStep, Zenon
<1>8. CASE try_add_next_blocks(c, s, queue)
  <2>1. thread[c].at \notin Busy /\ QueueOK(queue)
    BY <1>1, Zenon DEF Busy, IInv, Sound
  <2>2. Sound' /\ OneAdder'
    BY <1>6, <1>8, <2>1, TryAddKeeps
  <2> QED BY <1>1, <2>2 DEF IInv, ChainOK
<1>9. CASE /\ x.state = "normal"
           /\ ctx' = [ctx EXCEPT ![c] = x] /\ UNCHANGED <<queue, open, thread, m_sync_lock>>
  <2>1. Fits(c, x, thread[c])
    BY <1>1, <1>9, Zenon DEF Fits
  <2> QED BY <1>1, <1>6, <1>9, <2>1, ContextStep, ZenonT(30)
<1> QED BY <1>1, <1>7, <1>8, <1>9

\* handle_response_chain_entry.
LEMMA ChainEntryStep ==
  ASSUME IInv, NEW c \in Conns, ChainEntry(c)
  PROVE  IInv'
<1> DEFINE split == Head(ctx[c].unanswered).split
           remote == Len(Chain[c])
           ids == SubSeq(Chain[c], split + 1,
                         MinOf(split + BLOCKS_IDS_SYNCHRONIZING_DEFAULT_COUNT, remote))
           u == Tail(ctx[c].unanswered)
           l == split + Len(ids) - 1
           x == [ctx[c] EXCEPT !.unanswered = u, !.waiting = FALSE, !.remote = remote,
                               !.needed = ids, !.last = l]
<1>1. /\ thread[c].at = "idle" /\ ctx[c].unanswered # <<>>
      /\ UNCHANGED <<chain, m_sync_lock>>
      /\ request_missing_objects(c, x, queue, FALSE, m_sync_lock = {})
  BY Zenon DEF ChainEntry, Answers, CanHandle
<1>2. ctx[c] \in Context /\ ContextOK(c, ctx[c]) /\ QueueOK(queue)
  BY Zenon DEF IInv, Sound
<1>3. ctx[c].unanswered \in Seq(Request)
  BY <1>2 DEF Context
<1>4. split \in Nat /\ Tail(ctx[c].unanswered) \in Seq(Request)
  <2>1. Head(ctx[c].unanswered) \in Request
    BY <1>1, <1>3
  <2>2. split \in Nat
    BY <2>1, Zenon DEF Request
  <2> QED BY <1>1, <1>3, <2>2
<1>5. Chain[c] \in Seq(Block) /\ remote \in Nat
  BY SyncAssumption
<1>6. ids \in Seq(Block) /\ Len(ids) \in Nat
  <2> DEFINE k == MinOf(split + BLOCKS_IDS_SYNCHRONIZING_DEFAULT_COUNT, remote)
  <2>1. BLOCKS_IDS_SYNCHRONIZING_DEFAULT_COUNT \in Nat
    BY SyncAssumption
  <2> HIDE DEF split
  <2>2. k \in Nat /\ k <= Len(Chain[c]) /\ split + 1 \in Nat \ {0}
    BY <1>4, <1>5, <2>1 DEF MinOf
  <2> HIDE DEF k
  <2>3. \A m \in Nat \ {0} : SubSeq(Chain[c], m, k) \in Seq(Block)
    BY <1>5, <2>2, SubSeqType
  <2>4. ids \in Seq(Block)
    BY <2>2, <2>3, Zenon DEF k
  <2> HIDE DEF ids
  <2> QED BY <2>4
<1> HIDE DEF split, ids, remote
<1>7. x \in Context /\ x.unanswered = Tail(ctx[c].unanswered) /\ x.asked = ctx[c].asked
  <2>1. l \in Int /\ u \in Seq(Request)
    BY <1>4, <1>6
  <2>2. u = Tail(ctx[c].unanswered) /\ remote \in Nat /\ ids \in Seq(Block) /\ ctx[c] \in Context
    BY <1>2, <1>5, <1>6
  <2> HIDE DEF l, u
  <2>3. x \in Context /\ x.unanswered = u /\ x.asked = ctx[c].asked
    BY <2>1, <2>2, ZenonT(30) DEF Context
  <2> HIDE DEF x
  <2> QED BY <2>2, <2>3
<1> HIDE DEF x
<1>8. ContextOK(c, x)
  BY <1>1, <1>2, <1>7, AnsweredKeeps
<1>9. Handled(c)
  BY <1>1, <1>2, <1>8, RequestKeeps, ZenonT(30) DEF IInv
<1>10. thread[c].at \notin Busy
  BY <1>1, Zenon DEF Busy
<1>11. OneAdder'
  BY <1>1, <1>9, <1>10, LockUntouched DEF IInv
<1> QED BY <1>1, <1>9, <1>11 DEF IInv, ChainOK, Handled

\* A peer that sends none of the blocks is dropped, since it was asked for one
\* that it lacks; so downloaded spans have blocks.
LEMMA BlocksStep ==
  ASSUME IInv, NEW c \in Conns, Blocks(c)
  PROVE  IInv'
<1> DEFINE hashes == Head(ctx[c].unanswered).hashes
           p == PrefixIn(hashes, Range(Chain[c]))
           blocks == SubSeq(hashes, 1, p)
           u == Tail(ctx[c].unanswered)
           a == ctx[c].asked \ Range(blocks)
           remote == Len(Chain[c])
           x == [ctx[c] EXCEPT !.unanswered = u, !.waiting = FALSE, !.remote = remote, !.asked = a]
           y == [x EXCEPT !.known = {Last(blocks)}]
           q == add_blocks(queue, Height(Head(blocks)), blocks, c)
<1>1. /\ thread[c].at = "idle" /\ ctx[c].unanswered # <<>>
      /\ Head(ctx[c].unanswered).kind = "blocks"
      /\ UNCHANGED chain
      /\ \/ x.asked = {} /\ try_add_next_blocks(c, y, q)
         \/ Drop(c, x, queue) /\ UNCHANGED m_sync_lock
  BY Zenon DEF Blocks, Answers, CanHandle
<1>2. ctx[c] \in Context /\ ContextOK(c, ctx[c]) /\ QueueOK(queue)
  BY DEF IInv, Sound
<1>3. ctx[c].unanswered \in Seq(Request) /\ ctx[c].asked \in SUBSET Block
  BY <1>2, Zenon DEF Context
<1>4. /\ Head(ctx[c].unanswered) \in Request /\ Head(ctx[c].unanswered) = ctx[c].unanswered[1]
      /\ 1 \in 1 .. Len(ctx[c].unanswered) /\ u \in Seq(Request)
  BY <1>1, <1>3
<1>5. hashes \in Seq(Block) /\ Owed(c, ctx[c], hashes)
  <2>1. hashes \in Seq(Block)
    BY <1>4, Zenon DEF Request
  <2> QED BY <1>1, <1>2, <1>4, <2>1, Zenon DEF ContextOK
<1> HIDE DEF hashes
<1>6. /\ p \in 0 .. Len(hashes)
      /\ \A i \in 1 .. p : hashes[i] \in Range(Chain[c])
      /\ p = Len(hashes) \/ hashes[p + 1] \notin Range(Chain[c])
  BY <1>5, PrefixInExists, Zenon
<1> HIDE DEF p
<1>7. /\ blocks \in Seq(Block) /\ Len(blocks) = p
      /\ \A i \in 1 .. p : blocks[i] = hashes[i]
  BY <1>5, <1>6
<1> HIDE DEF blocks
<1>8. Range(blocks) \subseteq Range(Chain[c])
  BY <1>6, <1>7, RangeFacts
<1>9. a \in SUBSET Block /\ remote \in Nat
  <2>1. Chain[c] \in Seq(Block)
    BY SyncAssumption
  <2> QED BY <1>3, <2>1
<1>10. x \in Context /\ x.unanswered = u /\ x.asked = a
  <2>1. ctx[c] \in Context /\ u \in Seq(Request)
    BY <1>2, <1>4
  <2> HIDE DEF u, a, remote
  <2> QED BY <1>9, <2>1, Zenon DEF Context
<1> HIDE DEF x
<1>11. ContextOK(c, x)
  <2>1. ctx[c].asked \ x.asked \subseteq Range(Chain[c])
    BY <1>8, <1>10
  <2> QED BY <1>1, <1>2, <1>10, <2>1, AnsweredKeeps
<1>12. thread[c].at \notin Busy
  BY <1>1 DEF Busy
<1>13. CASE Drop(c, x, queue) /\ UNCHANGED m_sync_lock
  <2>1. Handled(c)
    BY <1>2, <1>11, <1>13, DropKeeps DEF IInv
  <2>2. OneAdder'
    BY <1>12, <1>13, <2>1, LockUntouched, Zenon DEF IInv
  <2> QED BY <1>1, <2>1, <2>2 DEF IInv, ChainOK, Handled
<1>14. CASE x.asked = {} /\ try_add_next_blocks(c, y, q)
  <2>1. blocks # <<>>
    <3> SUFFICES ASSUME blocks = <<>> PROVE FALSE
      OBVIOUS
    <3>1. p = 0 /\ Len(hashes) \in Nat /\ Len(hashes) # 0
      BY <1>5, <1>7 DEF Owed
    <3>2. hashes[1] \notin Range(Chain[c]) /\ hashes[1] \in Range(hashes)
      BY <1>5, <1>6, <3>1, RangeFacts
    <3>3. hashes[1] \in ctx[c].asked
      BY <1>5, <3>2 DEF Owed
    <3>4. Range(blocks) = {}
      BY DEF Range
    <3> QED BY <1>10, <1>14, <3>3, <3>4
  <2>2. Last(blocks) \in Block /\ Head(blocks) \in Block
    BY <1>7, <2>1, RangeFacts
  <2>3. QueueOK(q)
    <3>1. Height(Head(blocks)) \in Nat
      BY <2>2, PathFacts, Zenon
    <3> QED BY <1>2, <1>7, <2>1, <3>1, AddBlocksKeeps
  <2>4. ContextOK(c, y)
    <3>1. y \in Context /\ y.unanswered = x.unanswered /\ y.asked = x.asked
      BY <1>10, <2>2, ZenonT(30) DEF Context
    <3> HIDE DEF y
    <3> QED BY <1>11, <3>1, ContextChange
  <2> HIDE DEF y, q
  <2>5. Sound' /\ OneAdder'
    BY <1>12, <1>14, <2>3, <2>4, TryAddKeeps, Zenon
  <2> QED BY <1>1, <2>5 DEF IInv, ChainOK
<1> QED BY <1>1, <1>13, <1>14

\* The next span with blocks is one of the queue.
LEMMA NextSpanFacts ==
  ASSUME QueueOK(queue), FilledStarts(queue) # {}
  PROVE  /\ NextStart \in Nat /\ NextStart \in Starts(queue)
         /\ NextSpan \in Span /\ NextSpan.blocks # <<>>
<1> DEFINE S == FilledStarts(queue)
<1>1. S \in SUBSET Nat /\ S # {}
  BY DEF QueueOK, FilledStarts
<1>2. \E n \in S : \A m \in S : n <= m
  <2> HIDE DEF S
  <2> QED BY <1>1, SmallestExists
<1>3. NextStart \in S
  BY <1>2, Zenon DEF NextStart, First
<1> QED BY <1>1, <1>3, Zenon DEF NextSpan, FilledStarts, Filled, QueueOK

\* The loop of try_add_next_blocks finds no span to add and stops.
LEMMA StopAddingStep ==
  ASSUME IInv, NEW c \in Conns, StopAdding(c)
  PROVE  IInv'
<1> DEFINE t == [thread[c] EXCEPT !.at = "stopping"]
<1>1. thread' = [thread EXCEPT ![c] = t] /\ UNCHANGED <<chain, queue, ctx, open, m_sync_lock>>
  BY DEF StopAdding
<1>2. thread[c].at = "adding" /\ thread[c].at \in Busy /\ thread[c] \in Threads
  BY DEF StopAdding, Adding, Busy, IInv, Sound
<1>3. t \in Threads /\ t.at = "stopping" /\ t.at \in Busy
  BY <1>2 DEF Threads, Busy
<1> HIDE DEF t
<1> QED BY <1>1, <1>2, <1>3, ThreadStep, Zenon

\* The loop of try_add_next_blocks takes the next filled span.
LEMMA TakeSpanStep ==
  ASSUME IInv, NEW c \in Conns, TakeSpan(c)
  PROVE  IInv'
<1> DEFINE t == [at |-> "processing", start |-> NextStart, blocks |-> NextSpan.blocks,
                 owner |-> {NextSpan.conn}]
<1>1. /\ thread' = [thread EXCEPT ![c] = t] /\ UNCHANGED <<chain, queue, ctx, open, m_sync_lock>>
      /\ FilledStarts(queue) # {} /\ thread[c].at \in Busy
  BY Zenon DEF TakeSpan, Adding, Busy
<1>2. NextStart \in Nat /\ NextSpan \in Span /\ NextSpan.blocks # <<>>
  BY <1>1, NextSpanFacts, Zenon DEF IInv, Sound
<1>3. t \in Threads /\ t.at \in Busy /\ t.blocks # <<>>
  BY <1>2 DEF Span, Threads, Busy
<1> HIDE DEF t
<1> QED BY <1>1, <1>3, ThreadStep, Zenon

\* Only the queue changes.
LEMMA QueueStep ==
  ASSUME IInv, QueueOK(queue'), UNCHANGED <<chain, ctx, open, thread, m_sync_lock>>
  PROVE  IInv'
<1>1. QueueOK(queue)'
  BY DEF QueueOK, Starts, FilledStarts
<1>2. \A c \in Conns : ContextOK(c, ctx[c])' /\ (c \in open' => Fits(c, ctx[c], thread[c])')
  BY Zenon DEF IInv, Sound, ContextOK, Owed, Fits
<1> QED BY <1>1, <1>2, ZenonT(30) DEF IInv, Sound, OneAdder, ChainOK

\* The loop of try_add_next_blocks drops a span whose blocks are all known.
LEMMA OldSpanStep ==
  ASSUME IInv, NEW c \in Conns, OldSpan(c)
  PROVE  IInv'
<1>1. QueueOK(remove_spans(queue, NextSpan.conn, NextStart))
  BY EraseKeeps, Zenon DEF remove_spans, IInv, Sound
<1>2. QueueOK(queue')
  BY <1>1 DEF OldSpan
<1> QED BY <1>2, QueueStep DEF OldSpan

\* The loop of try_add_next_blocks meets a span whose parent is not known.
LEMMA ParentMissingStep ==
  ASSUME IInv, NEW c \in Conns, ParentMissing(c)
  PROVE  IInv'
<1> DEFINE e == [ctx[c] EXCEPT !.needed = <<>>, !.last = 0]
           r == remove_spans(queue, NextSpan.conn, NextStart)
<1>1. /\ thread[c].at \in Busy /\ m_sync_lock' = {} /\ UNCHANGED chain
      /\ \E q \in {queue, r}, x \in {ctx[c], e} : request_missing_objects(c, x, q, FALSE, TRUE)
  BY Zenon DEF ParentMissing, Adding, Busy
<1>2. ctx[c] \in Context /\ ContextOK(c, ctx[c]) /\ QueueOK(queue)
  BY DEF IInv, Sound
<1>3. QueueOK(r)
  BY <1>2, EraseKeeps DEF remove_spans
<1>4. e \in Context /\ e.unanswered = ctx[c].unanswered /\ e.asked = ctx[c].asked
  <2>1. ASSUME NEW z \in Context, NEW k \in Seq(Block), NEW l \in Int
        PROVE  LET v == [z EXCEPT !.needed = k, !.last = l]
               IN  v \in Context /\ v.unanswered = z.unanswered /\ v.asked = z.asked
    BY Zenon DEF Context
  <2>2. ctx[c] \in Context /\ <<>> \in Seq(Block) /\ 0 \in Int
    BY <1>2
  <2> QED BY <2>1, <2>2, ZenonT(30)
<1> HIDE DEF e, r
<1>5. ContextOK(c, e)
  BY <1>2, <1>4, ContextChange
<1>6. Handled(c)
  BY <1>1, <1>2, <1>3, <1>5, RequestKeeps, Zenon DEF IInv
<1>7. OneAdder'
  BY <1>1, <1>6, LockReleased DEF IInv
<1> QED BY <1>1, <1>6, <1>7 DEF IInv, ChainOK, Handled

\* The loop of try_add_next_blocks is over: the lock is released and the download
\* goes on.
LEMMA GoBackStep ==
  ASSUME IInv, NEW c \in Conns, GoBack(c)
  PROVE  IInv'
<1>1. /\ thread[c].at \in Busy /\ m_sync_lock' = {} /\ UNCHANGED chain
      /\ \E force : request_missing_objects(c, ctx[c], queue, force, TRUE)
  BY Zenon DEF GoBack, Busy
<1>2. ContextOK(c, ctx[c]) /\ QueueOK(queue)
  BY DEF IInv, Sound
<1>3. Handled(c)
  BY <1>1, <1>2, RequestKeeps, Zenon DEF IInv
<1>4. OneAdder'
  BY <1>1, <1>3, LockReleased, Zenon DEF IInv
<1> QED BY <1>1, <1>3, <1>4 DEF IInv, ChainOK, Handled

\* The blocks of a span that are handled form a chain from the genesis block.
LEMMA ProcessChain ==
  ASSUME IInv, NEW c \in Conns, Process(c)
  PROVE  ChainOK'
<1> DEFINE blocks == thread[c].blocks
           failing == {i \in DOMAIN blocks : Fails(blocks, i)}
           done == IF failing = {} THEN blocks ELSE SubSeq(blocks, 1, First(failing) - 1)
<1>1. chain' = IF done # <<>> /\ Height(Last(done)) >= Len(chain) THEN PathTo(Last(done)) ELSE chain
  BY Zenon DEF Process
<1>2. blocks \in Seq(Block)
  BY DEF IInv, Sound, Threads
<1> HIDE DEF blocks
<1>3. failing \in SUBSET Nat /\ failing \subseteq 1 .. Len(blocks)
  BY <1>2
<1> HIDE DEF failing
<1>4. done \in Seq(Block)
  <2>1. CASE failing = {}
    BY <1>2, <2>1
  <2>2. CASE failing # {}
    <3>1. \E n \in failing : \A m \in failing : n <= m
      BY <1>3, <2>2, SmallestExists
    <3>2. First(failing) \in failing
      BY <3>1, Zenon DEF First
    <3>3. First(failing) - 1 \in Nat /\ First(failing) - 1 <= Len(blocks) /\ 1 \in Nat \ {0}
      <4> DEFINE k == First(failing)
      <4>1. k \in 1 .. Len(blocks) /\ Len(blocks) \in Nat
        <5>1. k \in 1 .. Len(blocks)
          BY <1>3, <3>2, Zenon
        <5>2. Len(blocks) \in Nat
          BY <1>2
        <5> QED BY <5>1, <5>2, Zenon
      <4> HIDE DEF k
      <4>2. k - 1 \in Nat /\ k - 1 <= Len(blocks)
        BY <4>1
      <4> QED BY <4>2 DEF k
    <3>4. \A k \in Nat : k <= Len(blocks) => SubSeq(blocks, 1, k) \in Seq(Block)
      BY <1>2, SubSeqType
    <3>5. SubSeq(blocks, 1, First(failing) - 1) \in Seq(Block)
      BY <3>3, <3>4, Zenon
    <3> QED BY <2>2, <3>5
  <2> QED BY <2>1, <2>2
<1> HIDE DEF done
<1>5. done # <<>> => Last(done) \in Block
  BY <1>4, RangeFacts
<1>6. CASE done # <<>> /\ Height(Last(done)) >= Len(chain)
  <2>1. chain' = PathTo(Last(done)) /\ Last(done) \in Block
    BY <1>1, <1>5, <1>6
  <2> QED BY <2>1, PathFacts, Zenon DEF ChainOK
<1>7. CASE ~(done # <<>> /\ Height(Last(done)) >= Len(chain))
  <2>1. chain' = chain
    BY <1>1, <1>7
  <2> QED BY <2>1 DEF IInv, ChainOK
<1> QED BY <1>6, <1>7

\* The span is removed; if a block failed, the lock is released and the peer that
\* sent the blocks is dropped.
LEMMA ProcessStep ==
  ASSUME IInv, NEW c \in Conns, Process(c)
  PROVE  IInv'
<1> DEFINE blocks == thread[c].blocks
           owner == CHOOSE d \in thread[c].owner : TRUE
           q == remove_spans(queue, owner, thread[c].start)
           a == [Idle EXCEPT !.at = "adding"]
           g == [Idle EXCEPT !.blocks = blocks]
<1>1. /\ thread[c].at = "processing"
      /\ \/ /\ queue' = q /\ thread' = [thread EXCEPT ![c] = a]
            /\ UNCHANGED <<ctx, open, m_sync_lock>>
         \/ /\ thread' = [thread EXCEPT ![c] = g] /\ m_sync_lock' = {}
            /\ \/ owner \in open /\ drop_connection(owner, ctx[owner], q, TRUE)
               \/ queue' = q /\ UNCHANGED <<ctx, open>>
  BY Zenon DEF Process
<1>2. blocks \in Seq(Block) /\ blocks # <<>> /\ thread[c].at \in Busy
  BY <1>1 DEF IInv, Sound, Threads, Busy
<1>3. QueueOK(q)
  BY EraseKeeps, Zenon DEF remove_spans, IInv, Sound
<1>4. a \in Threads /\ a.at = "adding" /\ g \in Threads /\ g.at = "idle" /\ g.blocks = blocks
  BY <1>2, IdleFacts, Zenon
<1> HIDE DEF a, g, owner, q, blocks
<1>5. ChainOK'
  BY ProcessChain
<1>6. CASE /\ queue' = q /\ thread' = [thread EXCEPT ![c] = a]
           /\ UNCHANGED <<ctx, open, m_sync_lock>>
  <2>1. thread' \in [Conns -> Threads] /\ thread'[c] = a /\ \A d \in Conns \ {c} : thread'[d] = thread[d]
    BY <1>4, <1>6, Zenon DEF IInv, Sound
  <2>2. \A d \in Conns : thread'[d].at \in Busy <=> thread[d].at \in Busy
    BY <1>2, <1>4, <2>1, Zenon DEF Busy
  <2>3. OneAdder'
    BY <1>6, <2>2, Zenon DEF IInv, OneAdder
  <2>4. QueueOK(queue)'
    BY <1>3, <1>6, Zenon DEF QueueOK, Starts, FilledStarts
  <2>5. ASSUME NEW d \in Conns
        PROVE  /\ ContextOK(d, ctx[d])' /\ (d \in open' => Fits(d, ctx[d], thread[d])')
               /\ thread'[d].at = "processing" => thread'[d].blocks # <<>>
    <3>1. CASE d = c
      BY <1>4, <1>6, <2>1, <3>1, Zenon DEF IInv, Sound, ContextOK, Owed, Fits
    <3>2. CASE d # c
      BY <1>6, <2>1, <3>2, Zenon DEF IInv, Sound, ContextOK, Owed, Fits
    <3> QED BY <3>1, <3>2
  <2> QED BY <1>5, <1>6, <2>1, <2>3, <2>4, <2>5, Zenon DEF IInv, Sound
<1>7. CASE /\ thread' = [thread EXCEPT ![c] = g] /\ m_sync_lock' = {}
           /\ \/ owner \in open /\ drop_connection(owner, ctx[owner], q, TRUE)
              \/ queue' = q /\ UNCHANGED <<ctx, open>>
  <2>1. thread' \in [Conns -> Threads] /\ thread'[c] = g /\ \A d \in Conns \ {c} : thread'[d] = thread[d]
    BY <1>4, <1>7, Zenon DEF IInv, Sound
  <2>2. \A d \in Conns : thread'[d].at \notin Busy
    BY <1>2, <1>4, <2>1 DEF IInv, OneAdder, Busy
  <2>3. OneAdder'
    BY <1>7, <2>2 DEF OneAdder
  <2>4. /\ QueueOK(queue)' /\ open' \subseteq open /\ ctx' \in [Conns -> Context]
        /\ \A d \in Conns : ContextOK(d, ctx[d])'
        /\ \A d \in open' : ctx'[d] = ctx[d]
    <3>1. CASE owner \in open /\ drop_connection(owner, ctx[owner], q, TRUE)
      <4>1. owner \in Conns /\ ContextOK(owner, ctx[owner]) /\ open \subseteq Conns
        BY <3>1 DEF IInv, Sound
      <4>2. /\ QueueOK(queue)' /\ open' = open \ {owner} /\ ctx' \in [Conns -> Context]
            /\ \A d \in Conns : ContextOK(d, ctx[d])'
            /\ \A d \in Conns \ {owner} : ctx'[d] = ctx[d]
        BY <1>3, <3>1, <4>1, DropConnectionKeeps, ZenonT(30) DEF IInv
      <4> QED BY <4>1, <4>2, Zenon
    <3>2. CASE queue' = q /\ UNCHANGED <<ctx, open>>
      <4>1. QueueOK(queue)'
        BY <1>3, <3>2 DEF QueueOK, Starts, FilledStarts
      <4>2. \A d \in Conns : ContextOK(d, ctx[d])'
        BY <3>2, Zenon DEF IInv, Sound, ContextOK, Owed
      <4> QED BY <3>2, <4>1, <4>2, Zenon DEF IInv, Sound
    <3> QED BY <1>7, <3>1, <3>2, Zenon
  <2>5. \A d \in Conns : thread'[d].at = "processing" => thread'[d].blocks # <<>>
    BY <2>2 DEF Busy
  <2>6. ASSUME NEW d \in open' PROVE Fits(d, ctx[d], thread[d])'
    <3>0. d \in open /\ d \in Conns /\ ctx'[d] = ctx[d]
      BY <2>4, Zenon DEF IInv, Sound
    <3>1. CASE d = c
      BY <1>2, <1>4, <2>1, <3>0, <3>1 DEF Fits
    <3>2. CASE d # c
      <4>1. thread'[d] = thread[d] /\ Fits(d, ctx[d], thread[d])
        BY <2>1, <3>0, <3>2 DEF IInv, Sound
      <4> QED BY <3>0, <4>1, ZenonT(30) DEF Fits, Owed
    <3> QED BY <3>1, <3>2, Zenon
  <2>7. Sound'
    BY <2>1, <2>4, <2>5, <2>6, Zenon DEF IInv, Sound
  <2> QED BY <1>5, <2>3, <2>7 DEF IInv
<1> QED BY <1>1, <1>6, <1>7, Zenon

\* The next span is asked for, or the handler ends with an exception.
LEMMA ResetNextSpanStep ==
  ASSUME IInv, NEW c \in Conns, ResetNextSpan(c)
  PROVE  IInv'
<1> DEFINE x == [ctx[c] EXCEPT !.waiting = TRUE]
           r == GetBlocks(thread[c].blocks)
           y == IF c \in open THEN Send(x, r) ELSE ctx[c]
<1>1. /\ thread[c].at = "requesting" /\ UNCHANGED <<chain, m_sync_lock>>
      /\ thread' = [thread EXCEPT ![c] = Idle]
      /\ \/ ctx' = [ctx EXCEPT ![c] = IF c \in open THEN Send(x, r) ELSE ctx[c]]
            /\ UNCHANGED <<queue, open>>
         \/ drop_connection(c, ctx[c], queue, FALSE)
  BY Zenon DEF ResetNextSpan
<1>2. ctx[c] \in Context /\ ContextOK(c, ctx[c]) /\ QueueOK(queue) /\ thread[c].blocks \in Seq(Block)
  BY DEF IInv, Sound, Threads
<1>3. Handled(c)
  <2>1. CASE drop_connection(c, ctx[c], queue, FALSE)
    BY <1>1, <1>2, <2>1, DropKeeps, Zenon DEF IInv, Drop
  <2>2. CASE /\ ctx' = [ctx EXCEPT ![c] = IF c \in open THEN Send(x, r) ELSE ctx[c]]
             /\ UNCHANGED <<queue, open>>
    <3>1. x \in Context /\ x.unanswered = ctx[c].unanswered /\ x.asked = ctx[c].asked
      BY <1>2, Zenon DEF Context
    <3>2. r \in Request /\ r.hashes = thread[c].blocks
      BY <1>2 DEF GetBlocks, Request
    <3> HIDE DEF x, r
    <3>3. ContextOK(c, x)
      BY <1>2, <3>1, ContextChange
    <3>4. ASSUME c \in open
          PROVE  ContextOK(c, y) /\ Fits(c, y, Idle)
      <4>1. Owed(c, x, r.hashes)
        BY <1>1, <3>1, <3>2, <3>4, ZenonT(30) DEF IInv, Sound, Fits, Owed
      <4>2. ContextOK(c, Send(x, r)) /\ Send(x, r).unanswered # <<>>
        BY <3>2, <3>3, <4>1, SendKeeps
      <4>3. y = Send(x, r)
        BY <3>4
      <4> QED BY <4>2, <4>3, IdleType, Zenon DEF Fits
    <3>5. ContextOK(c, y)
      BY <1>2, <3>4, Zenon
    <3>6. Becomes(c, y, queue, Idle)
      BY <1>1, <2>2 DEF Becomes
    <3> HIDE DEF y
    <3>7. Sound' /\ thread' = [thread EXCEPT ![c] = Idle]
      BY <1>2, <3>4, <3>5, <3>6, IdleType, BecomesKeeps, Zenon DEF IInv
    <3> QED BY <3>7, HandledIdle, Zenon
  <2> QED BY <1>1, <2>1, <2>2, Zenon
<1>4. thread[c].at \notin Busy
  BY <1>1 DEF Busy
<1>5. OneAdder'
  BY <1>1, <1>3, <1>4, LockUntouched DEF IInv
<1> QED BY <1>1, <1>3, <1>5 DEF IInv, ChainOK, Handled

\* kick_idle_peers.
LEMMA KickIdleStep ==
  ASSUME IInv, NEW c \in Conns, KickIdle(c)
  PROVE  IInv'
<1> DEFINE y == [ctx[c] EXCEPT !.waiting = FALSE, !.state = "standby", !.callbacks = ctx[c].callbacks + 1]
<1>1. ctx' = [ctx EXCEPT ![c] = y] /\ UNCHANGED <<chain, queue, open, thread, m_sync_lock>>
  BY Zenon DEF KickIdle
<1>2. ctx[c] \in Context /\ ContextOK(c, ctx[c])
  BY DEF IInv, Sound
<1>3. y \in Context /\ y.unanswered = ctx[c].unanswered /\ y.asked = ctx[c].asked /\ y.state = "standby"
  <2>1. ASSUME NEW z \in Context, NEW k \in Nat
        PROVE  LET v == [z EXCEPT !.waiting = FALSE, !.state = "standby", !.callbacks = k]
               IN  v \in Context /\ v.unanswered = z.unanswered /\ v.asked = z.asked /\ v.state = "standby"
    BY Zenon DEF Context
  <2>2. ctx[c].callbacks + 1 \in Nat
    BY <1>2 DEF Context
  <2> QED BY <1>2, <2>1, <2>2, Zenon
<1> HIDE DEF y
<1>4. ContextOK(c, y)
  BY <1>2, <1>3, ContextChange
<1>5. c \in open => Fits(c, y, thread[c])
  BY <1>3, Zenon DEF Fits, Owed, IInv, Sound
<1> QED BY <1>1, <1>4, <1>5, ContextStep, Zenon

\* check_standby_peers.
LEMMA CheckStandbyStep ==
  ASSUME IInv, NEW c \in Conns, CheckStandby(c)
  PROVE  IInv'
<1> DEFINE y == [ctx[c] EXCEPT !.callbacks = ctx[c].callbacks + 1]
<1>1. ctx' = [ctx EXCEPT ![c] = y] /\ UNCHANGED <<chain, queue, open, thread, m_sync_lock>>
  BY Zenon DEF CheckStandby
<1>2. ctx[c] \in Context /\ ContextOK(c, ctx[c])
  BY DEF IInv, Sound
<1>3. /\ y \in Context /\ y.unanswered = ctx[c].unanswered /\ y.asked = ctx[c].asked
      /\ y.callbacks > 0
  <2>1. ASSUME NEW z \in Context, NEW k \in Nat
        PROVE  LET v == [z EXCEPT !.callbacks = k]
               IN  v \in Context /\ v.unanswered = z.unanswered /\ v.asked = z.asked /\ v.callbacks = k
    BY Zenon DEF Context
  <2>2. ctx[c].callbacks + 1 \in Nat /\ ctx[c].callbacks + 1 > 0
    BY <1>2 DEF Context
  <2>3. /\ y \in Context /\ y.unanswered = ctx[c].unanswered /\ y.asked = ctx[c].asked
        /\ y.callbacks = ctx[c].callbacks + 1
    BY <1>2, <2>1, <2>2, Zenon
  <2> HIDE DEF y
  <2> QED BY <2>2, <2>3
<1> HIDE DEF y
<1>4. ContextOK(c, y)
  BY <1>2, <1>3, ContextChange
<1>5. c \in open => Fits(c, y, thread[c])
  BY <1>3, Zenon DEF Fits, Owed, IInv, Sound
<1> QED BY <1>1, <1>4, <1>5, ContextStep, Zenon

\* process_payload_sync_data, from the periodic timed sync.
LEMMA TimedSyncStep ==
  ASSUME IInv, NEW c \in Conns, TimedSync(c)
  PROVE  IInv'
<1> DEFINE wanted == Last(Chain[c]) \notin core
           s == IF wanted THEN "synchronizing" ELSE "normal"
           k == ctx[c].callbacks + IF wanted THEN 1 ELSE 0
           remote == Len(Chain[c])
           y == [ctx[c] EXCEPT !.remote = remote, !.state = s, !.callbacks = k]
<1>1. ctx' = [ctx EXCEPT ![c] = y] /\ UNCHANGED <<chain, queue, open, thread, m_sync_lock>>
  BY Zenon DEF TimedSync
<1>2. ctx[c] \in Context /\ ContextOK(c, ctx[c])
  BY DEF IInv, Sound
<1>3. /\ s \in {"synchronizing", "standby", "normal"} /\ k \in Nat /\ remote \in Nat
      /\ s = "synchronizing" => k > 0
  <2>1. ctx[c].callbacks \in Nat
    BY <1>2, Zenon DEF Context
  <2>2. Chain[c] \in Seq(Block)
    BY SyncAssumption
  <2>3. remote \in Nat
    BY <2>2
  <2> HIDE DEF wanted
  <2>4. CASE wanted
    <3>1. s = "synchronizing" /\ k = ctx[c].callbacks + 1
      BY <2>4
    <3> QED BY <2>1, <2>3, <3>1
  <2>5. CASE ~wanted
    <3>1. s = "normal" /\ k = ctx[c].callbacks + 0
      BY <2>5
    <3> QED BY <2>1, <2>3, <3>1
  <2> QED BY <2>4, <2>5
<1> HIDE DEF s, k, remote
<1>4. /\ y \in Context /\ y.unanswered = ctx[c].unanswered /\ y.asked = ctx[c].asked
      /\ y.state = s /\ y.callbacks = k
  BY <1>2, <1>3, Zenon DEF Context
<1> HIDE DEF y
<1>5. ContextOK(c, y)
  BY <1>2, <1>4, ContextChange
<1>6. c \in open => Fits(c, y, thread[c])
  BY <1>3, <1>4, Zenon DEF Fits, Owed, IInv, Sound
<1> QED BY <1>1, <1>5, <1>6, ContextStep, Zenon

\* on_connection_close.
LEMMA CloseStep ==
  ASSUME IInv, NEW c \in Conns, Close(c)
  PROVE  IInv'
<1>1. drop_connection(c, ctx[c], queue, FALSE) /\ UNCHANGED <<chain, thread, m_sync_lock>>
  BY ZenonT(30) DEF Close
<1>2. ContextOK(c, ctx[c]) /\ QueueOK(queue) /\ Sound
  BY DEF IInv, Sound
<1>3. /\ QueueOK(queue)' /\ open' = open \ {c} /\ ctx' \in [Conns -> Context]
      /\ \A d \in Conns : ContextOK(d, ctx[d])'
      /\ \A d \in Conns \ {c} : ctx'[d] = ctx[d]
  BY <1>1, <1>2, DropConnectionKeeps, Zenon
<1>4. \A d \in open' : Fits(d, ctx[d], thread[d])'
  BY <1>1, <1>2, <1>3, Zenon DEF Sound, Fits, Owed
<1>5. Sound'
  BY <1>1, <1>2, <1>3, <1>4, Zenon DEF Sound
<1> QED BY <1>1, <1>5, Zenon DEF IInv, OneAdder, ChainOK

-----------------------------------------------------------------------------
(* The theorems *)

\* The strengthened invariant holds initially.
LEMMA InitSound ==
  ASSUME Init
  PROVE  IInv
<1>1. \A c \in Conns : Chain[c] \in Seq(Block) /\ Chain[c] # <<>> /\ Chain[c][1] = genesis
  BY SyncAssumption
<1>2. genesis \in Block
  <2> DEFINE c == CHOOSE c \in Conns : TRUE
  <2>1. Conns # {}
    BY SyncAssumption
  <2>2. c \in Conns
    BY <2>1, Zenon
  <2> HIDE DEF c
  <2>3. Head(Chain[c]) \in Block
    BY <1>1, <2>2, RangeFacts
  <2> QED BY <2>3, Zenon DEF genesis, c
<1>3. ChainOK
  BY <1>2 DEF Init, ChainOK
<1>4. QueueOK(queue)
  <2>1. queue.requested = {} /\ queue.have = {} /\ Starts(queue) = {}
    BY DEF Init, EmptyQueue, Starts
  <2> QED BY <2>1 DEF QueueOK
<1>5. ASSUME NEW c \in Conns
      PROVE  /\ ctx[c] \in Context /\ ctx[c].unanswered = <<>> /\ ctx[c].callbacks > 0
             /\ thread[c] = Idle
  <2>1. ASSUME NEW s \in Seq(Block), NEW u \in Seq(Request), NEW a \in SUBSET Block, NEW l \in Int,
               NEW r \in Nat, NEW k \in Nat
        PROVE  [state |-> "synchronizing", needed |-> s, asked |-> a, last |-> l, remote |-> r,
                known |-> a, waiting |-> FALSE, callbacks |-> k, unanswered |-> u] \in Context
    BY DEF Context
  <2>2. /\ <<>> \in Seq(Block) /\ <<>> \in Seq(Request) /\ {} \in SUBSET Block /\ 0 \in Int
        /\ Len(Chain[c]) \in Nat /\ 1 \in Nat
    BY <1>1
  <2>3. ctx[c] = FirstContext(c) /\ thread[c] = Idle
    BY DEF Init
  <2>4. FirstContext(c) \in Context
    BY <2>1, <2>2, Zenon DEF FirstContext
  <2>5. FirstContext(c).unanswered = <<>> /\ FirstContext(c).callbacks > 0
    BY DEF FirstContext
  <2> QED BY <2>3, <2>4, <2>5, Zenon
<1>6. ctx \in [Conns -> Context] /\ thread \in [Conns -> Threads] /\ open \subseteq Conns
  <2>1. /\ ctx = [c \in Conns |-> FirstContext(c)] /\ thread = [c \in Conns |-> Idle]
        /\ open = Conns
    BY Zenon DEF Init
  <2> QED BY <1>5, <2>1, IdleType, Zenon
<1>7. \A c \in Conns : ContextOK(c, ctx[c]) /\ Fits(c, ctx[c], thread[c]) /\ thread[c].at = "idle"
  BY <1>5, IdleType DEF ContextOK, Fits
<1>8. Sound
  BY <1>4, <1>6, <1>7 DEF Sound
<1>9. OneAdder
  BY <1>7 DEF OneAdder, Busy, Init
<1> QED BY <1>3, <1>8, <1>9, Zenon DEF IInv

\* The queue, the contexts and the threads stay sound.
LEMMA NextSound ==
  ASSUME IInv, [Next]_vars
  PROVE  IInv'
<1>1. ASSUME NEW c \in Conns, Work(c)
      PROVE  IInv'
  BY <1>1, StopAddingStep, OldSpanStep, TakeSpanStep, ProcessStep, ResetNextSpanStep,
     ParentMissingStep, GoBackStep, Zenon DEF Work
<1>2. ASSUME NEW c \in Conns, Answer(c)
      PROVE  IInv'
  BY <1>2, ChainEntryStep, BlocksStep, Zenon DEF Answer
<1>3. CASE UNCHANGED vars
  <2>1. QueueOK(queue)'
    BY <1>3, Zenon DEF vars, IInv, Sound, QueueOK, Starts, FilledStarts
  <2>2. \A c \in Conns : ContextOK(c, ctx[c])' /\ (c \in open' => Fits(c, ctx[c], thread[c])')
    BY <1>3, Zenon DEF vars, IInv, Sound, ContextOK, Owed, Fits
  <2> QED BY <1>3, <2>1, <2>2, Zenon DEF vars, IInv, Sound, OneAdder, ChainOK
<1> QED
  BY <1>1, <1>2, <1>3, CallbackStep, KickIdleStep, CheckStandbyStep, TimedSyncStep, CloseStep, Zenon
     DEF Next

\* The inductive invariant, for all chains, connections and thresholds.
THEOREM SyncInvariance == Spec => []IInv
<1>1. Init => IInv
  BY InitSound
<1>2. IInv /\ [Next]_vars => IInv'
  BY NextSound
<1> QED BY <1>1, <1>2, PTL DEF Spec

\* block_queue never counts a hash as requested, or as there, that no span lists.
THEOREM HashesListed == Spec => []HashesHaveSpans
<1>1. IInv => HashesHaveSpans
  BY DEF IInv, Sound, QueueOK, HashesHaveSpans
<1> QED BY <1>1, SyncInvariance, PTL

\* A connection that synchronizes has a request or a callback pending, unless its
\* handler gave up on a failing block: request_missing_objects never returns
\* without either.
THEOREM SyncGoesOn == Spec => []NeverWedged
<1>1. IInv => NeverWedged
  BY Zenon DEF IInv, Sound, Fits, NeverWedged, GaveUp
<1> QED BY <1>1, SyncInvariance, PTL

\* One thread at most is in the loop of try_add_next_blocks, the one that holds
\* m_sync_lock, and every way out of the loop releases it.
THEOREM AddingIsExclusive == Spec => []OneAdder
<1>1. IInv => OneAdder
  BY DEF IInv
<1> QED BY <1>1, SyncInvariance, PTL
=============================================================================
