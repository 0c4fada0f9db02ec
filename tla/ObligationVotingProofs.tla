----------------------- MODULE ObligationVotingProofs -----------------------
(***************************************************************************)
(* For every buffer, lifetime, shuffle and set of votes: a vote of this    *)
(* node keeps standing for the node it was made about, and the next height *)
(* to look at stays behind the chain (both on a chain that is never cut    *)
(* below the buffer, where the end of the loop would wrap); and enough     *)
(* votes put the change they are for into the transaction pool.            *)
(***************************************************************************)
EXTENDS ObligationChainProofs, WellFoundedInduction

\* The depth below the top from which a worker of a quorum votes.
B == REORG_SAFETY_BUFFER_BLOCKS

----------------------------------------------------------------------------
(* VotesKeepTheirNode and ObligationsBehindChain. *)

\* What is known of a vote of this node: its height was buried under the buffer,
\* and the block it looks its node up in is still there unless a cut was deep.
Rests(s) ==
  /\ s.vote.height \in Nat
  /\ s.vote.height + B + 2 <= peak
  /\ deepest <= B + 1 => Worker(chain, s.vote) = s.node

\* The inductive invariant: the chain is above the lowest cut, the depth of the
\* deepest cut bounds how far it is below its peak, and every own vote rests.
IInv ==
  /\ IsChain(chain)
  /\ Len(chain) >= LowestHeight
  /\ peak \in Nat /\ deepest \in Nat /\ m_obligations_height \in Nat
  /\ Len(chain) <= peak /\ peak - deepest <= Len(chain)
  /\ m_obligations_height <= Len(chain)
  /\ \A s \in signed : Rests(s)

\* A height h buried by b blocks more than it needs below the peak p is in a chain
\* of n blocks that is at most b + 1 blocks below the peak.
LEMMA BuriedHeights ==
  ASSUME NEW h \in Nat, NEW b \in Nat, NEW p \in Nat, NEW d \in Nat, NEW n \in Nat,
         h + b + 2 <= p, d <= b + 1, p - d <= n
  PROVE  h < n
OBVIOUS

\* A peak that grows leaves a height as deep below it.
LEMMA StillBuried ==
  ASSUME NEW h \in Nat, NEW b \in Nat, NEW p \in Nat, NEW q \in Nat, h + b + 2 <= p, p <= q
  PROVE  h + b + 2 <= q
OBVIOUS

\* A block appended leaves the workers of the earlier heights alone.
LEMMA AppendKeepsWorkers ==
  ASSUME NEW c, IsChain(c), NEW b, NEW x, x.height \in Nat, x.height < Len(c)
  PROVE  Worker(Append(c, b), x) = Worker(c, x)
<1>1. PICK S : c \in Seq(S)
  BY DEF IsChain
<1>2. x.height + 1 \in DOMAIN c
  BY <1>1
<1>3. x.height + 1 \in DOMAIN Append(c, b) /\ Append(c, b)[x.height + 1] = c[x.height + 1]
  <2>1. c \in Seq(S \cup {b}) /\ b \in S \cup {b}
    BY <1>1
  <2> QED BY <1>2, <2>1
<1> QED BY <1>2, <1>3 DEF Worker, Workers

\* A cut leaves the workers of the heights below it alone.
LEMMA CutKeepsWorkers ==
  ASSUME NEW c, IsChain(c), NEW n \in 1 .. Len(c), NEW x, x.height \in Nat, x.height < n
  PROVE  Worker(SubSeq(c, 1, n), x) = Worker(c, x)
<1>1. PICK S : c \in Seq(S)
  BY DEF IsChain
<1>2. x.height + 1 \in DOMAIN c
  BY <1>1
<1>3. /\ x.height + 1 \in DOMAIN SubSeq(c, 1, n)
      /\ SubSeq(c, 1, n)[x.height + 1] = c[x.height + 1]
  BY <1>1, <1>2
<1> QED BY <1>2, <1>3, Zenon DEF Worker, Workers

\* process_quorums: where the loop ends and leaves the next height, when the
\* chain is longer than the buffer.
LEMMA LoopBounds ==
  ASSUME NEW c, NEW target \in Nat, VOTE_LIFETIME \in Nat, B \in Nat,
         Len(c) \in Nat, Len(c) - 1 >= B, m_obligations_height \in Nat,
         m_obligations_height <= Len(c)
  PROVE  /\ ObligationsAfter(c, target) \in Nat /\ ObligationsAfter(c, target) <= Len(c)
         /\ \A h \in Visited(c, target) : h \in Nat /\ h + B + 2 <= Len(c)
<1>1. UpTo(c) = Len(c) - 1 - B
  BY DEF UpTo, Wrap, B
<1>2. CASE ~Processes(c, target)
  BY <1>2 DEF ObligationsAfter, Visited
<1>3. CASE Processes(c, target)
  <2> DEFINE latest == latest_height(c, target)
  <2>1. latest \in Nat
    BY MaxOfTwo DEF latest_height
  <2>2. latest - VOTE_LIFETIME \in Nat /\ latest - VOTE_LIFETIME <= Len(c) - 1
    BY <1>3, <2>1 DEF Processes
  <2>3. From(c, target) \in Nat /\ From(c, target) <= Len(c)
    <3> HIDE DEF latest
    <3>1. From(c, target) = Max({m_obligations_height, latest - VOTE_LIFETIME})
      BY DEF From, latest
    <3> QED BY <2>2, <3>1, MaxOfTwo
  <2>4. ObligationsAfter(c, target) = Max({From(c, target), UpTo(c)})
    BY <1>3 DEF ObligationsAfter
  <2>5. UpTo(c) \in Nat /\ UpTo(c) <= Len(c)
    BY <1>1
  <2>6. ObligationsAfter(c, target) \in Nat /\ ObligationsAfter(c, target) <= Len(c)
    BY <2>3, <2>4, <2>5, MaxOfTwo
  <2>7. Visited(c, target) = From(c, target) .. UpTo(c) - 1
    BY <1>3 DEF Visited
  <2>8. ASSUME NEW h \in Visited(c, target)
        PROVE  h \in Nat /\ h + B + 2 <= Len(c)
    BY <1>1, <2>3, <2>5, <2>7, <2>8
  <2> QED BY <2>6, <2>8
<1> QED BY <1>2, <1>3

\* Init => IInv: the first chain is its own peak and nothing is signed.
LEMMA InitIInv == Init => IInv
<1> SUFFICES ASSUME Init PROVE IInv
  OBVIOUS
<1>1. FirstChain \in Seq(Range(FirstChain)) /\ Len(FirstChain) >= LowestHeight
  BY ObligationAssumption, ChainAssumption
<1>2. IsChain(chain) /\ Len(chain) \in Nat
  BY <1>1 DEF Init, IsChain
<1> QED BY <1>1, <1>2 DEF IInv, Init

\* A block added: old votes keep their block, new ones are under the buffer.
LEMMA BlockAddedIInv ==
  ASSUME LowestHeight > B, IInv, NEW tx, NEW target \in Targets, BlockAdded(tx, target)
  PROVE  IInv'
<1> DEFINE x == IF tx = NoChange THEN NoChange ELSE Change(tx)
<1> DEFINE c == Append(chain, NextBlock(chain, x, cuts))
<1>0. /\ target \in Nat /\ B \in Nat /\ LowestHeight \in Nat /\ VOTE_LIFETIME \in Nat
  BY ObligationAssumption, StateAssumption DEF B
<1>1. PICK M \in SUBSET {h \in Visited(c, target) \cap QuorumHeights : h < Len(c)} :
        /\ chain' = c
        /\ m_obligations_height' = ObligationsAfter(c, target)
        /\ signed' = signed \cup {[vote |-> v, node |-> Worker(c, v)] : v \in OwnVotes(c, M)}
        /\ peak' = Max({peak, Len(c)})
        /\ deepest' = deepest
  <2>1. PICK d \in {c} :
          /\ chain' = d
          /\ m_obligations_height' = ObligationsAfter(d, target)
          /\ \E M \in SUBSET {h \in Visited(d, target) \cap QuorumHeights : h < Len(d)} :
               \E V \in {OwnVotes(d, M)} :
                 signed' = signed \cup {[vote |-> v, node |-> Worker(d, v)] : v \in V}
          /\ peak' = Max({peak, Len(d)})
    BY Zenon DEF BlockAdded
  <2>2. deepest' = deepest
    BY Zenon DEF BlockAdded
  <2>3. PICK M \in SUBSET {h \in Visited(d, target) \cap QuorumHeights : h < Len(d)} :
          signed' = signed \cup {[vote |-> v, node |-> Worker(d, v)] : v \in OwnVotes(d, M)}
    BY <2>1, Zenon
  <2>4. d = c
    OBVIOUS
  <2> HIDE DEF c
  <2> QED BY <2>1, <2>2, <2>3, <2>4
<1>2. IsChain(c) /\ Len(c) = Len(chain) + 1 /\ Len(chain) \in Nat
  BY AppendFacts, ChainFacts DEF IInv, Agree
<1> HIDE DEF x
<1>3. /\ ObligationsAfter(c, target) \in Nat /\ ObligationsAfter(c, target) <= Len(c)
      /\ \A h \in Visited(c, target) : h \in Nat /\ h + B + 2 <= Len(c)
  <2> HIDE DEF c
  <2>1. Len(c) \in Nat /\ Len(c) - 1 >= B /\ m_obligations_height <= Len(c)
    BY <1>0, <1>2 DEF IInv
  <2> QED BY <1>0, <2>1, LoopBounds DEF IInv
<1>4. peak' \in Nat /\ peak' >= peak /\ peak' >= Len(c) /\ peak' \in {peak, Len(c)}
  BY <1>1, <1>2, MaxOfTwo DEF IInv
<1>5. peak' - deepest' <= Len(chain') /\ Len(chain') <= peak' /\ Len(chain') >= LowestHeight
  <2> HIDE DEF c
  <2> QED BY <1>0, <1>1, <1>2, <1>4 DEF IInv
<1>6. ASSUME NEW s \in signed'
      PROVE  Rests(s)'
  <2>1. CASE s \in signed
    <3>1. Rests(s)
      BY <2>1 DEF IInv
    <3>2. s.vote.height \in Nat /\ s.vote.height + B + 2 <= peak'
      <4>1. peak \in Nat
        BY DEF IInv
      <4>2. s.vote.height \in Nat /\ s.vote.height + B + 2 <= peak
        BY <3>1 DEF Rests
      <4>3. peak' \in Nat /\ peak <= peak'
        BY <1>4
      <4> QED BY <1>0, <4>1, <4>2, <4>3, StillBuried, Zenon
    <3>3. ASSUME deepest' <= B + 1
          PROVE  Worker(chain', s.vote) = s.node
      <4>1. s.vote.height < Len(chain)
        <5>1. /\ s.vote.height \in Nat /\ s.vote.height + B + 2 <= peak
              /\ peak \in Nat /\ deepest \in Nat /\ peak - deepest <= Len(chain)
          BY <3>1, Zenon DEF Rests, IInv
        <5>2. deepest <= B + 1
          BY <1>1, <3>3, Zenon
        <5> QED BY <1>0, <1>2, <5>1, <5>2, BuriedHeights, Zenon
      <4>2. Worker(chain, s.vote) = s.node
        BY <1>1, <3>1, <3>3 DEF Rests
      <4> QED BY <1>1, <3>1, <4>1, <4>2, AppendKeepsWorkers DEF Rests, IInv
    <3> QED BY <3>2, <3>3 DEF Rests, B
  <2>2. CASE s \notin signed
    <3> HIDE DEF c
    <3>1. PICK v \in OwnVotes(c, M) : s = [vote |-> v, node |-> Worker(c, v)]
      BY <1>1, <2>2
    <3>2. v.height \in M
      <4>1. PICK h \in M : v \in {[height |-> h, index |-> i, state |-> "recommission", voter |-> Me] :
                                     i \in DOMAIN Workers(c, h)}
        BY <3>1 DEF OwnVotes
      <4> QED BY <4>1
    <3>3. v.height \in Nat /\ v.height + B + 2 <= Len(c)
      BY <1>1, <1>3, <3>2, Zenon
    <3>4. s.vote = v /\ s.node = Worker(c, v)
      BY <3>1
    <3>5. s.vote.height + B + 2 <= peak'
      BY <1>0, <1>2, <1>4, <3>3, <3>4
    <3> QED BY <1>1, <3>3, <3>4, <3>5 DEF Rests, B
  <2> QED BY <2>1, <2>2
<1> HIDE DEF c
<1> QED BY <1>1, <1>2, <1>3, <1>4, <1>5, <1>6, Zenon DEF IInv

\* A cut: shallow, it leaves the blocks of the votes; deep, nothing is claimed.
LEMMA DetachIInv ==
  ASSUME IInv, NEW height, BlockchainDetached(height)
  PROVE  IInv'
<1>0. B \in Nat /\ LowestHeight \in Nat \ {0}
  BY ObligationAssumption DEF B
<1>1. PICK S : chain \in Seq(S)
  BY DEF IInv, IsChain
<1>2. /\ height \in LowestHeight .. Len(chain) - 1
      /\ chain' = SubSeq(chain, 1, height)
      /\ m_obligations_height' = ObligationsAfterDetach(height)
      /\ deepest' = Max({deepest, peak - height})
      /\ signed' = signed /\ peak' = peak
  BY DEF BlockchainDetached
<1>3. height \in 1 .. Len(chain) /\ height \in Nat /\ Len(chain) \in Nat
  BY <1>0, <1>1, <1>2
<1>4. chain' \in Seq(S) /\ Len(chain') = height
  BY <1>1, <1>2, <1>3
<1>5. deepest' \in Nat /\ deepest' >= deepest /\ deepest' >= peak - height
  <2>1. peak - height \in Nat
    BY <1>2, <1>3 DEF IInv
  <2> QED BY <1>2, <2>1, MaxOfTwo DEF IInv
<1>6. m_obligations_height' \in Nat /\ m_obligations_height' <= Len(chain')
  BY <1>2, <1>3, <1>4 DEF ObligationsAfterDetach, IInv
<1>7. ASSUME NEW s \in signed'
      PROVE  Rests(s)'
  <2>1. Rests(s)
    BY <1>2 DEF IInv
  <2>2. ASSUME deepest' <= B + 1
        PROVE  Worker(chain', s.vote) = s.node
    <3>1. s.vote.height < height
      <4>1. peak \in Nat
        BY DEF IInv
      <4>2. s.vote.height \in Nat /\ s.vote.height + B + 2 <= peak
        BY <2>1 DEF Rests
      <4> QED BY <1>0, <1>3, <1>5, <2>2, <4>1, <4>2
    <3>2. Worker(chain, s.vote) = s.node
      BY <1>0, <1>5, <2>1, <2>2 DEF Rests, IInv
    <3> QED BY <1>2, <1>3, <2>1, <3>1, <3>2, CutKeepsWorkers DEF Rests, IInv
  <2> QED BY <1>2, <2>1, <2>2 DEF Rests, B
<1>8. IsChain(chain')
  BY <1>4 DEF IsChain
<1>9. Len(chain') >= LowestHeight /\ Len(chain') <= peak' /\ peak' - deepest' <= Len(chain')
  BY <1>0, <1>2, <1>3, <1>4, <1>5 DEF IInv
<1> QED BY <1>2, <1>5, <1>6, <1>7, <1>8, <1>9, Zenon DEF IInv, IsChain

\* IInv /\ [Next]_vars => IInv', one step per action.
LEMMA NextIInv ==
  ASSUME LowestHeight > B, IInv, [Next]_vars
  PROVE  IInv'
<1>1. CASE UNCHANGED vars
  BY <1>1, ZenonT(30) DEF vars, IInv, Rests, IsChain, B, Worker, Workers
<1>2. ASSUME NEW v, VerifyVote(v)
      PROVE  IInv'
  BY <1>2, ZenonT(30) DEF VerifyVote, IInv, Rests, IsChain, B, Worker, Workers
<1>3. ASSUME NEW t, AddPoolVoteIfUnique(t)
      PROVE  IInv'
  BY <1>3, Zenon DEF AddPoolVoteIfUnique, IInv, Rests, IsChain, B, Worker, Workers
<1>4. ASSUME NEW t, HandleObligationsVote(t)
      PROVE  IInv'
  BY <1>4, Zenon DEF HandleObligationsVote, IInv, Rests, IsChain, B, Worker, Workers
<1>5. ASSUME NEW tx, NEW target \in Targets, BlockAdded(tx, target)
      PROVE  IInv'
  BY <1>5, BlockAddedIInv
<1>6. ASSUME NEW height, BlockchainDetached(height)
      PROVE  IInv'
  BY <1>6, DetachIInv
<1>7. CASE Restart
  <2>1. Len(chain) \in Nat
    BY DEF IInv, IsChain
  <2>2. /\ chain' = chain /\ peak' = peak /\ deepest' = deepest /\ signed' = signed
        /\ m_obligations_height' = 0
    BY <1>7 DEF Restart
  <2>3. \A s \in signed : Rests(s)'
    BY <2>2, Zenon DEF IInv, Rests, B, Worker, Workers
  <2>4. 0 <= Len(chain)
    BY <2>1
  <2> QED BY <2>2, <2>3, <2>4 DEF IInv, IsChain
<1> QED BY <1>1, <1>2, <1>3, <1>4, <1>5, <1>6, <1>7 DEF Next

\* The invariant holds throughout, on a chain never cut below the buffer.
THEOREM ObligationsInvariance ==
  ASSUME LowestHeight > B
  PROVE  Spec => []IInv
<1>1. Init => IInv
  BY InitIInv
<1>2. IInv /\ [Next]_vars => IInv'
  BY NextIInv
<1> QED BY <1>1, <1>2, PTL DEF Spec

\* REORG_SAFETY_BUFFER_BLOCKS is enough: whatever blocks, cuts and restarts come
\* in whatever order, a vote of this node stands for the node it was made about
\* until the chain is cut more than a block deeper than the buffer.
THEOREM VotesStayWithTheirNode ==
  ASSUME LowestHeight > B
  PROVE  Spec => []VotesKeepTheirNode
<1>1. IInv => VotesKeepTheirNode
  <2> SUFFICES ASSUME IInv, deepest <= B + 1, NEW s \in signed
               PROVE  s.vote.height < Len(chain) /\ Worker(chain, s.vote) = s.node
    BY DEF VotesKeepTheirNode, B
  <2>1. Rests(s) /\ B \in Nat
    BY ObligationAssumption DEF IInv, B
  <2>2. Len(chain) \in Nat
    BY DEF IInv, IsChain
  <2>3. /\ s.vote.height \in Nat /\ s.vote.height + B + 2 <= peak
        /\ peak \in Nat /\ deepest \in Nat /\ peak - deepest <= Len(chain)
    BY <2>1, Zenon DEF Rests, IInv
  <2>4. s.vote.height < Len(chain)
    BY <2>1, <2>2, <2>3, BuriedHeights, Zenon
  <2> QED BY <2>1, <2>4, Zenon DEF Rests
<1>2. Spec => []IInv
  BY ObligationsInvariance
<1> QED BY <1>1, <1>2, PTL

\* process_quorums and blockchain_detached never leave the next height above the
\* chain.
THEOREM ObligationsStayBehind ==
  ASSUME LowestHeight > B
  PROVE  Spec => []ObligationsBehindChain
<1>1. IInv => ObligationsBehindChain
  BY DEF IInv, ObligationsBehindChain
<1>2. Spec => []IInv
  BY ObligationsInvariance
<1> QED BY <1>1, <1>2, PTL

----------------------------------------------------------------------------
(* EnoughVotesQueued. *)

\* Enough votes for a change have put it, or one that equals it, into the pool of
\* transactions, or the thread that added the last of them is about to.
Covered(v) ==
  \/ have_duplicated_non_standard_tx(pool_txs, chain, Change(v))
  \/ \E t \in inflight : t.step = "pooled" /\ Change(t.vote) = Change(v)

\* The inductive invariant, as long as no block was detached: votes in the pool and
\* with a thread resolve on the chain, what the pool of transactions holds is still
\* possible, and what has enough votes and is possible is covered.
VotesInv ==
  deepest = 0 =>
    /\ \A t \in inflight : Resolves(chain, t.vote) /\ t.node = Worker(chain, t.vote)
    /\ \A tx \in pool_txs : /\ Resolves(chain, tx) /\ ~tx.kept_by_block
                            /\ CanChange(chain, Worker(chain, tx), tx)
    /\ \A v \in m_obligations_pool :
         /\ Resolves(chain, v)
         /\ Enough(m_obligations_pool, v) /\ check_tx_inputs(chain, Change(v)) => Covered(v)

\* A non-empty set of natural numbers has a least element.
LEMMA LeastExists ==
  ASSUME NEW S \in SUBSET Nat, S # {}
  PROVE  \E m \in S : \A k \in S : m <= k
<1> DEFINE R == OpToRel(<, Nat)
<1>1. IsWellFoundedOn(R, Nat)
  BY NatLessThanWellFounded, Zenon
<1>2. \A x, y \in Nat : <<y, x>> \in R <=> y < x
  BY DEF OpToRel
<1> HIDE DEF R
<1>3. PICK x \in S : \A y \in S : ~ (<<y, x>> \in R)
  BY <1>1, WFMin, Zenon
<1>4. \A y \in S : ~ (y < x)
  BY <1>2, <1>3, Zenon
<1>5. \A y \in S : x <= y
  BY <1>4
<1> QED BY <1>5

\* Among the votes about a node, one is handled first.
LEMMA FirstVote ==
  ASSUME NEW c, NEW O, \A v \in O : v.height \in Nat /\ v.index \in Nat, NEW u \in O
  PROVE  \E w \in O : /\ Worker(c, w) = Worker(c, u)
                      /\ \A z \in O : Precedes(z, w) => Worker(c, z) # Worker(c, w)
<1> DEFINE P == {v \in O : Worker(c, v) = Worker(c, u)}
           H == {v.height : v \in P}
<1>1. u \in P /\ \A v \in P : v.height \in Nat /\ v.index \in Nat
  OBVIOUS
<1>2. \A z \in O : z \notin P => Worker(c, z) # Worker(c, u)
  OBVIOUS
<1>3. P \subseteq O /\ \A v \in P : Worker(c, v) = Worker(c, u)
  OBVIOUS
<1> HIDE DEF P
<1>4. PICK m \in H : \A k \in H : m <= k
  <2>1. H \in SUBSET Nat /\ H # {}
    BY <1>1
  <2> HIDE DEF H
  <2> QED BY <2>1, LeastExists
<1> DEFINE Q == {v \in P : v.height = m}
           I == {v.index : v \in Q}
<1>5. PICK i \in I : \A k \in I : i <= k
  <2>1. I \in SUBSET Nat /\ I # {}
    BY <1>1, <1>4
  <2> HIDE DEF I
  <2> QED BY <2>1, LeastExists
<1>6. PICK w \in P : w.height = m /\ w.index = i
  BY <1>5
<1>7. ASSUME NEW z \in P, Precedes(z, w) PROVE FALSE
  <2>1. z.height \in Nat /\ z.index \in Nat /\ w.height \in Nat /\ w.index \in Nat
    BY <1>1
  <2>2. m <= z.height
    BY <1>4
  <2>3. z.height = m
    BY <1>6, <1>7, <2>1, <2>2 DEF Precedes
  <2>4. i <= z.index
    BY <1>5, <2>3
  <2> QED BY <1>6, <1>7, <2>1, <2>3, <2>4 DEF Precedes
<1> QED BY <1>2, <1>3, <1>6, <1>7

\* The fields that the lookups read are the same in a vote and its change.
LEMMA ChangeFields ==
  ASSUME NEW c, NEW v
  PROVE  /\ Change(v).height = v.height /\ Change(v).index = v.index /\ Change(v).state = v.state
         /\ Queued(v).height = v.height /\ Queued(v).index = v.index /\ Queued(v).state = v.state
         /\ Queued(v).kept_by_block = FALSE /\ Change(Queued(v)) = Change(v)
         /\ Worker(c, Change(v)) = Worker(c, v) /\ (Resolves(c, Change(v)) <=> Resolves(c, v))
         /\ Worker(c, Queued(v)) = Worker(c, v) /\ (Resolves(c, Queued(v)) <=> Resolves(c, v))
         /\ \A n : CanChange(c, n, Change(v)) <=> CanChange(c, n, v)
         /\ \A n : CanChange(c, n, Queued(v)) <=> CanChange(c, n, v)
BY Zenon DEF Change, Queued, Worker, Resolves, CanChange

\* A transaction that makes the same change of the same node is a duplicate.
LEMMA IsDuplicate ==
  ASSUME NEW txs, NEW c, NEW v, NEW tx \in txs, tx.state = v.state,
         Resolves(c, v), Resolves(c, tx), Worker(c, tx) = Worker(c, v)
  PROVE  have_duplicated_non_standard_tx(txs, c, Change(v)) /\ have_duplicated_non_standard_tx(txs, c, v)
BY ChangeFields, Zenon DEF have_duplicated_non_standard_tx

\* A duplicate is a transaction that makes the same change of the same node.
LEMMA DuplicateIs ==
  ASSUME NEW txs, NEW c, NEW v, Resolves(c, v), \A tx \in txs : Resolves(c, tx),
         have_duplicated_non_standard_tx(txs, c, v)
  PROVE  \E tx \in txs : tx.state = v.state /\ Worker(c, tx) = Worker(c, v)
BY DEF have_duplicated_non_standard_tx

\* The change of a vote that check_tx_inputs takes.
LEMMA CheckedFacts ==
  ASSUME NEW c, NEW v, check_tx_inputs(c, Change(v))
  PROVE  Resolves(c, v) /\ CanChange(c, Worker(c, v), v)
BY ChangeFields, Zenon DEF check_tx_inputs

\* can_transition_to_state across a block, for the entry of one node.
LEMMA SteppedPossible ==
  ASSUME NEW c, ChainOK(c), NEW x, NEW new, Stepped(new, Infos(c), c, x),
         NEW n \in DOMAIN new, NEW k \in Nat, k <= Len(c), NEW state,
         can_transition_to_state(new[n], k, state)
  PROVE  /\ n \in DOMAIN Infos(c) /\ can_transition_to_state(Infos(c)[n], k, state)
         /\ x # NoChange /\ n = Worker(c, x) => x.state # state
         /\ \A j \in Nat : can_transition_to_state(Infos(c)[n], j, state)
                             => can_transition_to_state(new[n], j, state)
<1> DEFINE old == Infos(c)
<1>1. Len(c) \in Nat \ {0} /\ Last(c) = c[Len(c)]
  BY ChainFacts, ConstantTypes DEF ChainOK
<1>2. SoundInfos(old)
  BY <1>1 DEF ChainOK, BlockOK, Infos
<1>3. n \in DOMAIN old /\ SoundInfo(new[n])
  BY SoundEntries, Zenon DEF Stepped
<1>4. SoundInfo(old[n])
  BY <1>2, <1>3, SoundEntries, Zenon
<1>5. IF x # NoChange /\ n = Worker(c, x) THEN Changed(new[n], old[n], x.state, Len(c))
      ELSE Same(new[n], old[n])
  BY DEF Stepped
<1> HIDE DEF old
<1>6. /\ can_transition_to_state(old[n], k, state)
      /\ \A j \in Nat : can_transition_to_state(old[n], j, state)
                          => can_transition_to_state(new[n], j, state)
  BY <1>1, <1>3, <1>4, <1>5, Possible, Zenon
<1>7. ASSUME x # NoChange, n = Worker(c, x), x.state = state PROVE FALSE
  <2>1. Changed(new[n], old[n], x.state, Len(c))
    BY <1>5, <1>7, Zenon
  <2>2. Marked(new[n], state, Len(c))
    BY <1>1, <1>3, <1>4, <1>7, <2>1, ChangedMarks, Zenon
  <2>3. k > Len(c)
    BY <1>1, <1>3, <2>2, MarkedBars, ZenonT(30)
  <2> QED BY <1>1, <2>3
<1> QED BY <1>3, <1>6, <1>7, Zenon DEF old

\* A network thread that handles a vote, in each of its steps.
LEMMA ThreadVotes ==
  ASSUME ChainInv, VotesInv, deepest' = 0,
         \/ \E v \in Votes \cup OwnSigned : VerifyVote(v)
         \/ \E t \in inflight : AddPoolVoteIfUnique(t) \/ HandleObligationsVote(t)
  PROVE  VotesInv'
<1>1. deepest = 0 /\ chain' = chain
  BY DEF VerifyVote, AddPoolVoteIfUnique, HandleObligationsVote
<1>2. /\ \A t \in inflight : Resolves(chain, t.vote) /\ t.node = Worker(chain, t.vote)
      /\ \A tx \in pool_txs : /\ Resolves(chain, tx) /\ ~tx.kept_by_block
                              /\ CanChange(chain, Worker(chain, tx), tx)
      /\ \A v \in m_obligations_pool :
           /\ Resolves(chain, v)
           /\ Enough(m_obligations_pool, v) /\ check_tx_inputs(chain, Change(v)) => Covered(v)
  BY <1>1, ZenonT(30) DEF VotesInv
<1> SUFFICES
      /\ \A t \in inflight' : Resolves(chain, t.vote) /\ t.node = Worker(chain, t.vote)
      /\ \A tx \in pool_txs' : /\ Resolves(chain, tx) /\ ~tx.kept_by_block
                               /\ CanChange(chain, Worker(chain, tx), tx)
      /\ \A v \in m_obligations_pool' :
           /\ Resolves(chain, v)
           /\ Enough(m_obligations_pool', v) /\ check_tx_inputs(chain, Change(v)) => Covered(v)'
  BY <1>1 DEF VotesInv
<1>3. CASE \E v \in Votes \cup OwnSigned : VerifyVote(v)
  <2>1. PICK v \in Votes \cup OwnSigned :
          /\ Resolves(chain, v) /\ pool_txs' = pool_txs /\ m_obligations_pool' = m_obligations_pool
          /\ inflight' = inflight \cup {[vote |-> v, node |-> Worker(chain, v), step |-> "verified"]}
    BY <1>3 DEF VerifyVote
  <2>2. \A w : Covered(w) => Covered(w)'
    BY <1>1, <2>1 DEF Covered
  <2>3. \A t \in inflight' : Resolves(chain, t.vote) /\ t.node = Worker(chain, t.vote)
    BY <1>2, <2>1
  <2> QED BY <1>2, <2>1, <2>2, <2>3, ZenonT(30)
<1>4. ASSUME NEW t \in inflight, AddPoolVoteIfUnique(t)
      PROVE  /\ \A r \in inflight' : Resolves(chain, r.vote) /\ r.node = Worker(chain, r.vote)
             /\ \A tx \in pool_txs' : /\ Resolves(chain, tx) /\ ~tx.kept_by_block
                                      /\ CanChange(chain, Worker(chain, tx), tx)
             /\ \A v \in m_obligations_pool' :
                  /\ Resolves(chain, v)
                  /\ Enough(m_obligations_pool', v) /\ check_tx_inputs(chain, Change(v)) => Covered(v)'
  <2> DEFINE u == [t EXCEPT !.step = "pooled"]
             full == t.vote \notin m_obligations_pool /\ Enough(m_obligations_pool', t.vote)
  <2>1. /\ t.step = "verified" /\ pool_txs' = pool_txs
        /\ m_obligations_pool' = m_obligations_pool \cup {t.vote}
        /\ inflight' = (inflight \ {t}) \cup (IF full THEN {u} ELSE {})
    BY <1>4 DEF AddPoolVoteIfUnique
  <2>2. Resolves(chain, t.vote) /\ t.node = Worker(chain, t.vote)
    BY <1>2
  <2>3. u.vote = t.vote /\ u.node = t.node /\ u.step = "pooled"
    BY <2>1
  <2> HIDE DEF u
  <2>4. \A r \in inflight' : Resolves(chain, r.vote) /\ r.node = Worker(chain, r.vote)
    BY <1>2, <2>1, <2>2, <2>3
  <2>5. ASSUME NEW v, Covered(v) PROVE Covered(v)'
    BY <1>1, <2>1, <2>5 DEF Covered
  <2>6. ASSUME NEW v \in m_obligations_pool', Enough(m_obligations_pool', v),
               check_tx_inputs(chain, Change(v))
        PROVE  Covered(v)'
    <3>1. CASE t.vote \in m_obligations_pool
      <4>1. m_obligations_pool' = m_obligations_pool
        BY <2>1, <3>1, ZenonT(30)
      <4> QED BY <1>2, <2>5, <2>6, <4>1
    <3>2. CASE t.vote \notin m_obligations_pool /\ Change(v) = Change(t.vote)
      <4>1. VotesFor(m_obligations_pool', v) = VotesFor(m_obligations_pool', t.vote)
        BY <3>2 DEF VotesFor
      <4>2. full
        BY <2>6, <3>2, <4>1 DEF Enough
      <4>3. u \in inflight'
        BY <2>1, <4>2
      <4> QED BY <2>3, <3>2, <4>3 DEF Covered
    <3>3. CASE t.vote \notin m_obligations_pool /\ Change(v) # Change(t.vote)
      <4>1. v \in m_obligations_pool
        BY <2>1, <2>6, <3>3, Zenon
      <4>2. {w \in m_obligations_pool' : Change(w) = Change(v)} = {w \in m_obligations_pool : Change(w) = Change(v)}
        BY <2>1, <3>3
      <4>3. Enough(m_obligations_pool, v)
        BY <2>6, <4>2, Zenon DEF Enough, VotesFor
      <4> QED BY <1>2, <2>5, <2>6, <4>1, <4>3, Zenon
    <3> QED BY <3>1, <3>2, <3>3
  <2> QED BY <1>2, <2>1, <2>2, <2>4, <2>6, Zenon
<1>5. ASSUME NEW t \in inflight, HandleObligationsVote(t)
      PROVE  /\ \A r \in inflight' : Resolves(chain, r.vote) /\ r.node = Worker(chain, r.vote)
             /\ \A tx \in pool_txs' : /\ Resolves(chain, tx) /\ ~tx.kept_by_block
                                      /\ CanChange(chain, Worker(chain, tx), tx)
             /\ \A v \in m_obligations_pool' :
                  /\ Resolves(chain, v)
                  /\ Enough(m_obligations_pool', v) /\ check_tx_inputs(chain, Change(v)) => Covered(v)'
  <2> DEFINE u == t.vote
  <2>1. /\ m_obligations_pool' = m_obligations_pool /\ inflight' = inflight \ {t}
        /\ pool_txs' = handle_obligations_vote(pool_txs, chain, u, t.node)
    BY <1>5 DEF HandleObligationsVote
  <2>2. Resolves(chain, u) /\ t.node = Worker(chain, u)
    BY <1>2
  <2> HIDE DEF u
  <2>3. pool_txs \subseteq pool_txs'
    BY <2>1 DEF handle_obligations_vote
  <2>4. CASE /\ ~have_duplicated_non_standard_tx(pool_txs, chain, u)
             /\ check_tx_inputs(chain, Change(u))
    <3>1. CanChange(chain, Worker(chain, u), u)
      BY <2>4, CheckedFacts
    <3>2. pool_txs' = pool_txs \cup {Queued(u)}
      BY <2>1, <2>2, <2>4, <3>1 DEF handle_obligations_vote
    <3>3. /\ Resolves(chain, Queued(u)) /\ ~Queued(u).kept_by_block
          /\ CanChange(chain, Worker(chain, Queued(u)), Queued(u))
      BY <2>2, <3>1, ChangeFields, Zenon
    <3>4. have_duplicated_non_standard_tx(pool_txs', chain, Change(u))
      <4>1. Queued(u) \in pool_txs' /\ Queued(u).state = u.state /\ Worker(chain, Queued(u)) = Worker(chain, u)
        BY <3>2, ChangeFields, Zenon
      <4> QED BY <2>2, <3>3, <4>1, IsDuplicate
    <3>5. ASSUME NEW v, Covered(v) PROVE Covered(v)'
      BY <1>1, <2>1, <2>3, <3>4, <3>5, Zenon DEF Covered, have_duplicated_non_standard_tx, u
    <3> QED BY <1>2, <2>1, <3>2, <3>3, <3>5, Zenon
  <2>5. CASE ~ (/\ ~have_duplicated_non_standard_tx(pool_txs, chain, u)
                /\ check_tx_inputs(chain, Change(u)))
    <3>1. pool_txs' = pool_txs
      BY <2>1, <2>5 DEF handle_obligations_vote
    <3>2. ASSUME NEW v, Covered(v), check_tx_inputs(chain, Change(v)) PROVE Covered(v)'
      <4>1. CASE Change(v) = Change(u)
        <5>1. have_duplicated_non_standard_tx(pool_txs, chain, u)
          BY <2>5, <3>2, <4>1, Zenon
        <5>2. PICK tx \in pool_txs : tx.state = u.state /\ Worker(chain, tx) = Worker(chain, u)
          BY <1>2, <2>2, <5>1, DuplicateIs
        <5>3. have_duplicated_non_standard_tx(pool_txs, chain, Change(u))
          BY <1>2, <2>2, <5>2, IsDuplicate, Zenon
        <5> QED BY <1>1, <3>1, <4>1, <5>3, Zenon DEF Covered
      <4>2. CASE Change(v) # Change(u)
        BY <1>1, <2>1, <3>1, <3>2, <4>2, Zenon DEF Covered, u
      <4> QED BY <4>1, <4>2
    <3> QED BY <1>2, <2>1, <3>1, <3>2, Zenon
  <2> QED BY <2>4, <2>5, Zenon
<1> QED BY <1>3, <1>4, <1>5

\* What a new block accepts, the chain before it accepted.
LEMMA CheckedBefore ==
  ASSUME NEW a, NEW c, Agree(a, c, Len(a)), Len(c) = Len(a) + 1, NEW x \in ChangeType,
         Resolves(a, x), x.height < Len(a), check_tx_inputs(c, x), CanChange(a, Worker(a, x), x)
  PROVE  check_tx_inputs(a, x)
<1>1. x.height \in Nat /\ x # NoChange /\ VOTE_LIFETIME \in Nat /\ Len(a) \in Nat
  BY ConstantTypes, ChainFacts DEF ChangeType, NoChange, StateChange, Agree
<1>2. Worker(a, x) = Worker(c, x) /\ a[x.height + 1] = c[x.height + 1]
  <2>1. x.height + 1 \in 1 .. Len(a)
    BY <1>1
  <2>2. a[x.height + 1] = c[x.height + 1]
    BY <2>1 DEF Agree
  <2> QED BY <1>1, <2>2, AgreeWorkers
<1> DEFINE q == c[x.height + 1].state.quorums
<1>3. verify_tx_state_change(StateTx(c, x), q)
  BY DEF check_tx_inputs
<1>4. /\ StateTx(c, x).back = Len(c) - x.height /\ StateTx(a, x).back = Len(a) - x.height
      /\ StateTx(a, x).node = StateTx(c, x).node /\ StateTx(a, x).signed = StateTx(c, x).signed
  BY <1>1, <1>2, ZenonT(30) DEF StateTx
<1> HIDE DEF q
<1>5. verify_tx_state_change(StateTx(a, x), q)
  BY <1>1, <1>3, <1>4 DEF verify_tx_state_change
<1>6. q = a[x.height + 1].state.quorums
  BY <1>2 DEF q
<1> QED BY <1>5, <1>6, Zenon DEF check_tx_inputs

\* An index that resolves in a chain resolves to the same node in one that agrees with it.
LEMMA AgreeResolves ==
  ASSUME NEW c, NEW d, NEW m, Agree(c, d, m), NEW x, x.height \in Nat, x.height < m,
         Resolves(c, x)
  PROVE  Resolves(d, x) /\ Worker(d, x) = Worker(c, x)
<1>1. (Resolves(c, x) <=> Resolves(d, x)) /\ Worker(c, x) = Worker(d, x)
  BY AgreeWorkers
<1> QED BY <1>1, Zenon

\* A block added: the votes for a change come and go together, and a change
\* that stays possible stays in the pool.
LEMMA BlockAddedVotes ==
  ASSUME ChainInv, VotesInv, NEW tx \in pool_txs \cup {NoChange}, NEW target \in Targets,
         BlockAdded(tx, target), deepest' = 0
  PROVE  VotesInv'
<1>1. PICK x, c, V : Adds(x, c, V, tx, target)
  BY BlockAdds
<1>2. (x = NoChange \/ x \in ChangeType) /\ Stepped(Infos(c), Infos(chain), chain, x)
  BY <1>1, AddsFacts, Zenon
<1>2a. ChainOK(c) /\ Agree(chain, c, Len(chain))
  BY <1>1, AddsFacts, Zenon
<1>2b. Len(c) = Len(chain) + 1
  BY <1>1, AddsFacts, Zenon
<1>2c. \A v \in V : v \in VoteType /\ v.height < Len(c) /\ Resolves(c, v)
  BY <1>1, AddsFacts, Zenon
<1>2d. \A v \in V : v.voter = Me /\ v.state = "recommission"
  BY <1>1, AddsFacts
<1> DEFINE taken == pool_txs \ {tx}
           P == m_obligations_pool
<1>3. chain' = c /\ inflight' = inflight /\ deepest' = deepest
  BY <1>1, Zenon DEF Adds
<1>3a. P' = remove_used_votes(remove_expired_votes(P \cup V, Len(c)), x)
  BY <1>1, Zenon DEF Adds
<1>3b. pool_txs' = on_blockchain_inc(AfterOwnVotes(taken, c, V), c)
  BY <1>1, Zenon DEF Adds
<1>3c. x = IF tx = NoChange THEN NoChange ELSE Change(tx)
  BY <1>1, Zenon DEF Adds
<1>3d. deepest = 0
  BY <1>3
<1>4. \A t \in inflight : Resolves(chain, t.vote) /\ t.node = Worker(chain, t.vote)
  BY <1>3d, Zenon DEF VotesInv
<1>4a. \A t \in pool_txs : /\ Resolves(chain, t) /\ ~t.kept_by_block
                           /\ CanChange(chain, Worker(chain, t), t)
  BY <1>3d, Zenon DEF VotesInv
<1>4b. \A v \in P : Resolves(chain, v)
  BY <1>3d, Zenon DEF VotesInv
<1>4c. \A v \in P : Enough(P, v) /\ check_tx_inputs(chain, Change(v)) => Covered(v)
  BY <1>3d, Zenon DEF VotesInv
<1>5. ChainOK(chain)
  BY Zenon DEF ChainInv
<1>5a. P \subseteq VoteType
  BY ZenonT(30) DEF ChainInv, TypeOK
<1>5b. \A t \in inflight : t.vote \in VoteType
  BY DEF ChainInv, TypeOK
<1>5c. \A t \in pool_txs : Change(t) \in ChangeType
  BY DEF ChainInv, TypeOK
<1>6. Len(chain) \in Nat /\ Len(c) \in Nat
  <2>1. Len(chain) \in Nat
    BY <1>5 DEF ChainOK
  <2> QED BY <1>2b, <2>1
<1>7. ASSUME NEW y, y.height \in Nat, Resolves(chain, y)
      PROVE  y.height < Len(chain) /\ Resolves(c, y) /\ Worker(c, y) = Worker(chain, y)
  <2>1. y.height < Len(chain)
    BY <1>5, <1>7, ResolvesFacts
  <2>2. Agree(chain, c, Len(chain))
    BY <1>2a, Zenon
  <2>3. Resolves(c, y) /\ Worker(c, y) = Worker(chain, y)
    BY <1>7, <2>1, <2>2, AgreeResolves, Zenon
  <2> QED BY <2>1, <2>3, Zenon
<1>8. \A v \in VoteType : v.height \in Nat /\ v.index \in Nat /\ v.state # "none"
  BY ConstantTypes DEF VoteType, StateChange
<1>9. \A t \in pool_txs : t.height \in Nat /\ t.state # "none"
  <2>1. \A y \in ChangeType : y.height \in Nat /\ y.state # "none"
    BY ConstantTypes DEF ChangeType, StateChange
  <2> QED BY <1>5c, <2>1, ChangeFields, Zenon
\* The transactions that stay.
<1>10. ASSUME NEW t \in taken, CanChange(c, Worker(c, t), t) PROVE t \in pool_txs'
  BY <1>3b, <1>10, Zenon DEF AfterOwnVotes, on_blockchain_inc
<1>11. ASSUME NEW v \in Offered(taken, c, V),
              \A u \in Offered(taken, c, V) : Precedes(u, v) => Worker(c, u) # Worker(c, v)
       PROVE  Queued(v) \in pool_txs'
  <2>1. check_tx_inputs(c, Change(v))
    BY DEF Offered
  <2>2. CanChange(c, Worker(c, Queued(v)), Queued(v))
    BY <2>1, CheckedFacts, ChangeFields, Zenon
  <2>3. Queued(v) \in AfterOwnVotes(taken, c, V)
    BY <1>11 DEF AfterOwnVotes
  <2> QED BY <1>3b, <2>2, <2>3 DEF on_blockchain_inc
\* The transactions that are there.
<1>12. ASSUME NEW t \in pool_txs'
       PROVE  Resolves(c, t) /\ ~t.kept_by_block /\ CanChange(c, Worker(c, t), t)
  <2>1. t \in AfterOwnVotes(taken, c, V)
    BY <1>3b DEF on_blockchain_inc
  <2>2. CASE t \in taken
    <3>1. t \in pool_txs /\ t.height \in Nat
      BY <1>9, <2>2, Zenon
    <3>2. ~t.kept_by_block /\ Resolves(c, t) /\ t.height < Len(chain)
      BY <1>4a, <1>7, <3>1, Zenon
    <3>3. ~(t.height >= Len(c) - 1)
      BY <1>2b, <1>6, <3>1, <3>2
    <3>4. CanChange(c, Worker(c, t), t)
      BY <1>3b, <1>12, <3>2, <3>3, Zenon DEF on_blockchain_inc
    <3> QED BY <3>2, <3>4, Zenon
  <2>3. CASE t \notin taken
    <3>1. PICK v \in Offered(taken, c, V) : t = Queued(v)
      BY <2>1, <2>3 DEF AfterOwnVotes
    <3>2. check_tx_inputs(c, Change(v))
      BY DEF Offered
    <3> QED BY <3>1, <3>2, CheckedFacts, ChangeFields, ZenonT(30)
  <2> QED BY <2>2, <2>3
\* A duplicate that may still change stays.
<1>13. ASSUME NEW v \in VoteType, Resolves(c, v), v.height < Len(c), check_tx_inputs(c, Change(v)),
              NEW t \in taken, t.state = v.state, Worker(c, t) = Worker(c, v)
       PROVE  have_duplicated_non_standard_tx(pool_txs', c, Change(v))
  <2> DEFINE n == Worker(c, v)
  <2>1. n \in DOMAIN Infos(c) /\ can_transition_to_state(Infos(c)[n], v.height, v.state)
    BY <1>13, CheckedFacts, Zenon DEF CanChange
  <2>2. v.height \in Nat /\ v.height <= Len(chain)
    <3>1. v.height \in Nat /\ v.height < Len(c)
      BY <1>8, <1>13, Zenon
    <3> QED BY <1>2b, <1>6, <3>1
  <2>3. \A j \in Nat : can_transition_to_state(Infos(chain)[n], j, v.state)
                         => can_transition_to_state(Infos(c)[n], j, v.state)
    BY <1>2, <1>5, <2>1, <2>2, SteppedPossible, Zenon
  <2>4. Worker(chain, t) = n /\ Resolves(c, t) /\ t.height \in Nat /\ CanChange(chain, n, t)
    BY <1>4a, <1>7, <1>9, <1>13, Zenon
  <2>5. CanChange(c, n, t)
    BY <1>13, <2>1, <2>3, <2>4, Zenon DEF CanChange
  <2>6. t \in pool_txs'
    BY <1>10, <1>13, <2>5, Zenon
  <2> QED BY <1>13, <2>4, <2>6, IsDuplicate
<1>14. ASSUME NEW v \in P'
       PROVE  /\ v \in VoteType /\ v \in P \cup V /\ Resolves(c, v) /\ v.height < Len(c)
              /\ {w \in P' : Change(w) = Change(v)} = {w \in P \cup V : Change(w) = Change(v)}
  <2>1. P' = {w \in P \cup V : /\ w.height + VOTE_LIFETIME >= Len(c) /\ w.height <= Len(c)
                               /\ Change(w) # x}
    BY <1>3a DEF remove_used_votes, remove_expired_votes
  <2>2. v \in VoteType /\ v \in P \cup V /\ Resolves(c, v) /\ v.height < Len(c)
    <3>1. v \in P \cup V
      BY <2>1, Zenon
    <3>2. CASE v \in V
      BY <1>2c, <3>1, <3>2, Zenon
    <3>3. CASE v \in P
      <4>1. v \in VoteType /\ v.height \in Nat
        BY <1>5a, <1>8, <3>3, Zenon
      <4>2. v.height < Len(chain) /\ Resolves(c, v)
        BY <1>4b, <1>7, <3>3, <4>1, Zenon
      <4>3. v.height < Len(c)
        BY <1>2b, <1>6, <4>1, <4>2
      <4> QED BY <3>1, <4>1, <4>2, <4>3, Zenon
    <3> QED BY <3>1, <3>2, <3>3, Zenon
  <2>3. \A w : Change(w) = Change(v) => w.height = v.height
    BY DEF Change
  <2> QED BY <2>1, <2>2, <2>3
<1>15. ASSUME NEW v \in P', Enough(P', v), check_tx_inputs(c, Change(v))
       PROVE  Covered(v)'
  <2>1. /\ v \in VoteType /\ v \in P \cup V /\ Resolves(c, v) /\ v.height < Len(c)
        /\ {w \in P' : Change(w) = Change(v)} = {w \in P \cup V : Change(w) = Change(v)}
    BY <1>14
  <2>2. ASSUME NEW u \in V \ P, Change(u) = Change(v)
        PROVE  have_duplicated_non_standard_tx(pool_txs', c, Change(v))
    <3>1. {w \in P \cup V : Change(w) = Change(v)} = {w \in P \cup {u} : Change(w) = Change(u)}
      <4>1. \A w \in V : Change(w) = Change(u) => w = u
        <5>1. \A w \in VoteType : w = [height |-> w.height, index |-> w.index, state |-> w.state, voter |-> w.voter]
          BY DEF VoteType
        <5>2. \A w \in V : w \in VoteType /\ w.voter = Me
          BY <1>2c, <1>2d, Zenon
        <5> QED BY <2>2, <5>1, <5>2 DEF Change
      <4> QED BY <2>2, <4>1, Zenon
    <3>2. Enough(P \cup {u}, u)
      BY <1>15, <2>1, <3>1, Zenon DEF Enough, VotesFor
    <3>3. /\ Worker(c, u) = Worker(c, v) /\ u.state = v.state /\ check_tx_inputs(c, Change(u))
      <4>1. Worker(c, Change(u)) = Worker(c, u) /\ Worker(c, Change(v)) = Worker(c, v)
            /\ Change(u).state = u.state /\ Change(v).state = v.state
        BY ChangeFields, Zenon
      <4> QED BY <1>15, <2>2, <4>1
    <3>4. CASE have_duplicated_non_standard_tx(taken, c, u)
      <4>1. \A t \in taken : Resolves(c, t)
        BY <1>4a, <1>7, <1>9, Zenon
      <4>2. PICK t \in taken : t.state = u.state /\ Worker(c, t) = Worker(c, u)
        <5>1. Resolves(c, u)
          BY <1>2c, <2>2, Zenon
        <5> QED BY <3>4, <4>1, <5>1, DuplicateIs
      <4> QED BY <1>13, <1>15, <2>1, <3>3, <4>2, Zenon
    <3>5. CASE ~have_duplicated_non_standard_tx(taken, c, u)
      <4> DEFINE O == Offered(taken, c, V)
      <4>1. u \in O
        BY <2>2, <3>2, <3>3, <3>5, Zenon DEF Offered
      <4>2. \A w \in O : w \in V /\ w.height \in Nat /\ w.index \in Nat
        BY <1>2c, <1>8, Zenon DEF Offered
      <4>6. \A w \in O : (\A z \in O : Precedes(z, w) => Worker(c, z) # Worker(c, w)) => Queued(w) \in pool_txs'
        BY <1>11, Zenon
      <4> HIDE DEF O
      <4>7. \A w \in O : w.height \in Nat /\ w.index \in Nat
        BY <4>2, Zenon
      <4>3. PICK w \in O : /\ Worker(c, w) = Worker(c, u)
                           /\ \A z \in O : Precedes(z, w) => Worker(c, z) # Worker(c, w)
        BY <4>1, <4>7, FirstVote
      <4>4. Queued(w) \in pool_txs'
        BY <4>3, <4>6, Zenon
      <4>5. /\ Queued(w).state = v.state /\ Worker(c, Queued(w)) = Worker(c, v)
            /\ Resolves(c, Queued(w))
        <5>1. Resolves(c, w) /\ w.state = "recommission" /\ u.state = "recommission"
          BY <1>2c, <1>2d, <2>2, <4>2, <4>3, ZenonT(30)
        <5>2. Queued(w).state = w.state /\ Worker(c, Queued(w)) = Worker(c, w)
              /\ (Resolves(c, Queued(w)) <=> Resolves(c, w))
          BY ChangeFields, ZenonT(30)
        <5> QED BY <3>3, <4>3, <5>1, <5>2, Zenon
      <4> QED BY <2>1, <4>4, <4>5, IsDuplicate, Zenon
    <3> QED BY <3>4, <3>5
  <2>3. CASE \A u \in V \ P : Change(u) # Change(v)
    <3>1. v \in P /\ {w \in P \cup V : Change(w) = Change(v)} = {w \in P : Change(w) = Change(v)}
      BY <2>1, <2>3
    <3>2. Enough(P, v)
      BY <1>15, <2>1, <3>1, Zenon DEF Enough, VotesFor
    <3>3. /\ Resolves(chain, v) /\ v.height \in Nat /\ v.height < Len(chain)
          /\ Worker(c, v) = Worker(chain, v)
      BY <1>4b, <1>7, <1>8, <2>1, <3>1, Zenon
    <3> DEFINE n == Worker(chain, v)
    <3>4. n \in DOMAIN Infos(c) /\ can_transition_to_state(Infos(c)[n], v.height, v.state)
      BY <1>15, <3>3, CheckedFacts, Zenon DEF CanChange
    <3>5. /\ CanChange(chain, n, v)
          /\ x # NoChange /\ n = Worker(chain, x) => x.state # v.state
      <4>1. v.height <= Len(chain)
        BY <1>6, <3>3
      <4>2. /\ n \in DOMAIN Infos(chain) /\ can_transition_to_state(Infos(chain)[n], v.height, v.state)
            /\ x # NoChange /\ n = Worker(chain, x) => x.state # v.state
        BY <1>2, <1>5, <3>3, <3>4, <4>1, SteppedPossible, ZenonT(30)
      <4> QED BY <4>2, Zenon DEF CanChange
    <3>6. check_tx_inputs(chain, Change(v))
      <4>1. /\ Change(v) \in ChangeType /\ Resolves(chain, Change(v)) /\ Change(v).height < Len(chain)
            /\ CanChange(chain, Worker(chain, Change(v)), Change(v))
        BY <2>1, <3>3, <3>5, ChangeFields, ChangeTypes, Zenon
      <4> QED BY <1>2a, <1>2b, <1>15, <4>1, CheckedBefore
    <3>7. Covered(v)
      BY <1>4c, <3>1, <3>2, <3>6, ZenonT(30)
    <3>8. CASE \E t \in inflight : t.step = "pooled" /\ Change(t.vote) = Change(v)
      BY <1>3, <3>8, Zenon DEF Covered
    <3>9. CASE have_duplicated_non_standard_tx(pool_txs, chain, Change(v))
      <4>1. /\ Resolves(chain, Change(v)) /\ Worker(chain, Change(v)) = n /\ Change(v).state = v.state
        BY <3>3, ChangeFields, ZenonT(30)
      <4>2. PICK t \in pool_txs : t.state = v.state /\ Worker(chain, t) = n
        <5>1. \A t \in pool_txs : Resolves(chain, t)
          BY <1>4a, Zenon
        <5> QED BY <3>9, <4>1, <5>1, DuplicateIs
      <4>3. t # tx
        <5> SUFFICES ASSUME t = tx PROVE FALSE
          OBVIOUS
        <5>1. t # NoChange
          BY <1>9, <4>2, Zenon DEF NoChange
        <5>2. x = Change(t) /\ x # NoChange
          <6>1. Change(t).state # "none"
            BY <1>9, <4>2, ChangeFields, Zenon
          <6> QED BY <1>3c, <5>1, <6>1 DEF NoChange
        <5>3. x.state = v.state /\ Worker(chain, x) = n
          BY <4>2, <5>2, ChangeFields, Zenon
        <5> QED BY <3>5, <5>2, <5>3
      <4>4. t \in taken /\ Worker(c, t) = Worker(c, v)
        BY <1>4a, <1>7, <1>9, <3>3, <4>2, <4>3, Zenon
      <4>5. have_duplicated_non_standard_tx(pool_txs', c, Change(v))
        BY <1>13, <1>15, <2>1, <4>2, <4>4, Zenon
      <4> QED BY <1>3, <4>5 DEF Covered
    <3> QED BY <3>7, <3>8, <3>9, ZenonT(30) DEF Covered
  <2> QED BY <1>3, <2>2, <2>3, Zenon DEF Covered
<1>16. \A t \in inflight : Resolves(c, t.vote) /\ t.node = Worker(c, t.vote)
  BY <1>4, <1>5b, <1>7, <1>8, ZenonT(30)
<1>17. \A v \in P' : Resolves(c, v)
  BY <1>14, Zenon
<1> QED BY <1>3, <1>12, <1>15, <1>16, <1>17, Zenon DEF VotesInv

\* VotesInv /\ [Next]_vars => VotesInv': a cut ends what is said of the pools.
LEMMA NextVotesInv ==
  ASSUME ChainInv, VotesInv, [Next]_vars
  PROVE  VotesInv'
<1> SUFFICES ASSUME deepest' = 0 PROVE VotesInv'
  BY Zenon DEF VotesInv
<1>1. CASE UNCHANGED vars
  BY <1>1 DEF vars, VotesInv, Covered
<1>2. CASE \/ \E v \in Votes \cup OwnSigned : VerifyVote(v)
           \/ \E t \in inflight : AddPoolVoteIfUnique(t) \/ HandleObligationsVote(t)
  BY <1>2, ThreadVotes
<1>3. CASE \E tx \in pool_txs \cup {NoChange}, target \in Targets : BlockAdded(tx, target)
  BY <1>3, BlockAddedVotes
<1>4. ASSUME NEW height \in LowestHeight .. MaxHeight, BlockchainDetached(height) PROVE FALSE
  <2>1. height \in LowestHeight .. Len(chain) - 1 /\ deepest' = Max({deepest, peak - height})
    BY <1>4, ZenonT(30) DEF BlockchainDetached
  <2>2. /\ Len(chain) \in 1 .. MaxHeight + 1 /\ Len(chain) <= peak
        /\ peak \in 1 .. MaxHeight + 1 /\ deepest \in 0 .. MaxHeight
    BY DEF ChainInv, TypeOK
  <2>3. deepest \in Nat /\ peak - height \in Nat /\ peak - height >= 1
    BY <2>1, <2>2, ConstantTypes
  <2>4. deepest' >= peak - height
    BY <2>1, <2>3, MaxOfTwo
  <2> QED BY <2>3, <2>4
<1>5. CASE Restart
  <2>1. chain' = chain /\ pool_txs' = pool_txs /\ deepest' = deepest /\ m_obligations_pool' = {} /\ inflight' = {}
    BY <1>5 DEF Restart
  <2> QED BY <2>1, Zenon DEF VotesInv
<1> QED BY <1>1, <1>2, <1>3, <1>4, <1>5, Zenon DEF Next

\* As long as no block was detached, a change with enough votes in the pool that the
\* chain accepts is in the transaction pool, or the thread that added the last of its
\* votes is about to put it there: handle_obligations_vote loses none.
THEOREM EnoughVotesGetQueued == Spec => []EnoughVotesQueued
<1>1. Init => VotesInv
  BY DEF Init, VotesInv
<1>2. ChainInv /\ VotesInv /\ [Next]_vars => VotesInv'
  BY NextVotesInv
<1>3. VotesInv => EnoughVotesQueued
  BY DEF VotesInv, EnoughVotesQueued, Covered, Enough
<1> QED BY <1>1, <1>2, <1>3, ObligationChainInvariance, PTL DEF Spec
=============================================================================
