-------------------------- MODULE ObligationVoting --------------------------
(***************************************************************************)
(* How one node takes part in the obligation quorums: the obligations half *)
(* of quorum_cop, the pool of its votes, and the state-change transactions *)
(* that enough votes become in the transaction pool and in blocks.         *)
(*                                                                         *)
(* A vote, and the transaction made of votes, names a node only by its     *)
(* index among the workers of the quorum of a height: which node that is   *)
(* depends on the chain it is looked up in.  The list is the one that      *)
(* FramePixHistory promises: every state of the chain is at hand.  Voters  *)
(* are in every quorum and their signatures verify; whether this node is a *)
(* validator of a quorum, and has been up for long enough, varies freely.  *)
(* check_frame_pix passes every node (its tests are commented out), so the *)
(* only vote this node makes is for the return of a decommissioned node.   *)
(* Network threads in handle_vote interleave with blocks and cuts.         *)
(***************************************************************************)
EXTENDS FramePixState, FiniteSetsExt, Functions

CONSTANTS
  REORG_SAFETY_BUFFER_BLOCKS,
  STATE_CHANGE_MIN_VOTES_TO_CHANGE_STATE,
  UINT64_RANGE,     \* unsigned numbers wrap at this value
  Shuffle,          \* the order of the workers, by hash and set of nodes
  Me, Voter,        \* this node and the other validators
  FirstChain,       \* the first blocks, which carry no state change
  QuorumHeights,    \* bound: heights of the quorums this node may be drawn into
  Votes,            \* bound: votes that arrive from the network
  Targets,          \* bound: target heights
  LowestHeight,     \* bound: blocks left by a cut
  MaxHeight,        \* bound: height of the chain
  MaxCuts,          \* bound: cuts of the chain
  MaxThreads        \* bound: votes being handled

NoChange == [height |-> 0, index |-> 0, state |-> "none"]

VoteType ==
  [height : 0 .. MaxHeight, index : 1 .. Cardinality(FramePix), state : StateChange,
   voter : Voter \cup {Me}]

\* What the registrations and contributions of the first blocks leave.
FramePixInfo ==
  [registration_height : Nat, requested_unlock_height : Nat, last_reward : Nat \X Nat,
   active_since_height : Int, last_decommission_height : Nat, last_ip_change_height : Nat,
   total_contributed : Nat]

\* A node that is funded is active since a block or decommissioned.
SoundInfos(infos) ==
  /\ DOMAIN infos \subseteq FramePix
  /\ infos \in [DOMAIN infos -> FramePixInfo]
  /\ \A n \in DOMAIN infos : is_fully_funded(infos[n]) => infos[n].active_since_height # 0

ASSUME ObligationAssumption ==
  /\ REORG_SAFETY_BUFFER_BLOCKS \in Nat
  /\ STATE_CHANGE_MIN_VOTES_TO_CHANGE_STATE \in Nat \ {0}
  /\ LowestHeight \in Nat \ {0} /\ MaxHeight \in Nat
  /\ UINT64_RANGE \in Nat /\ UINT64_RANGE > MaxHeight
  /\ REORG_SAFETY_BUFFER_BLOCKS < UINT64_RANGE
  /\ Targets \subseteq Nat
  /\ MaxCuts \in Nat
  /\ Votes \subseteq VoteType /\ Me \notin Voter

ASSUME ChainAssumption ==
  /\ FirstChain \in Seq(Range(FirstChain))
  /\ Len(FirstChain) \in LowestHeight .. MaxHeight + 1
  /\ \A i \in DOMAIN FirstChain :
       /\ FirstChain[i].change = NoChange
       /\ FirstChain[i].state.height = i - 1 /\ FirstChain[i].state.block_hash \in 0 .. MaxCuts
       /\ FirstChain[i].state.quorums.obligations \subseteq FramePix
       /\ SoundInfos(FirstChain[i].state.infos)
  /\ \A hash \in 0 .. MaxCuts, S \in SUBSET FramePix :
       Shuffle[hash][S] \in Seq(S) /\ DOMAIN Shuffle[hash][S] \subseteq 1 .. Cardinality(FramePix)

VARIABLES
  chain,                  \* block h is chain[h + 1] = [change, state]
  m_obligations_height,   \* the next height whose quorum is looked at
  m_obligations_pool,     \* votes [height, index, state, voter]
  inflight,               \* network threads between two steps of handle_vote
  pool_txs,               \* state changes in the transaction pool
  cuts,                   \* bound, and the hash of new blocks
  signed,                 \* history: votes of this node and whom they are about
  peak, deepest           \* history: longest chain, deepest cut below it

vars == <<chain, m_obligations_height, m_obligations_pool, inflight, pool_txs,
          cuts, signed, peak, deepest>>

Last(c) == c[Len(c)]

Infos(c) == Last(c).state.infos

\* get_quorum and the workers of it; none for a block that is not there.
Workers(c, h) ==
  IF h + 1 \in DOMAIN c
  THEN Shuffle[c[h + 1].state.block_hash][c[h + 1].state.quorums.obligations] ELSE << >>

\* get_quorum_pubkey: the node that an index stands for on this chain.
Resolves(c, x) == x.index \in DOMAIN Workers(c, x.height)

Worker(c, x) == Workers(c, x.height)[x.index]

\* The list lets the node change to the state of a vote or transaction.
CanChange(c, node, x) ==
  node \in DOMAIN Infos(c) /\ can_transition_to_state(Infos(c)[node], x.height, x.state)

----------------------------------------------------------------------------
(* State-change transactions. *)

\* The transaction as update_from_block reads it in the next block.
StateTx(c, x) ==
  IF x = NoChange THEN NoTx
  ELSE [kind |-> x.state, node |-> Worker(c, x), back |-> Len(c) - x.height,
        signed |-> c[x.height + 1].state.block_hash]

\* The state_change part of Blockchain::check_tx_inputs.
check_tx_inputs(c, x) ==
  /\ Resolves(c, x)
  /\ verify_tx_state_change(StateTx(c, x), c[x.height + 1].state.quorums)
  /\ CanChange(c, Worker(c, x), x)

\* Mutant: a transaction of a block is checked as verify_tx_state_change does.
MineVerified(c, x) ==
  x # NoChange => /\ Resolves(c, x)
                  /\ verify_tx_state_change(StateTx(c, x), c[x.height + 1].state.quorums)

\* The transactions of a block, against the list before the block.
Mineable(c, x) == x # NoChange => check_tx_inputs(c, x)

Change(tx) == [height |-> tx.height, index |-> tx.index, state |-> tx.state]

\* The same change of the same node; heights that are not on the chain are
\* compared by the record.
have_duplicated_non_standard_tx(txs, c, x) ==
  \E tx \in txs :
    /\ tx.state = x.state
    /\ IF Resolves(c, x) /\ Resolves(c, tx) THEN Worker(c, tx) = Worker(c, x)
       ELSE Change(tx) = Change(x)

\* tx_memory_pool::on_blockchain_inc, at the height of the new block.
on_blockchain_inc(txs, c) ==
  {tx \in txs : \/ tx.kept_by_block
                \/ tx.height >= Len(c) - 1
                \/ ~Resolves(c, tx)
                \/ CanChange(c, Worker(c, tx), tx)}

\* The votes that stand for one change.
VotesFor(pool, v) == {w.voter : w \in {u \in pool : Change(u) = Change(v)}}

\* Mutant: the vote just added is not counted.
EnoughBefore(pool, v) ==
  Cardinality(VotesFor(pool, v) \ {v.voter}) >= STATE_CHANGE_MIN_VOTES_TO_CHANGE_STATE

Enough(pool, v) == Cardinality(VotesFor(pool, v)) >= STATE_CHANGE_MIN_VOTES_TO_CHANGE_STATE

Queued(v) == [height |-> v.height, index |-> v.index, state |-> v.state, kept_by_block |-> FALSE]

\* The rest of handle_obligations_vote once there are enough votes: the node of
\* the quorum at hand may change, and the transaction is offered to the pool.
handle_obligations_vote(txs, c, v, node) ==
  IF /\ CanChange(c, node, v)
     /\ ~have_duplicated_non_standard_tx(txs, c, v)
     /\ check_tx_inputs(c, Change(v))
  THEN txs \cup {Queued(v)}
  ELSE txs

----------------------------------------------------------------------------
(* A network thread in quorum_cop::handle_vote. *)

verify_vote_age(v) == Len(chain) <= v.height + VOTE_LIFETIME /\ v.height <= Len(chain)

\* The age, the quorum of this moment, the index and the signature; a vote of
\* this node is one it made.
VerifyVote(v) ==
  /\ v.voter = Me => \E s \in signed : s.vote = v
  /\ Cardinality(inflight) < MaxThreads
  /\ verify_vote_age(v) /\ Resolves(chain, v)
  /\ inflight' = inflight \cup {[vote |-> v, node |-> Worker(chain, v), step |-> "verified"]}
  /\ UNCHANGED <<chain, m_obligations_height, m_obligations_pool, pool_txs, cuts, signed, peak, deepest>>

\* add_pool_vote_if_unique; a known vote, or too few of them, end the call.
AddPoolVoteIfUnique(t) ==
  /\ t.step = "verified"
  /\ m_obligations_pool' = m_obligations_pool \cup {t.vote}
  /\ inflight' = (inflight \ {t}) \cup
       (IF t.vote \notin m_obligations_pool /\ Enough(m_obligations_pool', t.vote)
        THEN {[t EXCEPT !.step = "pooled"]} ELSE {})
  /\ UNCHANGED <<chain, m_obligations_height, pool_txs, cuts, signed, peak, deepest>>

HandleObligationsVote(t) ==
  /\ t.step = "pooled"
  /\ pool_txs' = handle_obligations_vote(pool_txs, chain, t.vote, t.node)
  /\ inflight' = inflight \ {t}
  /\ UNCHANGED <<chain, m_obligations_height, m_obligations_pool, cuts, signed, peak, deepest>>

----------------------------------------------------------------------------
(* A block: the list, the hooks of the quorum cop, then the pool. *)

latest_height(c, target) == Max({Len(c), target})

\* The early returns of process_quorums for the last block of c.
Processes(c, target) ==
  /\ latest_height(c, target) >= VOTE_LIFETIME
  /\ Len(c) - 1 >= latest_height(c, target) - VOTE_LIFETIME

From(c, target) == Max({m_obligations_height, latest_height(c, target) - VOTE_LIFETIME})

Wrap(n) == IF n < 0 THEN n + UINT64_RANGE ELSE n

\* Mutant: the height at the edge of the buffer is visited too.
UpToInclusive(c) == Wrap(Len(c) - REORG_SAFETY_BUFFER_BLOCKS)

\* The end of the loop, height - REORG_SAFETY_BUFFER_BLOCKS, unsigned.
UpTo(c) == Wrap(Len(c) - 1 - REORG_SAFETY_BUFFER_BLOCKS)

\* The heights the loop visits, and where it leaves m_obligations_height.
Visited(c, target) == IF Processes(c, target) THEN From(c, target) .. UpTo(c) - 1 ELSE {}

ObligationsAfter(c, target) ==
  IF Processes(c, target) THEN Max({From(c, target), UpTo(c)}) ELSE m_obligations_height

\* The vote on a worker that is still in the list: check_frame_pix passes it,
\* so only a decommissioned one gets a vote.
GetsVote(c, node, h) ==
  /\ node \in DOMAIN Infos(c)
  /\ can_be_voted_on(Infos(c)[node], h)
  /\ is_decommissioned(Infos(c)[node])

\* The votes of this node for the quorums of heights M.
OwnVotes(c, M) ==
  {v \in UNION {{[height |-> h, index |-> i, state |-> "recommission", voter |-> Me] :
                   i \in DOMAIN Workers(c, h)} : h \in M} : GetsVote(c, Worker(c, v), v.height)}

Precedes(v, w) == v.height < w.height \/ (v.height = w.height /\ v.index < w.index)

\* The votes of V that would make a transaction if handled alone.
Offered(taken, c, V) ==
  {v \in V \ m_obligations_pool : /\ Enough(m_obligations_pool \cup {v}, v)
                                   /\ ~have_duplicated_non_standard_tx(taken, c, v)
                                   /\ check_tx_inputs(c, Change(v))}

\* The pool of transactions after this node has handled its votes in order: they
\* are all to recommission, so the first offer about a node makes the later ones
\* duplicates.
AfterOwnVotes(taken, c, V) ==
  taken \cup {Queued(v) : v \in {w \in Offered(taken, c, V) :
                \A u \in Offered(taken, c, V) : Precedes(u, w) => Worker(c, u) # Worker(c, w)}}

remove_expired_votes(pool, height) ==
  {v \in pool : v.height + VOTE_LIFETIME >= height /\ v.height <= height}

remove_used_votes(pool, x) == {v \in pool : Change(v) # x}

NextBlock(c, x, hash) ==
  [change |-> x,
   state |-> update_from_block(Last(c).state, {c[i].state : i \in DOMAIN c}, {},
               [hash |-> hash, winner |-> get_block_winner(Infos(c)), tx |-> StateTx(c, x)])]

\* handle_block_to_main_chain with the transaction tx of the pool, or none; this
\* node is a validator at some of the heights whose quorums are due.
BlockAdded(tx, target) ==
  LET x == IF tx = NoChange THEN NoChange ELSE Change(tx)
  IN  /\ Len(chain) <= MaxHeight
      /\ Mineable(chain, x)
      /\ \E c \in {Append(chain, NextBlock(chain, x, cuts))} :
           /\ chain' = c
           /\ m_obligations_height' = ObligationsAfter(c, target)
           /\ \E M \in SUBSET {h \in Visited(c, target) \cap QuorumHeights : h < Len(c)} :
                \E V \in {OwnVotes(c, M)} :
                  /\ m_obligations_pool' =
                       remove_used_votes(remove_expired_votes(m_obligations_pool \cup V, Len(c)), x)
                  /\ pool_txs' = on_blockchain_inc(AfterOwnVotes(pool_txs \ {tx}, c, V), c)
                  /\ signed' = signed \cup {[vote |-> v, node |-> Worker(c, v)] : v \in V}
           /\ peak' = Max({peak, Len(c)})
      /\ UNCHANGED <<inflight, cuts, deepest>>

\* Mutant: the next height stays ahead of the chain.
StaysAhead(height) == m_obligations_height

ObligationsAfterDetach(height) ==
  IF m_obligations_height >= height THEN height ELSE m_obligations_height

Kept(x) == [height |-> x.height, index |-> x.index, state |-> x.state, kept_by_block |-> TRUE]

\* Mutant: the miner transactions of the popped blocks return too.
ReturnedAll(height) == {Kept(chain[i].change) : i \in height + 1 .. Len(chain)}

\* The transactions that popped blocks give back to the pool.
Returned(height) ==
  {Kept(x) : x \in {chain[i].change : i \in height + 1 .. Len(chain)} \ {NoChange}}

\* The blocks above a height are popped: their transactions return to the pool,
\* then the quorum cop is told.
BlockchainDetached(height) ==
  /\ cuts < MaxCuts
  /\ height \in LowestHeight .. Len(chain) - 1
  /\ chain' = SubSeq(chain, 1, height)
  /\ m_obligations_height' = ObligationsAfterDetach(height)
  /\ m_obligations_pool' = remove_expired_votes(m_obligations_pool, height)
  /\ pool_txs' = pool_txs \cup Returned(height)
  /\ cuts' = cuts + 1
  /\ deepest' = Max({deepest, peak - height})
  /\ UNCHANGED <<inflight, signed, peak>>

\* The chain and the transaction pool are in the database, the rest is not.
Restart ==
  /\ m_obligations_height' = 0
  /\ m_obligations_pool' = {}
  /\ inflight' = {}
  /\ UNCHANGED <<chain, pool_txs, cuts, signed, peak, deepest>>

Init ==
  /\ chain = FirstChain
  /\ m_obligations_height = 0
  /\ m_obligations_pool = {}
  /\ inflight = {}
  /\ pool_txs = {}
  /\ cuts = 0
  /\ signed = {}
  /\ peak = Len(FirstChain)
  /\ deepest = 0

OwnSigned == {s.vote : s \in signed}

Next ==
  \/ \E v \in Votes \cup OwnSigned : VerifyVote(v)
  \/ \E t \in inflight : AddPoolVoteIfUnique(t)
  \/ \E t \in inflight : HandleObligationsVote(t)
  \/ \E tx \in pool_txs \cup {NoChange}, target \in Targets : BlockAdded(tx, target)
  \/ \E height \in LowestHeight .. MaxHeight : BlockchainDetached(height)
  \/ Restart

Spec == Init /\ [][Next]_vars

----------------------------------------------------------------------------
ChangeType ==
  [height : 0 .. MaxHeight, index : 1 .. Cardinality(FramePix), state : StateChange]

\* The pools hold votes and state changes, threads are in one of their steps, and
\* the list has a state for every block.
TypeOK ==
  /\ Len(chain) \in 1 .. MaxHeight + 1
  /\ \A i \in DOMAIN chain : chain[i].change \in ChangeType \cup {NoChange}
                             /\ chain[i].state.height = i - 1
  /\ m_obligations_height \in 0 .. UINT64_RANGE
  /\ m_obligations_pool \subseteq VoteType
  /\ \A t \in inflight : t.vote \in VoteType /\ t.node \in FramePix /\ t.step \in {"verified", "pooled"}
  /\ \A tx \in pool_txs : Change(tx) \in ChangeType /\ tx.kept_by_block \in BOOLEAN
  /\ \A s \in signed : s.vote \in VoteType /\ s.node \in FramePix
  /\ cuts \in 0 .. MaxCuts /\ peak \in 1 .. MaxHeight + 1 /\ deepest \in 0 .. MaxHeight

\* REORG_SAFETY_BUFFER_BLOCKS: a vote names its node by an index, so on another
\* branch it would count against another node.  Unless the chain was cut more
\* than a block deeper than the buffer, every vote this node has made stands for
\* the node it was made about.
VotesKeepTheirNode ==
  deepest <= REORG_SAFETY_BUFFER_BLOCKS + 1 =>
    \A s \in signed : s.vote.height < Len(chain) /\ Worker(chain, s.vote) = s.node

\* process_quorums and blockchain_detached: the next height whose quorum is
\* looked at is never above the chain, whatever was cut, so no block stays
\* without its quorum once the chain grows again.
ObligationsBehindChain == m_obligations_height <= Len(chain)

\* handle_vote: when no vote is being handled, enough votes for a change that
\* the chain still accepts have put that change into the transaction pool
\* (while no block was popped: a change dropped as impossible does not return
\* with the block that made it so).
EnoughVotesQueued ==
  inflight = {} /\ deepest = 0 =>
    \A v \in m_obligations_pool :
      /\ Cardinality(VotesFor(m_obligations_pool, v)) >= STATE_CHANGE_MIN_VOTES_TO_CHANGE_STATE
      /\ check_tx_inputs(chain, Change(v))
      => have_duplicated_non_standard_tx(pool_txs, chain, Change(v))

\* on_blockchain_inc and can_transition_to_state: state changes do not queue up
\* until they are applicable.  A change that a block makes to a node was voted
\* for at a height above every earlier change of that node; a penalty for a
\* changed address, which leaves the node active, bars only older penalties.
OldChangesNeverApply ==
  \A i, j \in DOMAIN chain :
    LET x == chain[i].change
        y == chain[j].change
    IN  /\ i < j /\ x # NoChange /\ y # NoChange /\ Worker(chain, x) = Worker(chain, y)
        /\ x.state = "ip_change_penalty" => y.state = "ip_change_penalty"
        => y.height > i - 1
=============================================================================
