-------------------------- MODULE CheckpointVoting ---------------------------
(***************************************************************************)
(* Checkpoint voting on one node: the checkpointing half of                *)
(* quorum_cop::process_quorums, quorum_cop::handle_vote with the voting    *)
(* pool, and the order in which the hooks of Blockchain run: quorum_cop    *)
(* before checkpoints (cryptonote_core.cpp hooks the first before          *)
(* Blockchain::init hooks the second).                                     *)
(*                                                                         *)
(* Three kinds of thread touch this state.  The thread that adds or        *)
(* detaches blocks holds the Blockchain lock for its whole step.  A        *)
(* network thread in handle_vote takes the pool's lock to add a vote and   *)
(* copy the votes for the same block, releases it, and only then takes     *)
(* the Blockchain lock to update the checkpoint: three steps, between      *)
(* which anything may happen.  A restart forgets all that is in memory.    *)
(*                                                                         *)
(* The chain runs at hard fork 13 or later.  The checkpointing quorum of   *)
(* every height is Voter; whether this node is in it varies by height.     *)
(* Vote signatures are valid.                                              *)
(***************************************************************************)
EXTENDS CheckpointStore, Sequences

CONSTANTS
  Hash,                    \* block hashes
  Voter,                   \* validators of a checkpointing quorum
  Me,                      \* this node
  VOTE_LIFETIME,
  Target,                  \* target heights reported by peers
  Attached,                \* checkpoints that may come with a synchronised block
  FirstHeight,             \* bound: length of the chain at the start
  LowestHeight,            \* bound: the chain is never detached below it
  MaxHeight,               \* bound: length of the longest chain
  ReceivedHeights,         \* bound: heights of the votes that peers send
  MaxThreads               \* bound: network threads inside handle_vote

\* frame_pix_rules.h: two checkpoints and the blocks before the next one.
REORG_SAFETY_BUFFER_BLOCKS == CHECKPOINT_INTERVAL * 2 + (CHECKPOINT_INTERVAL - 1)

ASSUME VotingAssumption ==
  /\ Me \in Voter
  /\ IsFiniteSet(Voter)
  /\ VOTE_LIFETIME \in Nat
  /\ REORG_SAFETY_BUFFER_BLOCKS < VOTE_LIFETIME   \* the static_assert of frame_pix_rules.h
  /\ CHECKPOINT_QUORUM_SIZE \in Nat /\ Cardinality(Voter) <= CHECKPOINT_QUORUM_SIZE
  /\ CHECKPOINT_MIN_VOTES \in Nat \ {0}
  /\ Target \subseteq Nat
  /\ Attached \subseteq [block_hash : Hash, signatures : (SUBSET Voter) \ {{}}]
  /\ ReceivedHeights \subseteq Nat
  /\ FirstHeight \in Nat \ {0} /\ LowestHeight \in Nat \ {0} /\ MaxHeight \in Nat

VARIABLES
  chain,                        \* hashes of the blocks: block h is chain[h + 1]
  m_last_checkpointed_height,   \* quorum_cop: next height to vote on
  m_checkpoint_pool,            \* voting_pool: votes received or cast
  inflight,                     \* network threads inside handle_vote
  checkpoints,                  \* the checkpoint table
  m_last_cull_height,           \* checkpoints: next height to cull
  signed,                       \* history: votes this node signed since it started
  peak,                         \* history: highest block since it started
  deepest                       \* history: most blocks ever undone below the peak

vars == <<chain, m_last_checkpointed_height, m_checkpoint_pool, inflight,
          checkpoints, m_last_cull_height, signed, peak, deepest>>

Vote == [height : Nat, block_hash : Hash, voter : Voter]
Checkpoint == [block_hash : Hash, signatures : SUBSET Voter]

current_blockchain_height == Len(chain)

\* The pool, the table and the schedule of the quorum cop are well formed: a
\* checkpoint carries a set of voters, and no height has wrapped below zero.
TypeOK ==
  /\ chain \in Seq(Hash)
  /\ m_last_checkpointed_height \in Nat
  /\ m_checkpoint_pool \subseteq Vote
  /\ inflight \subseteq [vote : Vote, step : {"verified", "pooled"}, votes : SUBSET Voter]
  /\ DOMAIN checkpoints \subseteq Nat
  /\ checkpoints \in [DOMAIN checkpoints -> Checkpoint]
  /\ m_last_cull_height \in Nat
  /\ signed \subseteq Vote
  /\ peak \in Nat /\ deepest \in Nat

Init ==
  /\ \E x \in Hash : chain = [i \in 1 .. FirstHeight |-> x]
  /\ m_last_checkpointed_height = 0
  /\ m_checkpoint_pool = {}
  /\ inflight = {}
  /\ checkpoints = [h \in {} |-> 0]
  /\ m_last_cull_height = 0
  /\ signed = {}
  /\ peak = FirstHeight - 1
  /\ deepest = 0

-----------------------------------------------------------------------------
(* The voting pool. *)

\* The voters of the pool entry for (height, block_hash).
VotesFor(pool, height, x) ==
  {v.voter : v \in {w \in pool : w.height = height /\ w.block_hash = x}}

\* remove_expired_votes and cull_votes
remove_expired_votes(pool, height) ==
  {v \in pool : v.height >= Minus(height, VOTE_LIFETIME) /\ v.height <= height}

\* verify_vote_age
verify_vote_age(height) ==
  /\ current_blockchain_height <= height + VOTE_LIFETIME
  /\ height <= current_blockchain_height

\* A checkpointing quorum is defined every CHECKPOINT_INTERVAL blocks.
HasQuorum(height) == height % CHECKPOINT_INTERVAL = 0

-----------------------------------------------------------------------------
(* A network thread in quorum_cop::handle_vote. *)

\* The vote passes the age check, its quorum is found, its signature is valid:
\* a vote of this node is one it signed itself, relayed back to it.
VerifyVote(v) ==
  /\ v.voter = Me => v \in signed
  /\ Cardinality(inflight) < MaxThreads
  /\ verify_vote_age(v.height)
  /\ HasQuorum(v.height)
  /\ inflight' = inflight \cup {[vote |-> v, step |-> "verified", votes |-> {}]}
  /\ UNCHANGED <<chain, m_last_checkpointed_height, m_checkpoint_pool, checkpoints,
                 m_last_cull_height, signed, peak, deepest>>

\* add_pool_vote_if_unique; a vote that is already there ends the call.
AddPoolVoteIfUnique(t) ==
  /\ t.step = "verified"
  /\ m_checkpoint_pool' = m_checkpoint_pool \cup {t.vote}
  /\ inflight' = (inflight \ {t}) \cup
       {[t EXCEPT !.step = "pooled",
                  !.votes = VotesFor(m_checkpoint_pool', t.vote.height, t.vote.block_hash)] :
          u \in {t.vote} \ m_checkpoint_pool}
  /\ UNCHANGED <<chain, m_last_checkpointed_height, checkpoints, m_last_cull_height,
                 signed, peak, deepest>>

HandleCheckpointVote(t) ==
  /\ t.step = "pooled"
  /\ checkpoints' = handle_checkpoint_vote(checkpoints, t.vote.height, t.vote.block_hash, t.votes)
  /\ inflight' = inflight \ {t}
  /\ UNCHANGED <<chain, m_last_checkpointed_height, m_checkpoint_pool, m_last_cull_height,
                 signed, peak, deepest>>

-----------------------------------------------------------------------------
(* quorum_cop::process_quorums, the checkpointing case, for the block at     *)
(* "height".                                                                 *)

latest_height(height, target) == MaxOf(height + 1, target)

\* The two early returns: a chain or a block too far from the latest height.
Processes(height, target) ==
  /\ latest_height(height, target) >= VOTE_LIFETIME
  /\ height >= latest_height(height, target) - VOTE_LIFETIME

VoteFrom(height, target) ==
  MaxOf(RoundUp(latest_height(height, target) - VOTE_LIFETIME), m_last_checkpointed_height)

\* The heights the loop visits that have a quorum, past the first blocks of the
\* chain; the node votes on those whose quorum it is a member of.
Due(height, target) ==
  {h \in Visited(VoteFrom(height, target), height + 1) :
     h >= REORG_SAFETY_BUFFER_BLOCKS /\ HasQuorum(h)}

\* handle_vote for the node's own votes, one after the other.
CheckpointsAfterVotes(db, votes, pool) ==
  LET at == {v.height : v \in votes}
      hashAt(h) == (CHOOSE v \in votes : v.height = h).block_hash
      handled(h) == handle_checkpoint_vote(db, h, hashAt(h), VotesFor(pool, h, hashAt(h)))
      stored == {h \in at : h \in DOMAIN handled(h)}
  IN  [h \in DOMAIN db \cup stored |-> IF h \in at THEN handled(h)[h] ELSE db[h]]

\* add_new_block drops a checkpoint with fewer signatures than the stored one.
KeptCheckpoint(given, height) ==
  {c \in given : height \notin DOMAIN checkpoints \/
     Cardinality(c.signatures) >= Cardinality(checkpoints[height].signatures)}

\* handle_block_to_main_chain refuses a block that contradicts a checkpoint.
PassesCheckpoint(height, x) ==
  height \in DOMAIN checkpoints => checkpoints[height].block_hash = x

\* A block is added to the main chain: the hook of quorum_cop (process_quorums,
\* then remove_expired_votes), then the hook of checkpoints.  The node is an
\* active frame if "enabled", and in the quorums of the heights in "member".
BlockAdded(x, target, enabled, member, given) ==
  LET height == Len(chain)
      voting == enabled /\ Processes(height, target)
      mine == {[height |-> h, block_hash |-> Append(chain, x)[h + 1], voter |-> Me] :
                 h \in IF voting THEN Due(height, target) \cap member ELSE {}}
      pool == m_checkpoint_pool \cup mine
      voted == CheckpointsAfterVotes(checkpoints, mine \ m_checkpoint_pool, pool)
  IN  /\ height < MaxHeight
      /\ PassesCheckpoint(height, x)
      /\ given # {} => HasQuorum(height)
      /\ chain' = Append(chain, x)
      /\ m_last_checkpointed_height' =
           IF voting THEN LoopEnd(VoteFrom(height, target), height + 1)
                     ELSE m_last_checkpointed_height
      /\ m_checkpoint_pool' = remove_expired_votes(pool, height + 1)
      /\ checkpoints' = checkpoints_block_added(voted, height, m_last_cull_height,
                                                KeptCheckpoint(given, height))
      /\ m_last_cull_height' = last_cull_height_after(voted, height, m_last_cull_height)
      /\ signed' = signed \cup mine
      /\ peak' = MaxOf(peak, height)
      /\ UNCHANGED <<inflight, deepest>>

\* Mutants of the next definition: the height is moved back without the safety
\* buffer; it is never moved back; it is moved to the oldest height a vote may
\* have, without regard for the start of the chain.
MovedBackWithoutBuffer(height) ==
  IF m_last_checkpointed_height >= height
    THEN height - (height % CHECKPOINT_INTERVAL)
    ELSE m_last_checkpointed_height

NeverMovedBack(height) == m_last_checkpointed_height

MovedBackByLifetime(height) == height - VOTE_LIFETIME

\* quorum_cop::blockchain_detached: the next height to vote on is left ahead of
\* the chain unless it is REORG_SAFETY_BUFFER_BLOCKS or more above the cut.
LastCheckpointedAfterDetach(height) ==
  IF m_last_checkpointed_height >= height + REORG_SAFETY_BUFFER_BLOCKS
    THEN height - (height % CHECKPOINT_INTERVAL)
    ELSE m_last_checkpointed_height

\* The blocks from "height" on are removed, by a reorganisation or pop_blocks.
BlockchainDetached(height) ==
  /\ chain' = SubSeq(chain, 1, height)
  /\ m_last_checkpointed_height' = LastCheckpointedAfterDetach(height)
  /\ m_checkpoint_pool' = remove_expired_votes(m_checkpoint_pool, height)
  /\ checkpoints' = checkpoints_blockchain_detached(checkpoints, height)
  /\ m_last_cull_height' = MinOf(m_last_cull_height, height)
  /\ deepest' = MaxOf(deepest, peak + 1 - height)
  /\ UNCHANGED <<inflight, signed, peak>>

\* The daemon stops and starts again: quorum_cop::init, checkpoints::init, an
\* empty pool; the chain and the checkpoint table are on disk.
Restart ==
  /\ m_last_checkpointed_height' = 0
  /\ m_checkpoint_pool' = {}
  /\ inflight' = {}
  /\ m_last_cull_height' = 0
  /\ signed' = {}
  /\ peak' = Len(chain) - 1
  /\ deepest' = 0
  /\ UNCHANGED <<chain, checkpoints>>

Next ==
  \/ \E v \in [height : ReceivedHeights, block_hash : Hash, voter : Voter] : VerifyVote(v)
  \/ \E t \in inflight : AddPoolVoteIfUnique(t)
  \/ \E t \in inflight : HandleCheckpointVote(t)
  \/ \E x \in Hash, target \in Target, enabled \in BOOLEAN,
        given \in {{}} \cup {{c} : c \in Attached} :
       \E member \in SUBSET Due(Len(chain), target) :
         BlockAdded(x, target, enabled, member, given)
  \/ \E height \in LowestHeight .. Len(chain) - 1 : BlockchainDetached(height)
  \/ Restart

Spec == Init /\ [][Next]_vars

-----------------------------------------------------------------------------
(* Properties. *)

\* process_quorums and blockchain_detached: since it started, the node has not
\* signed two blocks of one height, unless at some point the chain was cut
\* REORG_SAFETY_BUFFER_BLOCKS - CHECKPOINT_INTERVAL + 1 blocks or more below
\* the highest block it had seen.  Successive shallow cuts add up.
NoDoubleSign ==
  deepest <= REORG_SAFETY_BUFFER_BLOCKS - CHECKPOINT_INTERVAL =>
    \A v, w \in signed : v.height = w.height => v.block_hash = w.block_hash

\* blockchain_detached leaves m_last_checkpointed_height ahead of the chain on
\* purpose, but never so far, nor off the checkpoint heights, that the node
\* would stop voting: it votes again within REORG_SAFETY_BUFFER_BLOCKS blocks.
VotingNeverStalls ==
  /\ m_last_checkpointed_height < Len(chain) + REORG_SAFETY_BUFFER_BLOCKS
  /\ m_last_checkpointed_height % CHECKPOINT_INTERVAL = 0

\* handle_checkpoint_vote: threads that update the checkpoint of one block from
\* copies of the pool taken earlier, in any order, never remove a signature.
VotesNeverShrink ==
  [][chain' = chain =>
       \A h \in DOMAIN checkpoints \cap DOMAIN checkpoints' :
         checkpoints[h].block_hash = checkpoints'[h].block_hash =>
           checkpoints[h].signatures \subseteq checkpoints'[h].signatures]_vars

\* handle_vote: once no thread is inside it, a stored checkpoint has the votes of
\* every voter the pool holds for the same block, in whatever order the threads
\* took their copies and the Blockchain lock.  It is about the votes for one block:
\* a popped block takes its checkpoint with it and leaves the pool, a checkpoint of
\* another block replaces it, and the checkpoint that comes with a block may
\* overwrite votes (Attached).
HandledVotesStored ==
  inflight = {} =>
    \A h \in DOMAIN checkpoints :
      VotesFor(m_checkpoint_pool, h, checkpoints[h].block_hash) \subseteq checkpoints[h].signatures

\* get_immutable_checkpoint: while blocks are only added, neither a vote, nor a
\* checkpoint that comes with a block, nor the cull lowers the height below
\* which the chain is final.
ImmutableNeverDrops ==
  [][Len(chain') >= Len(chain) =>
       get_immutable_checkpoint(checkpoints', Len(chain')) >=
         get_immutable_checkpoint(checkpoints, Len(chain))]_vars
-----------------------------------------------------------------------------
(* What a comment of the code says, which the code does not keep. *)

\* frame_pix_rules.h: "Checkpoint every 4 blocks and prune when too old except
\* if (height % CHECKPOINT_STORE_PERSISTENTLY_INTERVAL == 0)".  After a block
\* is added and the cull has run, nothing else is left below the height the
\* cull has reached.
OldCheckpointsPruned ==
  [][(Len(chain') > Len(chain) /\ Culls(Len(chain))) =>
       \A h \in DOMAIN checkpoints' :
         \/ h >= m_last_cull_height'
         \/ h % CHECKPOINT_STORE_PERSISTENTLY_INTERVAL = 0]_vars
=============================================================================
