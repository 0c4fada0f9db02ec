--------------------------- MODULE FramePixState ---------------------------
(***************************************************************************)
(* The state a block leaves behind in the list of frame pixs: state_t and  *)
(* frame_pix_info of frame_pix_list, and how update_from_block computes    *)
(* the next one.  A pure description, without variables: FramePixHistory   *)
(* and FramePixList say which states are kept and where.                   *)
(*                                                                         *)
(* A frame pix is an integer, its key in the order of memcmp.  A stake is  *)
(* a number of contributions, StakingRequirement of them fund a node.  The *)
(* hash of a block is its epoch: no two blocks of one height share it.  A  *)
(* block carries at most one transaction, which names the node it is about *)
(* and, for a state change, how many blocks back its quorum is and the     *)
(* hash of the block whose quorum signed it.  Hard fork 13 or later.       *)
(***************************************************************************)
EXTENDS Integers, Sequences, FiniteSets

CONSTANTS
  FramePix,                         \* the nodes that may register
  StakingRequirement,               \* contributions that fund a node
  LockBlocks,                       \* staking_num_lock_blocks
  VOTE_LIFETIME,                    \* = STATE_CHANGE_TX_LIFETIME_IN_BLOCKS
  BLINK_QUORUM_INTERVAL

ASSUME StateAssumption ==
  /\ FramePix \subseteq Nat \ {0}
  /\ StakingRequirement \in Nat \ {0}
  /\ LockBlocks \in Nat
  /\ VOTE_LIFETIME \in Nat \ {0}
  /\ BLINK_QUORUM_INTERVAL \in Nat \ {0}

KEY_IMAGE_AWAITING_UNLOCK_HEIGHT == 0

null_pkey == 0      \* no winner: get_block_winner of a list without active nodes

UINT32_MAX == 99    \* past every transaction index

StateChange == {"deregister", "decommission", "recommission", "ip_change_penalty"}

NoTx == [kind |-> "none", node |-> null_pkey, back |-> 0, signed |-> 0]

is_fully_funded(info) == info.total_contributed >= StakingRequirement

is_decommissioned(info) == info.active_since_height < 0

is_active(info) == is_fully_funded(info) /\ ~is_decommissioned(info)

active_frame_pixs_infos(infos) == {n \in DOMAIN infos : is_active(infos[n])}

\* is_registration_tx: the entry of a node that has just registered.
NewInfo(h) ==
  [registration_height |-> h, requested_unlock_height |-> KEY_IMAGE_AWAITING_UNLOCK_HEIGHT,
   last_reward |-> <<h, 0>>, active_since_height |-> 0, last_decommission_height |-> 0,
   last_ip_change_height |-> h, total_contributed |-> 0]

Without(infos, N) == [n \in DOMAIN infos \ N |-> infos[n]]

With(infos, n, info) == [m \in DOMAIN infos \cup {n} |-> IF m = n THEN info ELSE infos[m]]

(***************************************************************************)
(* Quorums.  The members are drawn from the nodes with a shuffle seeded by *)
(* the hash: the quorum is known by that hash and by the nodes it may      *)
(* test.  A blink quorum exists at the multiples of its interval.          *)
(***************************************************************************)
generate_quorums(infos, hash, h) ==
  [obligations |-> {n \in DOMAIN infos : is_fully_funded(infos[n])}, hash |-> hash,
   blink |-> h % BLINK_QUORUM_INTERVAL = 0]

NullState ==
  [height |-> 0, block_hash |-> 0, infos |-> << >>, key_image_blacklist |-> {},
   only_loaded_quorums |-> FALSE,
   quorums |-> [obligations |-> {}, hash |-> 0, blink |-> FALSE]]

\* What is kept of a state only for its quorums.
OnlyQuorums(s) ==
  [s EXCEPT !.infos = << >>, !.key_image_blacklist = {}, !.only_loaded_quorums = TRUE]

StateAt(S, h) == CHOOSE s \in S : s.height = h

HasState(S, h) == \E s \in S : s.height = h

\* The quorums of a height among two sets of states, the first one preferred.
Lookup(S, T, h) ==
  IF HasState(S, h) THEN {StateAt(S, h).quorums}
  ELSE IF HasState(T, h) THEN {StateAt(T, h).quorums} ELSE {}

\* verify_tx_state_change with the quorums q: the age of the transaction, the
\* worker it names and the signatures, which are those of the quorum it names.
verify_tx_state_change(tx, q) ==
  /\ tx.back \in 1 .. VOTE_LIFETIME - 1
  /\ tx.node \in q.obligations
  /\ tx.signed = q.hash

can_be_voted_on(info, height) ==
  /\ is_fully_funded(info)
  /\ info.registration_height < height
  /\ is_decommissioned(info) => info.last_decommission_height < height
  /\ is_active(info) => info.active_since_height < height

can_transition_to_state(info, height, new_state) ==
  /\ can_be_voted_on(info, height)
  /\ new_state = "deregister" => height > info.registration_height
  /\ new_state = "ip_change_penalty" => height > info.last_ip_change_height
  /\ IF is_decommissioned(info) THEN new_state \in {"recommission", "deregister"}
                                ELSE new_state # "recommission"

----------------------------------------------------------------------------
(***************************************************************************)
(* One block.                                                              *)
(***************************************************************************)
get_expired_nodes(infos, h) ==
  {n \in DOMAIN infos : /\ infos[n].requested_unlock_height # KEY_IMAGE_AWAITING_UNLOCK_HEIGHT
                        /\ h > infos[n].requested_unlock_height}

Before(a, b) == a[1] < b[1] \/ (a[1] = b[1] /\ a[2] < b[2])

\* The node that waits longest for a reward; equal waits go by the key.
get_block_winner(infos) ==
  LET A == active_frame_pixs_infos(infos)
      Precedes(m, n) == \/ Before(infos[m].last_reward, infos[n].last_reward)
                        \/ infos[m].last_reward = infos[n].last_reward /\ m <= n
  IN  IF A = {} THEN null_pkey ELSE CHOOSE w \in A : \A n \in A : Precedes(w, n)

\* Mutant: the winner keeps the place its registration gave it.
RewardInPlace(infos, w, h) == infos

\* The winner goes to the back of the list, as if registering after every
\* transaction of the block.
Reward(infos, w, h) ==
  IF w \in DOMAIN infos THEN [infos EXCEPT ![w].last_reward = <<h, UINT32_MAX>>] ELSE infos

process_registration_tx(infos, n, h) ==
  IF n \in DOMAIN infos THEN infos ELSE With(infos, n, NewInfo(h))

process_contribution_tx(infos, n, h) ==
  IF n \notin DOMAIN infos \/ is_fully_funded(infos[n]) THEN infos
  ELSE LET more == [infos[n] EXCEPT !.total_contributed = @ + 1, !.last_reward = <<h, 0>>]
       IN  With(infos, n, IF is_fully_funded(more) THEN [more EXCEPT !.active_since_height = h]
                          ELSE more)

process_key_image_unlock_tx(infos, n, h) ==
  IF n \notin DOMAIN infos \/ infos[n].requested_unlock_height # KEY_IMAGE_AWAITING_UNLOCK_HEIGHT
  THEN infos
  ELSE [infos EXCEPT ![n].requested_unlock_height = h + LockBlocks \div 2]

\* The four state changes, each ignored for a node in the wrong state.
ApplyStateChange(infos, n, new_state, h) ==
  CASE new_state = "deregister" -> Without(infos, {n})
    [] new_state = "decommission" /\ ~is_decommissioned(infos[n]) ->
         [infos EXCEPT ![n].active_since_height = -@, ![n].last_decommission_height = h]
    [] new_state = "recommission" /\ is_decommissioned(infos[n]) ->
         [infos EXCEPT ![n].active_since_height = h, ![n].last_reward = <<h, UINT32_MAX>>]
    [] new_state = "ip_change_penalty" /\ ~is_decommissioned(infos[n]) ->
         [infos EXCEPT ![n].last_ip_change_height = h, ![n].last_reward = <<h, UINT32_MAX>>]
    [] OTHER -> infos

\* The quorum that signed must still be known, or the transaction is skipped.
process_state_change_tx(infos, state_history, state_archive, tx, h) ==
  IF \E q \in Lookup(state_history, state_archive, h - tx.back) :
        verify_tx_state_change(tx, q) /\ tx.node \in DOMAIN infos
  THEN ApplyStateChange(infos, tx.node, tx.kind, h)
  ELSE infos

\* The stakes of a deregistered node stay locked; expired entries go first.
Blacklist(s, infos, h) ==
  {e \in s.key_image_blacklist : h < e.unlock_height} \cup
  {[node |-> n, unlock_height |-> h + LockBlocks] :
     n \in {m \in DOMAIN s.infos \ DOMAIN infos : m \notin get_expired_nodes(s.infos, h)}}

\* block = [hash, winner, tx]: the epoch, the winner in the miner transaction.
update_from_block(s, state_history, state_archive, block) ==
  LET h == s.height + 1
      kept == Without(s.infos, get_expired_nodes(s.infos, h))
      paid == Reward(kept, block.winner, h)
      tx == block.tx
      infos == CASE tx.kind = "register" ->
                      process_contribution_tx(process_registration_tx(paid, tx.node, h), tx.node, h)
                 [] tx.kind = "contribute" -> process_contribution_tx(paid, tx.node, h)
                 [] tx.kind = "unlock" -> process_key_image_unlock_tx(paid, tx.node, h)
                 [] tx.kind \in StateChange ->
                      process_state_change_tx(paid, state_history, state_archive, tx, h)
                 [] OTHER -> paid
  IN  [height |-> h, block_hash |-> block.hash, infos |-> infos,
       key_image_blacklist |-> Blacklist(s, infos, h), only_loaded_quorums |-> FALSE,
       quorums |-> generate_quorums(infos, block.hash, h)]
=============================================================================
