---------------------------- MODULE FramePixList ----------------------------
(***************************************************************************)
(* The list of frame pixs as frame_pix_list keeps it: the current state, a *)
(* window of recent states, an archive of the states at long intervals and *)
(* of the quorums just before them, and two records in the database.  The  *)
(* record of recent states is only written when blocks are replayed and at *)
(* shutdown, so after a crash, or after a pop that leaves the window, the  *)
(* list starts from an older state and replays the chain.                  *)
(*                                                                         *)
(* Blocks and both records share one database transaction per batch of     *)
(* blocks: Commit ends it, a crash loses what it holds.  The history       *)
(* variable "states" remembers every state, for the refinement of          *)
(* FramePixHistory.  Alternative states are left out.                      *)
(***************************************************************************)
EXTENDS FramePixState, SequencesExt, FiniteSetsExt

CONSTANTS
  STATE_HISTORY,                    \* DEFAULT_SHORT_TERM_STATE_HISTORY
  STORE_LONG_TERM_STATE_INTERVAL,
  VOTE_OR_TX_VERIFY_HEIGHT_BUFFER,
  FirstTxs,     \* the transactions of the first blocks, in order
  Txs,          \* bound: transactions that later blocks may carry
  MaxHeight,    \* bound: height of the chain
  MaxTxs,       \* bound: blocks with a transaction
  MaxEpoch,     \* bound: pops, restarts and crashes
  PopTo,        \* bound: lengths that a pop may leave, as distances from the end
  AnyPop        \* whether a pop may reach the stored state or thin the window

ASSUME ListAssumption ==
  /\ STORE_LONG_TERM_STATE_INTERVAL > VOTE_LIFETIME + VOTE_OR_TX_VERIFY_HEIGHT_BUFFER
  /\ STATE_HISTORY >= 2 * VOTE_LIFETIME + VOTE_OR_TX_VERIFY_HEIGHT_BUFFER
  /\ VOTE_OR_TX_VERIFY_HEIGHT_BUFFER \in Nat
  /\ AnyPop \in BOOLEAN

VARIABLES
  chain,    \* the main chain: block h is chain[h + 1] = [hash, winner, tx]
  list,     \* m_state, state_history, state_archive and state_added_to_archive
  db,       \* the records of states in the open database transaction
  saved,    \* the committed chain and records, and the states of that chain
  states,   \* history: the state after every block of the chain
  epoch     \* bound: pops, restarts and crashes so far

vars == <<chain, list, db, saved, states, epoch>>

NoRecord == [short |-> {}, long |-> {}]

K == VOTE_LIFETIME + VOTE_OR_TX_VERIFY_HEIGHT_BUFFER

short_term_state_cull_height(h) == IF h < STATE_HISTORY THEN 0 ELSE h - STATE_HISTORY

\* Mutant: the archive is not searched.
GetQuorumOfWindow(L, h) ==
  IF h = L.m_state.height THEN {L.m_state.quorums} ELSE Lookup(L.state_history, {}, h)

get_quorum(L, h) ==
  IF h = L.m_state.height THEN {L.m_state.quorums} ELSE Lookup(L.state_history, L.state_archive, h)

\* States enter a set by height: one of the same height stays.
Emplace(S, T) == S \cup {t \in T : ~HasState(S, t.height)}

(***************************************************************************)
(* process_block: cull the window into the archive, remember the current   *)
(* state, and update it.                                                   *)
(***************************************************************************)
process_block(L, block) ==
  LET h == L.m_state.height + 1
      old == {s \in L.state_history : s.height <= short_term_state_cull_height(h)}
      Next10k(s) == (s.height \div STORE_LONG_TERM_STATE_INTERVAL + 1) * STORE_LONG_TERM_STATE_INTERVAL
      Needed(s) == Next10k(s) - s.height <= K
      kept == {s \in old : s.height % STORE_LONG_TERM_STATE_INTERVAL = 0 \/ Needed(s)}
      archive == Emplace(L.state_archive, {IF Needed(s) THEN OnlyQuorums(s) ELSE s : s \in kept})
      history == Emplace(L.state_history \ old, {L.m_state})
  IN  [m_state |-> update_from_block(L.m_state, history, archive, block),
       state_history |-> history, state_archive |-> archive,
       state_added_to_archive |-> L.state_added_to_archive \/ kept # {}]

reset == [m_state |-> NullState, state_history |-> {}, state_archive |-> {},
          state_added_to_archive |-> FALSE]

(***************************************************************************)
(* The records.  A state is saved whole or with its quorums only; the      *)
(* quorums lose the blink one, and a state saved for its quorums loses its *)
(* hash, which load takes from the chain.                                  *)
(***************************************************************************)
serialize_state(s, only_serialize_quorums) ==
  LET q == [s EXCEPT !.quorums.blink = FALSE]
  IN  IF only_serialize_quorums THEN [OnlyQuorums(q) EXCEPT !.block_hash = 0] ELSE q

\* Mutant: the quorums before the last whole state are not saved.
StoreWholeOnly(L, r) ==
  LET top == short_term_state_cull_height(L.m_state.height - 1) + K
  IN  [short |-> {serialize_state(s, FALSE) : s \in {x \in L.state_history : x.height = top}},
       long |-> r.long]

\* Mutant: the saved state is recent, with few blocks left to replay.
StoreRecent(L, r) ==
  LET top == L.m_state.height - 1
  IN  [short |-> {serialize_state(s, s.height < top) :
                    s \in {x \in L.state_history : x.height <= top}},
       long |-> IF L.state_added_to_archive
                THEN {serialize_state(s, FALSE) : s \in L.state_archive} ELSE r.long]

store(L, r) ==
  LET top == short_term_state_cull_height(L.m_state.height - 1) + K
  IN  [short |-> {serialize_state(s, s.height < top) :
                    s \in {x \in L.state_history : x.height <= top}},
       long |-> IF L.state_added_to_archive
                THEN {serialize_state(s, FALSE) : s \in L.state_archive} ELSE r.long]

LastState(S) == CHOOSE s \in S : \A x \in S : x.height <= s.height

Loadable(r) == r.short # {} /\ ~LastState(r.short).only_loaded_quorums

load(r, c) ==
  LET m == LastState(r.short)
  IN  [m_state |-> m,
       state_history |-> {IF s.block_hash = 0 /\ s.height # 0 THEN [s EXCEPT !.block_hash = c[s.height + 1].hash]
                                              ELSE s : s \in r.short \ {m}},
       state_archive |-> r.long, state_added_to_archive |-> FALSE]

\* init: the records if they load and do not lie past the chain, else none.
init(r, c) ==
  IF Loadable(r) /\ LastState(r.short).height <= Len(c)
  THEN [list |-> load(r, c), db |-> r]
  ELSE [list |-> reset, db |-> NoRecord]

\* Mutant: the last block is not replayed.
ReplaysToLast(x, c) ==
  LET from == x.list.m_state.height + 1
      Replayed[h \in from - 1 .. Len(c) - 2] ==
        IF h = from - 1 THEN x.list ELSE process_block(Replayed[h - 1], c[h + 1])
  IN  IF from > Len(c) - 2 THEN x
      ELSE [list |-> [Replayed[Len(c) - 2] EXCEPT !.state_added_to_archive = FALSE],
            db |-> store(Replayed[Len(c) - 2], x.db)]

\* load_missing_blocks_into_guus_subsystems: replay what the list has not
\* seen, then save the records.
load_missing_blocks(x, c) ==
  LET from == x.list.m_state.height + 1
      Replayed[h \in from - 1 .. Len(c) - 1] ==
        IF h = from - 1 THEN x.list ELSE process_block(Replayed[h - 1], c[h + 1])
  IN  IF from > Len(c) - 1 THEN x
      ELSE [list |-> [Replayed[Len(c) - 1] EXCEPT !.state_added_to_archive = FALSE],
            db |-> store(Replayed[Len(c) - 1], x.db)]

Whole(S, h) == HasState(S, h) /\ ~StateAt(S, h).only_loaded_quorums

\* blockchain_detached: back to a remembered state, else to an archived one,
\* else to the records.
blockchain_detached(L, r, c) ==
  LET revert == Len(c) - 1
      prev_interval == revert - (revert % STORE_LONG_TERM_STATE_INTERVAL)
  IN  CASE Whole(L.state_history, revert) ->
             [list |-> [L EXCEPT !.m_state = StateAt(L.state_history, revert),
                                 !.state_history = {s \in @ : s.height < revert}],
              db |-> r]
        [] ~Whole(L.state_history, revert) /\ Whole(L.state_archive, prev_interval) ->
             [list |-> [L EXCEPT !.m_state = StateAt(L.state_archive, prev_interval),
                                 !.state_history = {},
                                 !.state_archive = {s \in @ : s.height < prev_interval}],
              db |-> r]
        [] OTHER -> init(r, c)

----------------------------------------------------------------------------
NextBlock(c, L, tx) == [hash |-> epoch, winner |-> get_block_winner(L.m_state.infos), tx |-> tx]

Perfect(S, block) == Append(S, update_from_block(Last(S), ToSet(S), {}, block))

FirstBlocks == [i \in 1 .. Len(FirstTxs) + 1 |-> IF i = 1 THEN NoTx ELSE FirstTxs[i - 1]]

\* The list after the first blocks, each paid to the winner of its time.
Start ==
  LET After[i \in 1 .. Len(FirstBlocks)] ==
        IF i = 1 THEN [chain |-> <<[hash |-> 0, winner |-> null_pkey, tx |-> NoTx]>>,
                       list |-> reset, states |-> <<NullState>>]
        ELSE LET p == After[i - 1]
                 b == [hash |-> 0, winner |-> get_block_winner(p.list.m_state.infos),
                       tx |-> FirstBlocks[i]]
             IN  [chain |-> Append(p.chain, b), list |-> process_block(p.list, b),
                  states |-> Perfect(p.states, b)]
  IN  After[Len(FirstBlocks)]

Init ==
  /\ chain = Start.chain /\ list = Start.list /\ states = Start.states
  /\ db = NoRecord
  /\ saved = [chain |-> chain, db |-> db, states |-> states]
  /\ epoch = 0

\* check_tx_inputs of a state change: a known quorum signed it, and the node
\* may change to that state.
Acceptable(tx) ==
  CASE tx.kind \in StateChange ->
         \E q \in get_quorum(list, Len(chain) - tx.back) :
           /\ verify_tx_state_change(tx, q)
           /\ tx.node \in DOMAIN list.m_state.infos
           /\ can_transition_to_state(list.m_state.infos[tx.node], Len(chain) - tx.back, tx.kind)
    [] tx.kind = "unlock" ->
         /\ tx.node \in DOMAIN list.m_state.infos
         /\ list.m_state.infos[tx.node].requested_unlock_height = KEY_IMAGE_AWAITING_UNLOCK_HEIGHT
    [] OTHER -> TRUE

\* The transaction as the quorum of this chain signs it.
Signed(tx) ==
  IF tx.kind \in StateChange /\ tx.back <= Len(chain)
  THEN [tx EXCEPT !.signed = chain[Len(chain) - tx.back + 1].hash] ELSE tx

Carried == Cardinality({i \in DOMAIN chain : chain[i].tx # NoTx})

\* block_added for a block that extends the main chain.
AddBlock(t) ==
  LET tx == Signed(t)
      block == NextBlock(chain, list, tx)
  IN  /\ Len(chain) <= MaxHeight
      /\ t # NoTx => Carried < MaxTxs
      /\ Acceptable(tx)
      /\ chain' = Append(chain, block)
      /\ list' = process_block(list, block)
      /\ states' = Perfect(states, block)
      /\ UNCHANGED <<db, saved, epoch>>

\* A pop after which the saved state may belong to blocks that are gone.
ReachesStored(len) ==
  /\ Loadable(db)
  /\ LET stored == LastState(db.short).height
     IN  len = stored \/ (len < stored /\ Whole(list.state_history, len - 1))

\* A pop that leaves the window, which was culled for the longer chain, with
\* fewer quorums before the next saved state than its blocks may name.
ThinsWindow(len) ==
  /\ Whole(list.state_history, len - 1)
  /\ \E h \in short_term_state_cull_height(len - 2) + VOTE_OR_TX_VERIFY_HEIGHT_BUFFER + 2 .. len - 1 :
        ~HasState(list.state_history \cup list.state_archive, h)

\* pop_blocks, or the pops of a switch: blocks go, the list is detached and
\* replays what it lacks.
Pop(n) ==
  /\ epoch < MaxEpoch
  /\ Len(chain) - n > STATE_HISTORY
  /\ AnyPop \/ ~(ReachesStored(Len(chain) - n) \/ ThinsWindow(Len(chain) - n))
  /\ LET c == SubSeq(chain, 1, Len(chain) - n)
     IN  \E x \in {load_missing_blocks(blockchain_detached(list, db, c), c)} :
           /\ chain' = c /\ list' = x.list /\ db' = x.db
           /\ states' = SubSeq(states, 1, Len(c))
  /\ epoch' = epoch + 1
  /\ UNCHANGED saved

\* batch_stop after the last block of a batch.
Commit ==
  /\ saved' = [chain |-> chain, db |-> db, states |-> states]
  /\ UNCHANGED <<chain, list, db, states, epoch>>

\* A process starts on the committed database.
StartOn(c, r) ==
  \E x \in {load_missing_blocks(init(r, c), c)} :
    /\ chain' = c /\ list' = x.list /\ db' = x.db
    /\ saved' = [chain |-> c, db |-> x.db, states |-> states']
    /\ epoch' = epoch + 1

\* Shutdown saves the records; the next process loads them.
Restart ==
  /\ epoch < MaxEpoch
  /\ states' = states
  /\ StartOn(chain, store(list, db))

Crash ==
  /\ epoch < MaxEpoch
  /\ states' = saved.states
  /\ StartOn(saved.chain, saved.db)

Next ==
  \/ \E t \in Txs \cup {NoTx} : AddBlock(t)
  \/ \E n \in PopTo : Pop(n)
  \/ Commit
  \/ Restart
  \/ Crash

Spec == Init /\ [][Next]_vars

----------------------------------------------------------------------------
InfoType ==
  [registration_height : 0 .. MaxHeight, requested_unlock_height : 0 .. MaxHeight + LockBlocks,
   last_reward : (0 .. MaxHeight) \X {0, UINT32_MAX}, active_since_height : -MaxHeight .. MaxHeight,
   last_decommission_height : 0 .. MaxHeight, last_ip_change_height : 0 .. MaxHeight,
   total_contributed : 0 .. StakingRequirement]

StateType(s) ==
  /\ s.height \in 0 .. MaxHeight + 1
  /\ s.block_hash \in 0 .. MaxEpoch
  /\ DOMAIN s.infos \subseteq FramePix
  /\ \A n \in DOMAIN s.infos : s.infos[n] \in InfoType
  /\ s.quorums.obligations \subseteq FramePix

\* The type of the variables; the states of a set have different heights, and
\* those kept only for their quorums are empty.
TypeOK ==
  LET Sets == {list.state_history, list.state_archive, db.short, db.long, saved.db.short, saved.db.long}
  IN  /\ StateType(list.m_state)
      /\ \A S \in Sets : \A s, t \in S :
            /\ StateType(s)
            /\ s.only_loaded_quorums => s.infos = << >>
            /\ s.height = t.height => s = t
      /\ Len(states) = Len(chain) /\ Len(chain) \in 1 .. MaxHeight + 1
      /\ epoch \in 0 .. MaxEpoch

View(s) == [s EXCEPT !.quorums.blink = FALSE]

\* update_from_block asserts height == block_height: the list is always at the
\* height of the last block of the chain.
ListInStep == list.m_state.height = Len(chain) - 1

\* Whatever was popped, restarted or lost in a crash, every whole state that
\* is remembered, archived or current is the one that the blocks of the main
\* chain lead to, and every quorum kept is the quorum of its block.
StatesAreReplays ==
  /\ View(list.m_state) = View(Last(states))
  /\ \A s \in list.state_history \cup list.state_archive :
        /\ s.height < Len(chain) - 1
        /\ View(s) \in {View(states[s.height + 1]), OnlyQuorums(View(states[s.height + 1]))}

\* The comment of store(): the quorums saved before the last whole state are
\* enough for the states after it, so a process that loads the records finds
\* the quorum of every state change it replays.
StoredQuorumsSuffice ==
  Loadable(saved.db) =>
    \A h \in LastState(saved.db.short).height + 1 .. Len(saved.chain) - 1 :
      saved.chain[h + 1].tx.kind \in StateChange =>
        LET q == h - saved.chain[h + 1].tx.back
        IN  q > LastState(saved.db.short).height \/ HasState(saved.db.short \cup saved.db.long, q)

\* A restarted node finds the blink quorum of every recent height, although
\* no blink quorum is saved: the blocks it replays cover those heights.
BlinkQuorumsReload ==
  [][Restart \/ Crash =>
       \A h \in 1 .. Len(chain') - 1 :
         h % BLINK_QUORUM_INTERVAL = 0 /\ h + VOTE_LIFETIME >= Len(chain') - 1
         => \E q \in get_quorum(list', h) : q.blink]_vars

\* Between two rewards of a node, every other node that was active all the
\* while, and was not sent to the back of the list, is paid: get_block_winner
\* serves the nodes in turn.
RewardsRotate ==
  \A i, j \in 2 .. Len(chain) :
    LET w == chain[i].winner
    IN  i < j /\ w # null_pkey /\ chain[j].winner = w =>
          \A n \in FramePix \ {w} :
            \/ \E k \in i .. j : chain[k].winner = n
            \/ \E k \in i - 1 .. j - 1 :
                  n \notin active_frame_pixs_infos(states[k].infos)
            \/ \E k \in i .. j - 1 : chain[k].tx.node = n

\* What the list shows to the rest of the daemon, as FramePixHistory states it.
H == INSTANCE FramePixHistory WITH
       durable <- [chain |-> saved.chain, states |-> saved.states],
       m_state <- View(list.m_state),
       served <- [h \in {i \in 0 .. Len(chain) - 1 : i + VOTE_LIFETIME >= Len(chain) - 1} |->
                    {[q EXCEPT !.blink = FALSE] : q \in get_quorum(list, h)}]

\* store, load, blockchain_detached and load_missing_blocks: the list keeps the
\* promise of FramePixHistory, the state and the quorums of the recent heights
\* are those of a list that remembers everything.
ImplementsHistory == H!HInit(Start.chain) /\ [][H!HNext]_H!hvars
=============================================================================
