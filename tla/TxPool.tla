------------------------------- MODULE TxPool --------------------------------
(***************************************************************************)
(* The transaction pool, tx_memory_pool, with the callers that change it:  *)
(* core (transactions from peers, from blocks and with blink signatures),  *)
(* the blink quorum, and Blockchain (blocks added, refused and popped, the *)
(* block template and its cache).                                          *)
(*                                                                         *)
(* The pool keeps each transaction in LMDB and three indexes of them in    *)
(* memory: the key images they spend, the list sorted by fee, the total    *)
(* weight.  A batch that is not committed is undone in LMDB only.          *)
(*                                                                         *)
(* Every step holds the locks of the pool and of Blockchain, but for the   *)
(* handler of transactions with blink signatures: it adds them, lets the   *)
(* locks go, and takes them again to roll the chain back.                  *)
(*                                                                         *)
(* Transactions are transfers, well formed, of an acceptable fee.  The     *)
(* weight of a block, its reward and the last height at which a            *)
(* transaction failed only make the template leave transactions out: the   *)
(* ones it considers are any.                                              *)
(***************************************************************************)
EXTENDS Integers, Sequences, SequencesExt, FiniteSets, FiniteSetsExt, Functions

CONSTANTS
  Fees,         \* the transactions, by decreasing fee per byte
  Inputs,       \* the key images each one spends, in order
  Needs,        \* the transactions whose outputs it spends
  Weight,
  Blink,        \* those that get the signatures of a blink quorum
  m_txpool_max_weight,
  Old,          \* bound: those that may stay in the pool for too long
  MaxHeight,    \* bound: height of the chain
  MaxBlock,     \* bound: transactions of a block
  MaxPops       \* bound: blocks popped, but for a blink

Tx == Range(Fees)
Images(t) == Range(Inputs[t])
KeyImages(t) == Images(t) \X {t}
Conflict(t, u) == t # u /\ Images(t) \cap Images(u) # {}

\* A quorum signs no two blinks that conflict (BlinkQuorum).
ASSUME PoolAssumption ==
  /\ IsInjective(Fees)
  /\ \A t \in Tx : Inputs[t] # <<>> /\ IsInjective(Inputs[t])
  /\ Needs \in [Tx -> SUBSET Tx]
  /\ Weight \in [Tx -> Nat]
  /\ Blink \subseteq Tx /\ Old \subseteq Tx
  /\ \A t, u \in Blink : ~Conflict(t, u)

VARIABLES
  chain,       \* the transactions of each block after the first
  immutable,   \* get_immutable_height
  pool,        \* the pool, a record of the type Pool below
  rollback,    \* blink_rollback_height of the handler that let the locks go, or 0
  pops         \* bound: blocks popped

vars == <<chain, immutable, pool, rollback, pops>>

NoTemplate == [cached |-> FALSE, txs |-> {}]

\* txs is in LMDB; the rest is in memory.  template is the cached block template,
\* as long as the cookie of the pool and the top block are those it was made with.
Pool ==
  [txs : UNION {[S -> [kept_by_block : BOOLEAN, do_not_relay : BOOLEAN]] : S \in SUBSET Tx},
   m_spent_key_images : SUBSET UNION {KeyImages(t) : t \in Tx},
   m_txs_by_fee_and_receive_time : SUBSET Tx,
   m_txpool_weight : Int,
   m_blinks : SUBSET Blink,
   m_timed_out_transactions : SUBSET Tx,
   m_input_cache : UNION {[S -> BOOLEAN] : S \in SUBSET Tx},
   template : [cached : BOOLEAN, txs : SUBSET Tx]]

EmptyPool ==
  [txs |-> <<>>, m_spent_key_images |-> {}, m_txs_by_fee_and_receive_time |-> {},
   m_txpool_weight |-> 0, m_blinks |-> {}, m_timed_out_transactions |-> {},
   m_input_cache |-> <<>>, template |-> NoTemplate]

Mined(c) == UNION Range(c)
SpentImages(c) == UNION {Images(t) : t \in Mined(c)}

\* Blockchain::check_tx_inputs, but for the key images spent in a block.
OutputsExist(c, t) == Needs[t] \subseteq Mined(c)

\* Blockchain::check_tx_inputs
ValidInputs(c, t) == OutputsExist(c, t) /\ Images(t) \cap SpentImages(c) = {}

-----------------------------------------------------------------------------
(* The pool's own operations.  ++m_cookie makes the cached template stale.   *)

\* Mutant: the key images of a transaction outlive it.
RemoveKeepsImages(p, t) ==
  [p EXCEPT !.txs = Restrict(p.txs, DOMAIN p.txs \ {t}),
            !.m_txpool_weight = @ - Weight[t],
            !.m_txs_by_fee_and_receive_time = @ \ {t},
            !.template = NoTemplate]

\* remove_tx, and what take_tx and the other removals do
remove_tx(p, t) ==
  [p EXCEPT !.txs = Restrict(p.txs, DOMAIN p.txs \ {t}),
            !.m_txpool_weight = @ - Weight[t],
            !.m_spent_key_images = @ \ KeyImages(t),
            !.m_txs_by_fee_and_receive_time = @ \ {t},
            !.template = NoTemplate]

\* have_tx_keyimges_as_spent: the transactions of the pool that spend each key
\* image, one image after the other, so that one may be listed twice.
have_tx_keyimges_as_spent(p, t) ==
  FlattenSeq([i \in DOMAIN Inputs[t] |->
    SetToSeq({u \in Tx : <<Inputs[t][i], u>> \in p.m_spent_key_images})])

\* remove_blink_conflicts: refuses if one of them is a blink.  A transaction
\* listed twice is not found the second time; the batch is then undone in LMDB.
remove_blink_conflicts(p, t) ==
  LET conflict_txs == have_tx_keyimges_as_spent(p, t)
      again == {i \in DOMAIN conflict_txs : conflict_txs[i] \in Range(SubSeq(conflict_txs, 1, i - 1))}
      upto == IF again = {} THEN Len(conflict_txs) ELSE Min(again) - 1
      removed == FoldSeq(LAMBDA u, q : remove_tx(q, u), p, SubSeq(conflict_txs, 1, upto))
  IN  IF Range(conflict_txs) \cap p.m_blinks # {} THEN [pool |-> p, ok |-> FALSE]
      ELSE IF again = {} THEN [pool |-> removed, ok |-> TRUE]
      ELSE [pool |-> [removed EXCEPT !.txs = p.txs], ok |-> FALSE]

\* Mutant: a conflict does not keep out a transaction of a block, blink or not.
KeepsAnyBlockTx(p, t, opts) ==
  IF have_tx_keyimges_as_spent(p, t) = <<>> \/ opts.kept_by_block THEN [pool |-> p, ok |-> TRUE]
  ELSE IF opts.approved_blink THEN remove_blink_conflicts(p, t)
  ELSE [pool |-> p, ok |-> FALSE]

\* The part of add_tx about conflicts: a transaction that was in a block stays
\* unless it conflicts with a blink, and an approved blink drives the others out.
double_spend(p, t, opts) ==
  LET conflict_txs == have_tx_keyimges_as_spent(p, t)
  IN  IF conflict_txs = <<>> THEN [pool |-> p, ok |-> TRUE]
      ELSE IF opts.kept_by_block
        THEN [pool |-> p, ok |-> (Range(conflict_txs) \ {t}) \cap p.m_blinks = {}]
      ELSE IF opts.approved_blink THEN remove_blink_conflicts(p, t)
      ELSE [pool |-> p, ok |-> FALSE]

\* check_tx_inputs, with the cache of its results, which a transaction of a block
\* does not use.  An approved blink whose key images are all spent in blocks that
\* are not immutable is valid, and asks for a rollback to the first of them.
check_tx_inputs(p, c, imm, t, opts) ==
  LET spent == Images(t) \cap SpentImages(c)
      in == {h \in DOMAIN c : \E u \in c[h] : Images(u) \cap spent # {}}
      fixed == opts.approved_blink /\ \A h \in in : h > imm
      ok == OutputsExist(c, t) /\ (spent = {} \/ fixed)
      height == IF ok /\ spent # {} THEN Min(in) ELSE 0
  IN  IF opts.kept_by_block THEN [pool |-> p, ok |-> ok, rollback |-> 0]
      ELSE IF t \in DOMAIN p.m_input_cache
        THEN [pool |-> p, ok |-> p.m_input_cache[t], rollback |-> 0]
      ELSE [pool |-> [p EXCEPT !.m_input_cache =
                        [u \in DOMAIN @ \cup {t} |-> IF u = t THEN ok ELSE @[u]]],
            ok |-> ok, rollback |-> height]

\* prune: from the lowest fee up, and never the highest, until the weight fits.
prune(p, skip) ==
  LET sorted == SelectSeq(Fees, LAMBDA t : t \in p.m_txs_by_fee_and_receive_time)
      kept(q, t) == q.txs[t].kept_by_block \/ t \in q.m_blinks \/ t = skip
      from[i \in 1 .. Len(sorted)] ==
        \* the pool once the transactions after the i-th were tried
        IF i = Len(sorted) THEN p
        ELSE LET q == from[i + 1]
             IN  IF q.m_txpool_weight <= m_txpool_max_weight \/ kept(q, sorted[i + 1])
                   THEN q ELSE remove_tx(q, sorted[i + 1])
  IN  from[1]

\* insert_key_images
insert_key_images(p, t, opts) ==
  /\ opts.kept_by_block \/ have_tx_keyimges_as_spent(p, t) = <<>>
  /\ KeyImages(t) \cap p.m_spent_key_images = {}

\* Mutant: the pool forgets that the transaction comes from a block.
InsertedAsAny(p, t, opts) ==
  [p EXCEPT !.txs = [u \in DOMAIN @ \cup {t} |->
                       IF u = t THEN [kept_by_block |-> FALSE, do_not_relay |-> opts.do_not_relay]
                       ELSE @[u]],
            !.m_spent_key_images = @ \cup KeyImages(t),
            !.m_txs_by_fee_and_receive_time = @ \cup {t},
            !.m_txpool_weight = @ + Weight[t],
            !.template = NoTemplate]

\* The part of add_tx that adds: its transaction in LMDB is committed.
Inserted(p, t, opts) ==
  [p EXCEPT !.txs = [u \in DOMAIN @ \cup {t} |->
                       IF u = t THEN [kept_by_block |-> opts.kept_by_block,
                                      do_not_relay |-> opts.do_not_relay]
                       ELSE @[u]],
            !.m_spent_key_images = @ \cup KeyImages(t),
            !.m_txs_by_fee_and_receive_time = @ \cup {t},
            !.m_txpool_weight = @ + Weight[t],
            !.template = NoTemplate]

\* add_tx: the pool afterwards, and the rollback an approved blink asks for.
add_tx(p, c, imm, t, opts) ==
  LET first == double_spend(p, t, opts)
      checked == check_tx_inputs(first.pool, c, imm, t, opts)
      q == checked.pool
  IN  IF ~opts.kept_by_block /\ t \in p.m_timed_out_transactions THEN [pool |-> p, rollback |-> 0]
      ELSE IF ~first.ok THEN [pool |-> first.pool, rollback |-> 0]
      ELSE IF ~opts.kept_by_block /\ ~checked.ok THEN [pool |-> q, rollback |-> 0]
      ELSE [pool |-> IF insert_key_images(q, t, opts) THEN prune(Inserted(q, t, opts), t) ELSE q,
            rollback |-> checked.rollback]

from_peer == [kept_by_block |-> FALSE, do_not_relay |-> FALSE, approved_blink |-> FALSE]
from_block == [from_peer EXCEPT !.kept_by_block = TRUE]
new_blink == [from_peer EXCEPT !.do_not_relay = TRUE]
approved_blink == [from_peer EXCEPT !.approved_blink = TRUE]

\* on_blockchain_inc and on_blockchain_dec, with invalidate_block_template_cache
on_blockchain_change(p) == [p EXCEPT !.m_input_cache = <<>>, !.template = NoTemplate]

\* return_tx_to_pool, and the end of pop_block_from_blockchain
return_tx_to_pool(p, c, imm, txs) ==
  FoldSeq(LAMBDA t, q : add_tx(q, c, imm, t, from_block).pool, p, txs)

\* Mutant: the transactions of a popped block come back as those of a peer do.
PopsAsPeer(p, c, imm) ==
  on_blockchain_change(
    FoldSeq(LAMBDA t, q : add_tx(q, Front(c), imm, t, from_peer).pool, p, SetToSeq(Last(c))))

\* pop_block_from_blockchain
pop_block_from_blockchain(p, c, imm) ==
  on_blockchain_change(return_tx_to_pool(p, Front(c), imm, SetToSeq(Last(c))))

\* rollback_blockchain_switching with no chain to go back to
Rolled(p, c, imm, height) ==
  LET back[h \in height - 1 .. Len(c)] ==
        IF h = Len(c) THEN p ELSE pop_block_from_blockchain(back[h + 1], SubSeq(c, 1, h + 1), imm)
  IN  back[height - 1]

-----------------------------------------------------------------------------
(* The callers. *)

Have(t) == t \in DOMAIN pool.txs \/ t \in Mined(chain)

\* core::handle_incoming_txs: a transaction of a peer, or of a block to come
HandleIncomingTx(t, opts) ==
  /\ ~Have(t)
  /\ rollback = 0   \* the handler with a rollback to do holds incoming_tx_lock
  /\ pool' = add_tx(pool, chain, immutable, t, opts).pool
  /\ UNCHANGED <<chain, immutable, rollback, pops>>

\* add_new_blink, when a quorum member verifies a blink it is asked to sign
AddNewBlink(t) ==
  /\ t \notin pool.m_blinks
  /\ pool' = add_tx(pool, chain, immutable, t, new_blink).pool
  /\ UNCHANGED <<chain, immutable, rollback, pops>>

\* process_blink_signatures, when the signatures a member has approve a blink:
\* add_existing_blink and set_relayable
BlinkApproved(t) ==
  /\ t \notin pool.m_blinks
  /\ pool' = [pool EXCEPT
       !.m_blinks = @ \cup {t},
       !.txs = [u \in DOMAIN @ |-> IF u = t THEN [@[u] EXCEPT !.do_not_relay = FALSE] ELSE @[u]]]
  /\ UNCHANGED <<chain, immutable, rollback, pops>>

MinedAt(t) == {h \in DOMAIN chain : t \in chain[h]}

\* handle_notify_new_transactions with the signatures of a blink, up to add_blinks:
\* parse_incoming_blinks wants them unless it has them or the block is immutable.
\* The set of unknown transactions it should return stays empty, so add_blinks
\* adds the signatures whether or not the transaction was taken.
NewBlinkTransaction(t) ==
  LET added == IF Have(t) THEN [pool |-> pool, rollback |-> 0]
               ELSE add_tx(pool, chain, immutable, t, approved_blink)
  IN  /\ rollback = 0
      /\ \A h \in MinedAt(t) : h > immutable
      /\ t \notin pool.m_blinks
      /\ pool' = [added.pool EXCEPT !.m_blinks = @ \cup {t}]
      /\ rollback' = added.rollback
      /\ UNCHANGED <<chain, immutable, pops>>

\* The height to roll back to, once the locks are taken again.
RollbackHeight == Max({rollback, immutable + 1})

\* ... and its end: the blocks from blink_rollback_height on, unless they became
\* immutable or were popped since, are undone.
BlinkRollback ==
  LET height == RollbackHeight
      undo == height <= Len(chain)
  IN  /\ rollback > 0
      /\ pool' = IF undo THEN Rolled(pool, chain, immutable, height) ELSE pool
      /\ chain' = IF undo THEN SubSeq(chain, 1, height - 1) ELSE chain
      /\ rollback' = 0
      /\ UNCHANGED <<immutable, pops>>

\* Why handle_block_to_main_chain stops at the i-th transaction of a block: it is
\* in the chain, not in the pool, or its inputs are not valid.
Missing(p, c, t) == t \in Mined(c) \/ t \notin DOMAIN p.txs
Fails(p, c, txs) == {i \in DOMAIN txs : Missing(p, c, txs[i]) \/ ~ValidInputs(c, txs[i])}
Clash(txs) == \E i, j \in DOMAIN txs : Conflict(txs[i], txs[j])

\* The transactions taken from the pool, then returned if the block is refused:
\* all of them, if db->add_block finds a key image twice.
Taken(p, c, txs) ==
  LET i == Min(Fails(p, c, txs))
  IN  IF Fails(p, c, txs) = {} THEN txs
      ELSE SubSeq(txs, 1, IF Missing(p, c, txs[i]) THEN i - 1 ELSE i)

\* Mutant: the transactions of a block are only read.
NoneTaken(p, txs) == p

\* take_tx for each
AllTaken(p, txs) == FoldSeq(LAMBDA t, q : remove_tx(q, t), p, txs)

\* handle_block_to_main_chain takes the transactions from the pool
BlockAdded(txs) ==
  /\ Len(chain) < MaxHeight
  /\ Fails(pool, chain, txs) = {} /\ ~Clash(txs)
  /\ chain' = Append(chain, Range(txs))
  /\ pool' = on_blockchain_change(AllTaken(pool, txs))
  /\ UNCHANGED <<immutable, rollback, pops>>

\* ... or gives back those it took: they are in the pool as those of a block.
BlockRefused(txs) ==
  /\ Fails(pool, chain, txs) # {} \/ Clash(txs)
  /\ LET taken == Taken(pool, chain, txs)
     IN  pool' = return_tx_to_pool(AllTaken(pool, taken), chain, immutable, taken)
  /\ UNCHANGED <<chain, immutable, rollback, pops>>

\* A reorganisation or pop_blocks
BlockPopped ==
  /\ pops < MaxPops
  /\ Len(chain) > immutable
  /\ pool' = pop_block_from_blockchain(pool, chain, immutable)
  /\ chain' = Front(chain)
  /\ pops' = pops + 1
  /\ UNCHANGED <<immutable, rollback>>

\* A checkpoint is added.
BecomesImmutable(h) ==
  /\ immutable' = h
  /\ UNCHANGED <<chain, pool, rollback, pops>>

\* get_blink_hashes_and_mined_heights forgets the blinks of immutable blocks
CullBlinks ==
  /\ pool' = [pool EXCEPT !.m_blinks = @ \ {t \in Tx : \E h \in MinedAt(t) : h <= immutable}]
  /\ UNCHANGED <<chain, immutable, rollback, pops>>

\* remove_stuck_transactions, when the transaction is old enough
RemoveStuck(t) ==
  /\ t \in DOMAIN pool.txs
  /\ pool' = [remove_tx(pool, t) EXCEPT !.m_timed_out_transactions = @ \cup {t}]
  /\ UNCHANGED <<chain, immutable, rollback, pops>>

\* flush_txes_from_pool
FlushTx(t) ==
  /\ t \in DOMAIN pool.txs
  /\ pool' = remove_tx(pool, t)
  /\ UNCHANGED <<chain, immutable, rollback, pops>>

\* Mutant: without the last look at the key images of the chain.
ReadyByInputs(p, c, t) == check_tx_inputs(p, c, 0, t, from_peer).ok

\* is_transaction_ready_to_go
is_transaction_ready_to_go(p, c, t) ==
  check_tx_inputs(p, c, 0, t, from_peer).ok /\ Images(t) \cap SpentImages(c) = {}

\* fill_block_template for the transactions that its other limits let through,
\* by decreasing fee; create_block_template caches the result.
FillBlockTemplate(considered) ==
  LET sorted == SelectSeq(Fees, LAMBDA t : t \in considered)
      asked == FoldSeq(LAMBDA t, q : check_tx_inputs(q, chain, 0, t, from_peer).pool, pool, sorted)
      ready == SelectSeq(sorted, LAMBDA t : is_transaction_ready_to_go(pool, chain, t))
      taken == FoldLeft(LAMBDA S, t : IF \E u \in S : Conflict(t, u) THEN S ELSE S \cup {t}, {}, ready)
  IN  /\ ~pool.template.cached
      /\ considered \subseteq pool.m_txs_by_fee_and_receive_time \cap DOMAIN pool.txs
      /\ pool' = [asked EXCEPT !.template = [cached |-> TRUE, txs |-> taken]]
      /\ UNCHANGED <<chain, immutable, rollback, pops>>

\* init inserts the key images of the transactions that no block brought before
\* those of the others, and gives up if two of the former conflict.
init_ok(txs) ==
  \A t, u \in DOMAIN txs : Conflict(t, u) => txs[t].kept_by_block \/ txs[u].kept_by_block

\* A restart: init and validate.  Blinks and caches are in memory only.
Restart ==
  LET left == Restrict(pool.txs, DOMAIN pool.txs \ Mined(chain))
  IN  /\ init_ok(pool.txs)
      /\ pool' = [EmptyPool EXCEPT
           !.txs = left,
           !.m_spent_key_images = UNION {KeyImages(t) : t \in DOMAIN left},
           !.m_txs_by_fee_and_receive_time = DOMAIN left,
           !.m_txpool_weight = MapThenSumSet(LAMBDA t : Weight[t], DOMAIN left)]
      /\ rollback' = 0
      /\ UNCHANGED <<chain, immutable, pops>>

Blocks == {txs \in SeqOf(Tx, MaxBlock) : IsInjective(txs)}

Init ==
  /\ chain = <<>> /\ immutable = 0
  /\ pool = EmptyPool
  /\ rollback = 0 /\ pops = 0

Next ==
  \/ \E t \in Tx, opts \in {from_peer, from_block} : HandleIncomingTx(t, opts)
  \/ \E t \in Blink : AddNewBlink(t)
  \/ \E t \in Blink : BlinkApproved(t)
  \/ \E t \in Blink : NewBlinkTransaction(t)
  \/ BlinkRollback
  \/ \E txs \in Blocks : BlockAdded(txs)
  \/ \E txs \in Blocks : BlockRefused(txs)
  \/ BlockPopped
  \/ \E h \in immutable + 1 .. Len(chain) : BecomesImmutable(h)
  \/ CullBlinks
  \/ \E t \in Old : RemoveStuck(t)
  \/ \E t \in Tx : FlushTx(t)
  \/ \E S \in SUBSET pool.m_txs_by_fee_and_receive_time : FillBlockTemplate(S)
  \/ Restart

Spec == Init /\ [][Next]_vars

-----------------------------------------------------------------------------
(* Properties. *)

\* The pool, the chain and the height that a blink rollback waits with are well
\* formed.
TypeOK ==
  /\ chain \in SeqOf(SUBSET Tx, MaxHeight)
  /\ immutable \in 0 .. Len(chain)
  /\ DOMAIN pool.txs \subseteq Tx
  /\ pool \in Pool
  /\ rollback \in 0 .. MaxHeight
  /\ pops \in 0 .. MaxPops

\* What every operation of the pool takes for granted: the indexes in memory are
\* those of the transactions in LMDB.
IndexesInStep ==
  /\ pool.m_spent_key_images = UNION {KeyImages(t) : t \in DOMAIN pool.txs}
  /\ pool.m_txs_by_fee_and_receive_time = DOMAIN pool.txs
  /\ pool.m_txpool_weight = MapThenSumSet(LAMBDA t : Weight[t], DOMAIN pool.txs)

\* init: "first add the not kept by block, then the kept by block, to avoid
\* rejection due to key image collision".  Whatever was added, returned and
\* driven out before, a daemon that stops now can load its pool again.
PoolLoads == init_ok(pool.txs)

\* fill_block_template and the template cache of create_block_template: as long
\* as the cookie of the pool and the top block are the same, the template can be
\* mined: its transactions are in the pool, valid, and do not conflict.
TemplateMineable ==
  pool.template.cached =>
    /\ pool.template.txs \subseteq DOMAIN pool.txs
    /\ \A t \in pool.template.txs : ValidInputs(chain, t)
    /\ \A t, u \in pool.template.txs : ~Conflict(t, u)

\* No transaction is both in the pool and in the chain, through blocks refused,
\* popped and rolled back.
PoolOrChain == DOMAIN pool.txs \cap Mined(chain) = {}

Alone(t, txs, c) == \A u \in Tx : Conflict(t, u) => u \notin DOMAIN txs /\ u \notin Mined(c)

\* add_tx and prune: once an approved blink is in the pool and nothing in the pool
\* or the chain conflicts with it, nothing that does gets in, and only a block,
\* its age or a flush takes it out.
BlinkHolds ==
  [][\A t \in pool.m_blinks \cap DOMAIN pool.txs :
       (Alone(t, pool.txs, chain) /\ t \in pool'.m_blinks) =>
         /\ Alone(t, pool'.txs, chain')
         /\ \/ t \in DOMAIN pool'.txs
            \/ t \in Mined(chain')
            \/ RemoveStuck(t) \/ FlushTx(t)]_vars

\* pop_block_from_blockchain and blink_rollback: a transaction of a block that is
\* undone comes back to the pool, unless it conflicts with an approved blink.
UndoneTxsReturn ==
  [][\A t \in Mined(chain) \ Mined(chain') :
       \/ t \in DOMAIN pool'.txs
       \/ \E u \in pool'.m_blinks \cap DOMAIN pool'.txs : Conflict(t, u)]_vars
=============================================================================
