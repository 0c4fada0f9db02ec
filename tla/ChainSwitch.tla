----------------------------- MODULE ChainSwitch -----------------------------
(***************************************************************************)
(* The choice of the main chain: Blockchain::add_new_block with            *)
(* handle_block_to_main_chain, handle_alternative_block, build_alt_chain,  *)
(* switch_to_alternative_blockchain and rollback_blockchain_switching, the *)
(* checkpoints they consult and the hooks of checkpoints they run, the     *)
(* checkpoints that votes form meanwhile, and what cuts the chain from     *)
(* outside: pop_blocks, the rollback for a blink, a restart.               *)
(*                                                                         *)
(* A handler runs under the Blockchain lock from beginning to end, so it   *)
(* is one action, except that a switch pushes the blocks it disconnected   *)
(* back as alternative blocks, each of which may switch the chain again:   *)
(* the calls in progress are the stack "calls", one action handles one     *)
(* such block, and nothing else runs until the stack is empty.             *)
(*                                                                         *)
(* The chain runs at hard fork 13 or later.  A block has its parent, its   *)
(* height, the difficulty it adds and the outcome of its validation;       *)
(* timestamps, proof of work and miner transactions are valid.             *)
(***************************************************************************)
EXTENDS CheckpointStore, Integers, Sequences

CONSTANTS
  Block,         \* the blocks that exist
  Parent,        \* Parent[b]: prev_id, a block of the tree or of the first chain
  Height,        \* Height[b]: the height in the miner transaction
  Difficulty,    \* Difficulty[b]: current_diff of the block
  BadInputs,     \* blocks whose transactions fail check_tx_inputs on the main chain
  HookFails,     \* blocks that alt_block_added refuses
  FirstChain,    \* the chain at the start
  Voter,         \* validators of the checkpointing quorums
  Hardcoded,     \* checkpoints of the program, a function from heights to blocks
  VotedHeights,  \* bound: heights of the checkpoints formed from votes
  Attached,      \* signatures of the checkpoints that come with blocks
  MaxPops,       \* bound: blocks removed by one pop_blocks
  BlinkHeights,  \* bound: heights of transactions in conflict with approved blinks
  MaxRestarts    \* bound: restarts

ASSUME TreeAssumption ==
  /\ Range(FirstChain) \subseteq Block \ BadInputs
  /\ FirstChain \in Seq(Block) \ {<<>>}
  /\ \A b \in Block : Height[b] \in Nat
  /\ \A b \in Block \ Range(FirstChain) : Parent[b] \in Block /\ Height[b] = Height[Parent[b]] + 1
  /\ \A i \in DOMAIN FirstChain : Height[FirstChain[i]] = i - 1
  /\ \A i \in 2 .. Len(FirstChain) : Parent[FirstChain[i]] = FirstChain[i - 1]
  /\ \A b \in Block : Difficulty[b] \in Nat

ASSUME CheckpointAssumption ==
  /\ VotedHeights \subseteq Nat /\ \A h \in VotedHeights : h % CHECKPOINT_INTERVAL = 0
  /\ CHECKPOINT_MIN_VOTES \in Nat \ {0}
  /\ Attached \subseteq SUBSET Voter
  /\ IsFiniteSet(DOMAIN Hardcoded) /\ DOMAIN Hardcoded \subseteq Nat
  /\ \A h \in DOMAIN Hardcoded : Hardcoded[h] \in Block
  /\ BlinkHeights \subseteq Nat /\ MaxPops \in Nat /\ MaxRestarts \in Nat

VARIABLES
  chain,               \* the main chain: block h is chain[h + 1]
  alt_blocks,          \* alternative blocks, each with the set of its checkpoint, if any
  m_invalid_blocks,
  checkpoints,         \* the checkpoint table
  m_last_cull_height,
  m_immutable_height,
  calls,               \* switches in progress: [old |-> blocks to push, alt |-> blocks to remove]
  thrown,              \* history: a database call threw
  panicked,            \* history: the original chain could not be restored
  locked,              \* history: the blocks reported as not reorganisable
  restarts             \* bound: restarts so far

vars == <<chain, alt_blocks, m_invalid_blocks, checkpoints, m_last_cull_height,
          m_immutable_height, calls, thrown, panicked, locked, restarts>>

EmptyTable == [x \in {} |-> {}]

Last(s) == s[Len(s)]

\* The state a handler works on.
Now == [chain |-> chain, alt |-> alt_blocks, invalid |-> m_invalid_blocks, db |-> checkpoints,
        cull |-> m_last_cull_height, immutable |-> m_immutable_height, calls |-> calls,
        thrown |-> thrown, panicked |-> panicked]

-----------------------------------------------------------------------------
(* Lookups. *)

cumulative_difficulty[b \in Block] ==
  IF b \in Range(FirstChain) THEN Height[b] ELSE cumulative_difficulty[Parent[b]] + Difficulty[b]

InMain(s, b) == b \in Range(s.chain)

\* The stored checkpoint of a height, as a set of at most one.
get_checkpoint(db, height) == IF height \in DOMAIN db THEN {db[height]} ELSE {}

\* checkpoints::check_block
check_block(db, height, b) == \A c \in get_checkpoint(db, height) : c.block_hash = b

\* The immutable height that is_alternative_block_allowed computes: none while
\* the chain is shorter than the first checkpoint.
ImmutableHeight(s) ==
  IF DOMAIN s.db = {} \/ Len(s.chain) < Min(DOMAIN s.db) THEN s.immutable
  ELSE MaxOf(get_immutable_checkpoint(s.db, Len(s.chain)), s.immutable)

\* Mutant: the immutable block itself may be replaced.
AllowedAtImmutable(s, height) ==
  /\ height # 0
  /\ \/ DOMAIN s.db = {} \/ Len(s.chain) < Min(DOMAIN s.db)
     \/ height >= ImmutableHeight(s)

\* checkpoints::is_alternative_block_allowed, with the height it has stored.
is_alternative_block_allowed(s, height) ==
  /\ height # 0
  /\ \/ DOMAIN s.db = {} \/ Len(s.chain) < Min(DOMAIN s.db)
     \/ height > ImmutableHeight(s)

-----------------------------------------------------------------------------
(* The main chain. *)

\* An added block runs the hook of checkpoints.
Connected(s, b, given) ==
  LET height == Len(s.chain)
  IN  [s EXCEPT !.chain = Append(@, b),
                !.db = checkpoints_block_added(@, height, s.cull, given),
                !.cull = last_cull_height_after(s.db, height, @)]

\* handle_block_to_main_chain: [ok, s].  Blocks with bad inputs are remembered.
handle_block_to_main_chain(s, b, given) ==
  IF Parent[b] # Last(s.chain) \/ ~check_block(s.db, Len(s.chain), b)
    THEN [ok |-> FALSE, s |-> s]
  ELSE IF b \in BadInputs
    THEN [ok |-> FALSE, s |-> [s EXCEPT !.invalid = @ \cup {b}]]
  ELSE [ok |-> TRUE, s |-> Connected(s, b, given)]

\* The blocks of a list one after the other until one fails; "done" are added.
ConnectAll(s, list) ==
  LET upTo[i \in 0 .. Len(list)] ==
        IF i = 0 THEN [ok |-> TRUE, s |-> s, done |-> 0]
        ELSE LET r == upTo[i - 1]
                 t == handle_block_to_main_chain(r.s, list[i].block, list[i].given)
             IN  IF ~r.ok THEN r
                 ELSE [ok |-> t.ok, s |-> t.s, done |-> IF t.ok THEN i ELSE r.done]
  IN  upTo[Len(list)]

\* pop_block_from_blockchain down to "height" and the detached hook of checkpoints.
Detach(s, height) ==
  [s EXCEPT !.chain = SubSeq(@, 1, height),
            !.db = checkpoints_blockchain_detached(@, height),
            !.cull = MinOf(@, height)]

\* Mutants: the hooks are not run; nothing is rolled back.
RollbackWithoutHooks(s, original, height) ==
  LET r == ConnectAll([s EXCEPT !.chain = SubSeq(@, 1, height)], original)
  IN  [r.s EXCEPT !.panicked = @ \/ ~r.ok]

RollbackSkipped(s, original, height) == s

\* rollback_blockchain_switching
rollback_blockchain_switching(s, original, height) ==
  IF height > Len(s.chain) THEN s
  ELSE LET r == ConnectAll(Detach(s, height), original)
       IN  [r.s EXCEPT !.panicked = @ \/ ~r.ok]

-----------------------------------------------------------------------------
(* Switching. *)

\* remove_alt_block for one block: an absent one throws.
remove_alt_block(s, b) ==
  IF b \in DOMAIN s.alt THEN [s EXCEPT !.alt = Restrict(@, DOMAIN @ \ {b})]
  ELSE [s EXCEPT !.thrown = TRUE]

\* Mutant: the last block is left.
RemoveAllButLast(s, list) ==
  [s EXCEPT !.alt = Restrict(@, DOMAIN @ \ {list[i] : i \in 1 .. Len(list) - 1})]

\* Removal of a list of blocks; the first absent one ends it.
RemoveAll(s, list) ==
  LET absent == {i \in DOMAIN list : list[i] \notin DOMAIN s.alt}
      gone == {list[i] : i \in {j \in DOMAIN list : \A k \in absent : j < k}}
  IN  [s EXCEPT !.alt = Restrict(@, DOMAIN @ \ gone), !.thrown = @ \/ absent # {}]

\* The failed switch: the original chain comes back, the failed block is marked
\* invalid and removed, the block after it is marked and then the failed block is
\* removed again, which throws.
SwitchFailed(s, alt_chain, done, original, split) ==
  LET failed == alt_chain[done + 1].block
      back == rollback_blockchain_switching(s, original, split)
      marked == remove_alt_block([back EXCEPT !.invalid = @ \cup {failed}], failed)
  IN  IF done + 1 = Len(alt_chain) THEN marked
      ELSE remove_alt_block([marked EXCEPT !.invalid = @ \cup {alt_chain[done + 2].block}], failed)

\* switch_to_alternative_blockchain up to the pushing of the old chain.
switch_to_alternative_blockchain(s, alt_chain, keep) ==
  LET split == Height[alt_chain[1].block]
      original == [i \in 1 .. Len(s.chain) - split |->
                     [block |-> s.chain[split + i],
                      given |-> get_checkpoint(s.db, split + i - 1)]]
      r == ConnectAll(Detach(s, split), alt_chain)
  IN  IF ~r.ok THEN SwitchFailed(r.s, alt_chain, r.done, original, split)
      ELSE [r.s EXCEPT !.calls =
              <<[old |-> IF keep THEN original ELSE <<>>,
                 alt |-> [i \in DOMAIN alt_chain |-> alt_chain[i].block]]>> \o @]

\* build_alt_chain: the alternative blocks that lead to "b", first to last.
AltChain(s, b) ==
  LET to[x \in Block] == IF x \in DOMAIN s.alt THEN Append(to[Parent[x]], x) ELSE <<>>
  IN  to[b]

\* Each with its own checkpoint, or the stored one when that is for this block.
AltEntry(s, b) ==
  [block |-> b,
   given |-> IF s.alt[b] # {} THEN s.alt[b]
             ELSE {c \in get_checkpoint(s.db, Height[b]) : c.block_hash = b}]

\* build_alt_chain's tests of a non-empty chain.
Connects(s, front) ==
  /\ Len(s.chain) >= Height[front]
  /\ Parent[front] = s.chain[Height[front]]
  /\ is_alternative_block_allowed(s, Height[front])

\* Mutants: heights are compared, not work; any alternative chain is taken.
DecideByHeight(s, b, given, alt_chain) ==
  IF Height[b] >= Len(s.chain)
    THEN switch_to_alternative_blockchain(s, Append(alt_chain, [block |-> b, given |-> given]), TRUE)
    ELSE s

DecideAlways(s, b, given, alt_chain) ==
  switch_to_alternative_blockchain(s, Append(alt_chain, [block |-> b, given |-> given]), FALSE)

\* The rest of handle_alternative_block, once the block is stored: the count of
\* checkpoints and the cumulative difficulty decide.
Decide(s, b, given, alt_chain) ==
  LET entries == Append(alt_chain, [block |-> b, given |-> given])
      num_checkpoints_on_alt_chain == Cardinality({i \in DOMAIN entries : entries[i].given # {}})
      num_checkpoints_on_chain ==
        Cardinality({i \in DOMAIN entries :
                       ~check_block(s.db, Height[entries[i].block], entries[i].block)})
      more == num_checkpoints_on_alt_chain > num_checkpoints_on_chain
      greater == cumulative_difficulty[b] > cumulative_difficulty[Last(s.chain)]
  IN  IF \/ given = {} /\ \E c \in get_checkpoint(s.db, Height[b]) :
                            c.block_hash # b /\ ~IsFramePix(c)
         \/ b \in HookFails
        THEN s
      ELSE IF more \/ (greater /\ num_checkpoints_on_alt_chain = num_checkpoints_on_chain)
        THEN switch_to_alternative_blockchain(s, entries, ~more)
      ELSE s

\* handle_alternative_block
handle_alternative_block(s0, b, given) ==
  LET s == [s0 EXCEPT !.immutable = ImmutableHeight(s0)]
      list == AltChain(s, Parent[b])
      entries == [i \in DOMAIN list |-> AltEntry(s, list[i])]
      stored == [s EXCEPT !.alt = [x \in DOMAIN @ \cup {b} |-> IF x = b THEN given ELSE @[x]]]
  IN  IF ~is_alternative_block_allowed(s0, Height[b]) THEN s
      ELSE IF list = <<>> /\ ~InMain(s, Parent[b]) THEN s
      ELSE IF list # <<>> /\ Len(s.chain) < Height[list[1]] THEN [s EXCEPT !.thrown = TRUE]
      ELSE IF list # <<>> /\ ~Connects(s, list[1]) THEN RemoveAll(s, list)
      ELSE IF b \in DOMAIN s.alt THEN s
      ELSE Decide(stored, b, given, entries)

-----------------------------------------------------------------------------
(* Actions. *)

\* What get_info reports as the highest block that can not be reorganised.
Reported(s) ==
  SubSeq(s.chain, 1, MinOf(Len(s.chain), get_immutable_checkpoint(s.db, Len(s.chain) - 1) + 1))

LongerOf(p, q) == IF Len(p) >= Len(q) THEN p ELSE q

\* The state the handler leaves; an exception ends every call in progress.
Leave(result) ==
  \E s \in {result} :
    /\ chain' = s.chain
    /\ alt_blocks' = s.alt
    /\ m_invalid_blocks' = s.invalid
    /\ checkpoints' = s.db
    /\ m_last_cull_height' = s.cull
    /\ m_immutable_height' = s.immutable
    /\ calls' = IF s.thrown THEN <<>> ELSE s.calls
    /\ thrown' = s.thrown
    /\ panicked' = s.panicked

\* Blocks above the reported ones may go, reported ones are remembered.
Report == locked' = IF calls' = <<>> THEN LongerOf(locked, Reported(Now)') ELSE locked

have_block(b) == InMain(Now, b) \/ b \in DOMAIN alt_blocks \/ b \in m_invalid_blocks

\* add_new_block drops a checkpoint with fewer signatures than the stored one.
KeptCheckpoint(b, given) ==
  {c \in given : \A e \in get_checkpoint(checkpoints, Height[b]) :
                   Cardinality(c.signatures) >= Cardinality(e.signatures)}

\* add_new_block; a checkpoint comes with blocks at checkpoint heights only.
AddNewBlock(b, signatures) ==
  LET given == KeptCheckpoint(b, {[block_hash |-> b, signatures |-> g] : g \in signatures})
      now == [Now EXCEPT !.thrown = FALSE]
  IN  /\ calls = <<>>
      /\ ~have_block(b)
      /\ signatures # {} => Height[b] % CHECKPOINT_INTERVAL = 0
      /\ Leave(IF Parent[b] = Last(chain)
                 THEN handle_block_to_main_chain(now, b, given).s
                 ELSE handle_alternative_block(now, b, given))
      /\ Report
      /\ UNCHANGED restarts

\* Mutant: a pushed block stays in the list.
PushOldBlockAgain ==
  LET entry == Head(Head(calls).old)
  IN  /\ calls # <<>> /\ Head(calls).old # <<>>
      /\ Leave(handle_alternative_block(Now, entry.block, entry.given))
      /\ Report
      /\ UNCHANGED restarts

\* One block of the old chain is pushed by the switch on top of the stack.
PushOldBlock ==
  LET top == Head(calls)
      entry == Head(top.old)
      rest == <<[top EXCEPT !.old = Tail(@)]>> \o Tail(calls)
  IN  /\ calls # <<>> /\ top.old # <<>>
      /\ Leave(handle_alternative_block([Now EXCEPT !.calls = rest], entry.block, entry.given))
      /\ Report
      /\ UNCHANGED restarts

\* All are pushed: the entries of the alternative chain are removed.
FinishSwitch ==
  /\ calls # <<>> /\ Head(calls).old = <<>>
  /\ Leave(RemoveAll([Now EXCEPT !.calls = Tail(@)], Head(calls).alt))
  /\ Report
  /\ UNCHANGED restarts

\* handle_checkpoint_vote with the votes the pool holds for block b; a vote may
\* be one block ahead of the chain.
UpdateCheckpoint(b, votes) ==
  /\ calls = <<>>
  /\ Height[b] \in VotedHeights
  /\ Height[b] <= Len(chain)
  /\ Leave([Now EXCEPT !.db = handle_checkpoint_vote(@, Height[b], b, votes), !.thrown = FALSE])
  /\ Report
  /\ UNCHANGED restarts

\* pop_blocks
PopBlocks(n) ==
  /\ calls = <<>>
  /\ Leave(Detach([Now EXCEPT !.thrown = FALSE], Len(chain) - MinOf(n, Len(chain) - 1)))
  /\ locked' = Reported(Now)'
  /\ UNCHANGED restarts

\* handle_notify_new_transactions after an approved blink conflicts with a mined
\* transaction: blink_rollback to its block, but not below the immutable height.
BlinkRollback(height) ==
  LET cut == MaxOf(height, get_immutable_checkpoint(checkpoints, Len(chain)) + 1)
  IN  /\ calls = <<>>
      /\ cut < Len(chain)
      /\ Leave(rollback_blockchain_switching([Now EXCEPT !.thrown = FALSE], <<>>, cut))
      /\ Report
      /\ UNCHANGED restarts

\* checkpoints::init adds the checkpoints of the program that the table lacks;
\* one that contradicts the table stops the program.
WithHardcoded(db) ==
  [h \in DOMAIN db \cup DOMAIN Hardcoded |->
     IF h \in DOMAIN db THEN db[h] ELSE [block_hash |-> Hardcoded[h], signatures |-> {}]]

\* The daemon stops and starts again: alternative blocks are dropped unless it
\* was told to keep them.
Restart(keep) ==
  /\ calls = <<>>
  /\ restarts < MaxRestarts
  /\ \A h \in DOMAIN Hardcoded : check_block(checkpoints, h, Hardcoded[h])
  /\ restarts' = restarts + 1
  /\ Leave([Now EXCEPT !.alt = IF keep THEN @ ELSE EmptyTable,
                       !.db = WithHardcoded(@), !.invalid = {}, !.cull = 0, !.immutable = 0, !.thrown = FALSE])
  /\ UNCHANGED locked

Init ==
  /\ chain = FirstChain
  /\ alt_blocks = EmptyTable
  /\ m_invalid_blocks = {}
  /\ checkpoints = WithHardcoded(EmptyTable)
  /\ m_last_cull_height = 0
  /\ m_immutable_height = 0
  /\ calls = <<>>
  /\ thrown = FALSE
  /\ panicked = FALSE
  /\ locked = <<>>
  /\ restarts = 0

Next ==
  \/ \E b \in Block \ Range(FirstChain), signatures \in {{}} \cup {{g} : g \in Attached} :
       AddNewBlock(b, signatures)
  \/ PushOldBlock
  \/ FinishSwitch
  \/ \E b \in Block, votes \in SUBSET Voter \ {{}} : UpdateCheckpoint(b, votes)
  \/ \E n \in 1 .. MaxPops : PopBlocks(n)
  \/ \E height \in BlinkHeights : BlinkRollback(height)
  \/ \E keep \in BOOLEAN : Restart(keep)

Spec == Init /\ [][Next]_vars

\* A switch in progress goes on: the thread inside it holds the lock.
FairSpec == Spec /\ WF_vars(PushOldBlock) /\ WF_vars(FinishSwitch)

-----------------------------------------------------------------------------
(* Properties. *)

IsPrefix(s, t) == Len(s) <= Len(t) /\ s = SubSeq(t, 1, Len(s))
IsSuffix(s, t) == Len(s) <= Len(t) /\ s = SubSeq(t, Len(t) - Len(s) + 1, Len(t))

Work(c) == cumulative_difficulty[Last(c)]

\* The main chain, the alternative blocks, the table and the calls in progress of
\* Blockchain are well formed.
TypeOK ==
  /\ chain \in Seq(Block)
  /\ DOMAIN alt_blocks \subseteq Block
  /\ \A b \in DOMAIN alt_blocks : \A c \in alt_blocks[b] : c.signatures \subseteq Voter
  /\ m_invalid_blocks \subseteq Block
  /\ DOMAIN checkpoints \subseteq Nat
  /\ \A h \in DOMAIN checkpoints :
       checkpoints[h].block_hash \in Block /\ checkpoints[h].signatures \subseteq Voter
  /\ m_last_cull_height \in Nat /\ m_immutable_height \in Nat
  /\ \A i \in DOMAIN calls : calls[i].alt \in Seq(Block)
  /\ {thrown, panicked} \subseteq BOOLEAN
  /\ locked \in Seq(Block)
  /\ restarts \in 0 .. MaxRestarts

\* core_rpc_server_commands_defs.h, immutable_height: "The latest height in the
\* blockchain that can not be reorganized from".  No reorganisation removes a
\* block that was once reported so, whatever checkpoints come and go above it.
FinalityKept == IsPrefix(locked, chain)

\* rollback_blockchain_switching: the blocks that a failed switch disconnected
\* can always be connected again, whatever checkpoints the abandoned chain
\* brought with it.
OriginalChainRestored == ~panicked

\* A switch that fails at any block leaves the chain as it was: a chain that is
\* not extended by one block is replaced only by a chain that ends in the
\* whole alternative chain.
SwitchAllOrNothing ==
  [][(~IsPrefix(chain, chain') /\ ~IsPrefix(chain', chain))
       => calls' # <<>> /\ IsSuffix(Head(calls').alt, chain')]_vars

\* handle_alternative_block on a chain without checkpoints: blocks that arrive in
\* any order, failed switches and restarts never make the main chain lose work ...
NeverLosesWork == [][Work(chain') >= Work(chain)]_vars

\* ... and no alternative block has more, if it leads through valid blocks to the
\* main chain.
MainIsHeaviest ==
  calls = <<>> =>
    \A b \in DOMAIN alt_blocks :
      LET list == AltChain(Now, b)
      IN  (Connects(Now, list[1]) /\ Range(list) \cap BadInputs = {})
            => cumulative_difficulty[b] <= Work(chain)

\* switch_to_alternative_blockchain removes the blocks it connected from the
\* alternative ones, the nested switches of pushed blocks included.
MainOrAlternative ==
  calls = <<>> => DOMAIN alt_blocks \cap Range(chain) = {}

\* Pushing the old chain back, which may switch the chain again, ends.
SwitchEnds == (calls # <<>>) ~> (calls = <<>>)

-----------------------------------------------------------------------------
(* What comments of the code say, which the code does not keep. *)

\* blockchain.h, switch_to_alternative_blockchain: "@return false if the
\* reorganization fails, otherwise true".  A switch that returns true leaves the
\* main chain on the alternative chain it was given.
SwitchStays ==
  [][(calls # <<>> /\ Len(calls') < Len(calls))
       => Last(Head(calls).alt) \in Range(chain')]_vars

\* blockchain.h, rollback_blockchain_switching: "this function reverts the
\* blockchain to how it was before the attempted switch".
CheckpointsRestored ==
  [][(m_invalid_blocks' # m_invalid_blocks /\ chain' = chain /\ restarts' = restarts)
       => checkpoints' = checkpoints]_vars

\* blockchain.cpp, switch_to_alternative_blockchain: "if adding block to main
\* chain failed, rollback to previous state and return false".  It returns.
FailedSwitchReturns == ~thrown

\* blockchain_db.cpp, get_immutable_checkpoint: "Must be hard-coded then, always
\* immutable".  No step removes or replaces a checkpoint of the program.
HardcodedStay ==
  \A h \in DOMAIN Hardcoded :
    h \in DOMAIN checkpoints /\ checkpoints[h].block_hash = Hardcoded[h]
=============================================================================
