--------------------------- MODULE CheckpointStore ---------------------------
(***************************************************************************)
(* The table of block checkpoints and the calculations made on it:         *)
(* checkpoints/checkpoints.cpp, the checkpoint part of                     *)
(* blockchain_db/lmdb/db_lmdb.cpp and                                      *)
(* BlockchainDB::get_immutable_checkpoint.                                 *)
(*                                                                         *)
(* The table is a function from a finite set of heights to checkpoints; a  *)
(* checkpoint is a block hash and the set of voters that signed it.  The   *)
(* module has no variables: the modules that own a table extend it.        *)
(***************************************************************************)
EXTENDS Naturals, FiniteSets, FiniteSetsExt, Functions

CONSTANTS
  CHECKPOINT_INTERVAL,                   \* a checkpoint every so many blocks
  CHECKPOINT_STORE_PERSISTENTLY_INTERVAL, \* checkpoints that are never culled
  CHECKPOINT_QUORUM_SIZE,                \* the votes that make a checkpoint full
  CHECKPOINT_MIN_VOTES                   \* the votes that make a checkpoint

ASSUME IntervalAssumption ==
  /\ CHECKPOINT_INTERVAL \in Nat \ {0}
  /\ CHECKPOINT_STORE_PERSISTENTLY_INTERVAL \in Nat \ {0}

-----------------------------------------------------------------------------
(* Heights. *)

MaxOf(a, b) == IF a >= b THEN a ELSE b
MinOf(a, b) == IF a <= b THEN a ELSE b

\* The next multiple of CHECKPOINT_INTERVAL, h itself when it is one.
RoundUp(h) ==
  IF h % CHECKPOINT_INTERVAL > 0
    THEN h + (CHECKPOINT_INTERVAL - (h % CHECKPOINT_INTERVAL))
    ELSE h

\* Subtraction of the code's guarded form "(a < b) ? 0 : a - b".
Minus(a, b) == IF a < b THEN 0 ELSE a - b

\* The values a loop "for (x = from; x < end; x += CHECKPOINT_INTERVAL)" visits ...
Visited(from, end) ==
  {h \in from .. Minus(end, 1) : h < end /\ (h - from) % CHECKPOINT_INTERVAL = 0}

\* ... and the value it leaves in x.
LoopEnd(from, end) ==
  IF from >= end THEN from
  ELSE from + CHECKPOINT_INTERVAL * (((end - from - 1) \div CHECKPOINT_INTERVAL) + 1)

-----------------------------------------------------------------------------
(* The table. *)

\* convert_mdb_val_to_checkpoint: the type is not stored, a record without
\* signatures is read back as a hard-coded checkpoint.
IsFramePix(c) == c.signatures # {}

\* update_block_checkpoint: the record at the height is overwritten.
update_block_checkpoint(db, height, c) ==
  [h \in DOMAIN db \cup {height} |-> IF h = height THEN c ELSE db[h]]

\* remove_block_checkpoint for every height of a set; absent ones are ignored.
remove_block_checkpoints(db, heights) == Restrict(db, DOMAIN db \ heights)

\* get_checkpoints_range(height, 0, _): the start is clamped into the table,
\* the records at or below it are read downwards.
RangeDown(db, height) ==
  LET start == MaxOf(height, Min(DOMAIN db))
  IN  {h \in DOMAIN db : h <= start}

\* get_immutable_checkpoint: the closest checkpoint when it is hard-coded, else
\* the one before it, else none.  Every caller uses 0 for "none".
get_immutable_checkpoint(db, height) ==
  IF DOMAIN db = {} THEN 0
  ELSE LET closest == Max(RangeDown(db, height))
           earlier == RangeDown(db, height) \ {closest}
       IN  IF ~IsFramePix(db[closest]) THEN closest
           ELSE IF earlier # {} THEN Max(earlier)
           ELSE 0

\* get_max_height
get_max_height(db) == IF DOMAIN db = {} THEN 0 ELSE Max(DOMAIN db)

-----------------------------------------------------------------------------
(* quorum_cop's handle_checkpoint_vote. *)

\* Mutant: the larger list of signatures is kept, they are not merged.
HandleWithoutMerge(db, height, x, votes) ==
  IF \/ Cardinality(votes) < CHECKPOINT_MIN_VOTES
     \/ /\ height \in DOMAIN db /\ db[height].block_hash = x
        /\ Cardinality(votes) < Cardinality(db[height].signatures)
    THEN db
  ELSE update_block_checkpoint(db, height, [block_hash |-> x, signatures |-> votes])

\* Mutant: a checkpoint with the minimum of votes is taken to be full.
HandleFullAtMinimum(db, height, x, votes) ==
  IF \/ Cardinality(votes) < CHECKPOINT_MIN_VOTES
     \/ height \in DOMAIN db /\ Cardinality(db[height].signatures) >= CHECKPOINT_MIN_VOTES
    THEN db
    ELSE update_block_checkpoint(db, height, [block_hash |-> x, signatures |-> votes])

\* handle_checkpoint_vote, under the Blockchain lock: merge the copied votes
\* into the stored checkpoint of the same block unless it is full, or replace
\* the stored checkpoint of another block.
handle_checkpoint_vote(db, height, x, votes) ==
  IF Cardinality(votes) < CHECKPOINT_MIN_VOTES THEN db
  ELSE IF height \in DOMAIN db /\ db[height].block_hash = x
    THEN IF Cardinality(db[height].signatures) = CHECKPOINT_QUORUM_SIZE THEN db
         ELSE update_block_checkpoint(db, height,
                [block_hash |-> x, signatures |-> db[height].signatures \cup votes])
    ELSE update_block_checkpoint(db, height, [block_hash |-> x, signatures |-> votes])

-----------------------------------------------------------------------------
(* checkpoints::block_added, for a block at "height". *)

CullEnd(db, height) == get_immutable_checkpoint(db, height + 1)

CullStart(db, height, last_cull) ==
  MaxOf(last_cull,
        RoundUp(Minus(CullEnd(db, height), CHECKPOINT_STORE_PERSISTENTLY_INTERVAL)))

\* Early return: nothing is culled or stored in the first blocks of the chain.
Culls(height) == height >= CHECKPOINT_STORE_PERSISTENTLY_INTERVAL

\* Mutant: the loop goes one too far and removes the immutable checkpoint.
CulledInclusive(db, height, last_cull) ==
  IF ~Culls(height) THEN {}
  ELSE {h \in Visited(CullStart(db, height, last_cull), CullEnd(db, height) + 1) :
          h % CHECKPOINT_STORE_PERSISTENTLY_INTERVAL # 0}

Culled(db, height, last_cull) ==
  IF ~Culls(height) THEN {}
  ELSE {h \in Visited(CullStart(db, height, last_cull), CullEnd(db, height)) :
          h % CHECKPOINT_STORE_PERSISTENTLY_INTERVAL # 0}

last_cull_height_after(db, height, last_cull) ==
  IF ~Culls(height) THEN last_cull
  ELSE LoopEnd(CullStart(db, height, last_cull), CullEnd(db, height))

\* "given" is the set holding the checkpoint that came with the block, if any;
\* it is stored at the block's height after the cull.
checkpoints_block_added(db, height, last_cull, given) ==
  LET culled == remove_block_checkpoints(db, Culled(db, height, last_cull))
  IN  IF ~Culls(height) \/ given = {} THEN culled
      ELSE update_block_checkpoint(culled, height, CHOOSE c \in given : TRUE)

(* checkpoints::blockchain_detached: removal steps down from the top record   *)
(* by CHECKPOINT_INTERVAL, so that it reaches only heights congruent to it.   *)
Detached(db, height) ==
  {h \in DOMAIN db : /\ h >= height
                     /\ h >= CHECKPOINT_INTERVAL
                     /\ (get_max_height(db) - h) % CHECKPOINT_INTERVAL = 0}

checkpoints_blockchain_detached(db, height) ==
  remove_block_checkpoints(db, Detached(db, height))

=============================================================================
