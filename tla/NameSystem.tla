----------------------------- MODULE NameSystem -----------------------------
(***************************************************************************)
(* The name system: name_system_db keeps in SQLite the record of every     *)
(* name that a transaction of the chain bought, beside the blocks in LMDB. *)
(* The two databases commit at different times.  LMDB commits a batch of   *)
(* blocks, or of blocks popped, at its end; SQLite commits at every block  *)
(* with a name transaction and at every statement of a pop.  The settings  *)
(* (the last block processed) decide at the next start what of the records *)
(* is kept.                                                                *)
(*                                                                         *)
(* Names are of the session type, the only one allowed: they do not expire *)
(* and cannot be bought twice.  A transaction is signed by an owner of the *)
(* record it updates.  A hash covers what it is computed from: a block is  *)
(* named by the chain up to it, and a transaction, whose prev_txid is the  *)
(* previous one of its name, by the name and its entries so far.           *)
(***************************************************************************)
EXTENDS Integers, Sequences, SequencesExt, FiniteSets, FiniteSetsExt, Functions

CONSTANTS
  Name,        \* name hashes
  Buys,        \* entries that buy: [buy |-> TRUE, owner, backup_owner, encrypted_value]
  Updates,     \* entries that update: a field that is not set is Unset
  Unset,
  MaxHeight,   \* bound: height of the chain
  MaxTxs,      \* bound: name transactions on the chain
  MaxPops,     \* bound: blocks popped
  MaxStarts,   \* bound: restarts and crashes
  AnyCrash     \* whether a crash may lose the pop of a processed block

ASSUME NameAssumption ==
  /\ \A e \in Buys : e.buy /\ e.owner # Unset /\ e.encrypted_value # Unset /\ e.owner # e.backup_owner
  /\ \A e \in Updates :
        /\ ~e.buy
        /\ {e.owner, e.backup_owner, e.encrypted_value} # {Unset}
        /\ e.owner = e.backup_owner => e.owner = Unset
  /\ AnyCrash \in BOOLEAN

VARIABLES
  chain,      \* the main chain after the first block: block h is chain[h], a name transaction or NoTx
  saved,      \* the chain that LMDB has committed
  mappings,   \* the records, by name
  settings,   \* top_height and top_hash as saved
  last,       \* last_processed_height and last_processed_hash
  pops,       \* bound: blocks popped so far
  starts      \* bound: starts so far

vars == <<chain, saved, mappings, settings, last, pops, starts>>

NoTx == [name |-> Unset, txid |-> << >>]

Fields == {"owner", "backup_owner", "encrypted_value"}

field_is_set(entry, f) == entry[f] # Unset

top(c) == [height |-> Len(c), hash |-> c]

(***************************************************************************)
(* add_lns_entry: a purchase inserts or replaces the record, an update is  *)
(* an SQL UPDATE, which changes nothing where there is no record.          *)
(***************************************************************************)
add_lns_entry(M, height, name, txid) ==
  LET entry == Last(txid)
      bought == [owner |-> entry.owner, backup_owner |-> entry.backup_owner,
                 encrypted_value |-> entry.encrypted_value, txid |-> txid,
                 register_height |-> height, update_height |-> height]
      Updated(r) == [f \in DOMAIN r |->
                       CASE f = "txid" -> txid
                         [] f = "update_height" -> height
                         [] f \in Fields /\ field_is_set(entry, f) -> entry[f]
                         [] OTHER -> r[f]]
  IN  IF entry.buy THEN [n \in DOMAIN M \cup {name} |-> IF n = name THEN bought ELSE M[n]]
      ELSE [n \in DOMAIN M |-> IF n = name THEN Updated(M[n]) ELSE M[n]]

\* validate_against_previous_mapping, for the record that M holds.
validate_lns_tx(M, tx) ==
  LET entry == Last(tx.txid)
  IN  IF entry.buy THEN tx.name \notin DOMAIN M /\ Front(tx.txid) = << >>
      ELSE /\ tx.name \in DOMAIN M
           /\ \A f \in Fields : field_is_set(entry, f) => entry[f] # M[tx.name][f]
           /\ Front(tx.txid) = M[tx.name].txid

\* Mutant: the settings are not saved with the records.
AddBlockKeepsSettings(db, c) ==
  IF db.last.height >= Len(c) THEN db
  ELSE IF Last(c) = NoTx THEN [db EXCEPT !.last = top(c)]
  ELSE IF ~validate_lns_tx(db.mappings, Last(c)) THEN db
  ELSE [mappings |-> add_lns_entry(db.mappings, Len(c), Last(c).name, Last(c).txid),
        settings |-> db.settings, last |-> top(c)]

\* add_block for the last block of c, in one transaction of SQLite.
add_block(db, c) ==
  IF db.last.height >= Len(c) THEN db
  ELSE IF Last(c) = NoTx THEN [db EXCEPT !.last = top(c)]
  ELSE IF ~validate_lns_tx(db.mappings, Last(c)) THEN db
  ELSE [mappings |-> add_lns_entry(db.mappings, Len(c), Last(c).name, Last(c).txid),
        settings |-> top(c), last |-> top(c)]

(***************************************************************************)
(* A pop.  find_lns_txs_to_replay walks back from the transaction before   *)
(* the record's last one until every field has been set in a block that    *)
(* stays, and returns what it met there, newest first.                     *)
(***************************************************************************)
HeightOf(c, n, txid) == Max({0} \cup {h \in DOMAIN c : c[h] = [name |-> n, txid |-> txid]})

\* Mutant: only the transaction before the last one is replayed.
ReplaysOne(c, n, mapping) ==
  IF Len(mapping.txid) = 1 THEN << >> ELSE <<Front(mapping.txid)>>

find_lns_txs_to_replay(c, n, mapping) ==
  LET start == Len(mapping.txid) - 1
      Upto(i) == SubSeq(mapping.txid, 1, i)
      AllSet(i) == \A f \in Fields : \E j \in i .. start : field_is_set(mapping.txid[j], f)
      Stops(i) == AllSet(i) \/ i = 1 \/ HeightOf(c, n, Upto(i - 1)) = 0
      stop == Max({i \in 1 .. start : Stops(i)})
  IN  IF start = 0 THEN << >> ELSE [k \in 1 .. start - stop + 1 |-> Upto(start - k + 1)]

\* prune_db: the records that the popped block wrote.
prune_db(M, height) == Restrict(M, {n \in DOMAIN M : M[n].update_height < height})

\* Mutant: only records are pruned, the last processed height stays.
DetachKeepsHeight(db, c) ==
  [db EXCEPT !.mappings = Restrict(@, {n \in DOMAIN @ : @[n].update_height <= Len(c)})]

\* block_detach, called when c is what the pop left.  The height goes back,
\* the hash and the settings stay.
block_detach(db, c) ==
  LET height == Len(c) + 1
      touched == {n \in DOMAIN db.mappings : db.mappings[n].update_height >= height}
      Replayed(M, n) ==
        LET txids == Reverse(find_lns_txs_to_replay(c, n, db.mappings[n]))
            After[k \in 0 .. Len(txids)] ==
              IF k = 0 THEN M ELSE add_lns_entry(After[k - 1], HeightOf(c, n, txids[k]), n, txids[k])
        IN  After[Len(txids)]
      pruned == prune_db(db.mappings, height)
  IN  [db EXCEPT !.mappings = FoldSet(LAMBDA n, M : Replayed(M, n), pruned, touched),
                 !.last.height = height - 1]

(***************************************************************************)
(* A start: the records are kept if the settings name a block of the main  *)
(* chain by its height and hash, else dropped; blocks that are missing are *)
(* then added (load_missing_blocks_into_guus_subsystems).                  *)
(***************************************************************************)
Empty == [mappings |-> << >>, settings |-> top(<< >>), last |-> top(<< >>)]

init(db, c) ==
  IF IsPrefix(db.settings.hash, c) /\ db.settings.height = Len(db.settings.hash)
  THEN [db EXCEPT !.last = db.settings]
  ELSE Empty

load_missing_blocks(db, c) ==
  LET After[h \in db.last.height .. Len(c)] ==
        IF h = db.last.height THEN db ELSE add_block(After[h - 1], SubSeq(c, 1, h))
  IN  After[Len(c)]

----------------------------------------------------------------------------
DB == [mappings |-> mappings, settings |-> settings, last |-> last]

Becomes(db) == mappings' = db.mappings /\ settings' = db.settings /\ last' = db.last

Init ==
  /\ chain = << >> /\ saved = << >>
  /\ mappings = Empty.mappings /\ settings = Empty.settings /\ last = Empty.last
  /\ pops = 0 /\ starts = 0

\* The transactions that a wallet makes for the chain as it is.
TxsFor(c) ==
  {NoTx} \cup
  IF Cardinality({h \in DOMAIN c : c[h] # NoTx}) = MaxTxs THEN {}
  ELSE UNION {LET h == Max({0} \cup {i \in DOMAIN c : c[i].name = n})
                  prev == IF h = 0 THEN << >> ELSE c[h].txid
              IN  {[name |-> n, txid |-> Append(prev, e)] :
                     e \in IF prev = << >> THEN Buys ELSE Updates} : n \in Name}

\* handle_block_to_main_chain: check_tx_inputs asks the name system about
\* the transaction; the block is added to LMDB and to the name system.
AddBlock(tx) ==
  /\ Len(chain) < MaxHeight
  /\ tx # NoTx => validate_lns_tx(mappings, tx)
  /\ chain' = Append(chain, tx)
  /\ Becomes(add_block(DB, chain'))
  /\ UNCHANGED <<saved, pops, starts>>

\* pop_block_from_blockchain.
PopBlock ==
  /\ pops < MaxPops
  /\ chain # << >>
  /\ chain' = Front(chain)
  /\ Becomes(block_detach(DB, chain'))
  /\ pops' = pops + 1
  /\ UNCHANGED <<saved, starts>>

\* batch_stop.
Commit ==
  /\ saved' = chain
  /\ UNCHANGED <<chain, mappings, settings, last, pops, starts>>

StartOn(c, db) ==
  /\ starts < MaxStarts
  /\ chain' = c /\ saved' = c
  /\ \E d \in {load_missing_blocks(init(db, c), c)} : Becomes(d)
  /\ starts' = starts + 1
  /\ UNCHANGED pops

\* Shutdown: the destructor saves the settings; then the next start.
Restart == StartOn(chain, [DB EXCEPT !.settings = last])

\* The popped block that the settings name is still committed in LMDB.
LosesPop == IsPrefix(settings.hash, saved) /\ ~IsPrefix(settings.hash, chain)

\* A crash loses the batch of LMDB; SQLite keeps what it has.
Crash ==
  /\ AnyCrash \/ ~LosesPop
  /\ StartOn(saved, DB)

Next ==
  \/ \E tx \in TxsFor(chain) : AddBlock(tx)
  \/ PopBlock
  \/ Commit
  \/ Restart
  \/ Crash

Spec == Init /\ [][Next]_vars

----------------------------------------------------------------------------
RecordType(r) ==
  /\ r.register_height \in 1 .. MaxHeight /\ r.update_height \in r.register_height .. MaxHeight
  /\ Len(r.txid) \in 1 .. MaxTxs /\ r.txid[1].buy
  /\ r.owner # Unset /\ r.encrypted_value # Unset

\* The type of the variables; a record is at least as new as its purchase.
TypeOK ==
  /\ Len(chain) <= MaxHeight /\ Len(saved) <= MaxHeight
  /\ DOMAIN mappings \subseteq Name
  /\ \A n \in DOMAIN mappings : RecordType(mappings[n])
  /\ last.height \in 0 .. MaxHeight /\ settings.height \in 0 .. MaxHeight

\* What a name holds on a chain: the owner, backup owner and value that its
\* transactions there set last.
RecordOn(c, n) ==
  LET hs == {h \in DOMAIN c : c[h].name = n}
      txid == c[Max(hs)].txid
      Latest(f) == LET set == {i \in DOMAIN txid : field_is_set(txid[i], f)}
                   IN  IF set = {} THEN Unset ELSE txid[Max(set)][f]
  IN  [owner |-> Latest("owner"), backup_owner |-> Latest("backup_owner"),
       encrypted_value |-> Latest("encrypted_value"), txid |-> txid,
       register_height |-> Min(hs), update_height |-> Max(hs)]

\* The records are those of the main chain: whatever was popped, restarted or
\* lost in a crash, every name bought on the chain has the owner, the value
\* and the heights that its transactions give it, and no other name is taken.
\* This is what find_lns_txs_to_replay, prune_db and the check of the settings
\* at start are for; a node where it fails refuses blocks that others accept.
MappingsAreReplay ==
  mappings = [n \in {chain[h].name : h \in DOMAIN chain} \ {Unset} |-> RecordOn(chain, n)]

\* The name system has processed exactly the blocks of the chain, so that
\* add_block never skips a new block as already processed.
ProcessedInStep == last.height = Len(chain)

\* A start after a pop, a crash or neither never keeps a record that a block
\* outside the committed chain wrote: the settings that init accepts are those
\* of a main chain block at or above every record kept.
SettingsCoverRecords ==
  IsPrefix(settings.hash, chain) =>
    \A n \in DOMAIN mappings : mappings[n].update_height <= settings.height
=============================================================================
