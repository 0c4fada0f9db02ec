-------------------------- MODULE ChainSwitchProofs --------------------------
(***************************************************************************)
(* Proofs about ChainSwitch.  The inductive invariant IInv says that the   *)
(* state between two actions is good (Good of ChainSwitchLemmas), that no  *)
(* switch is in progress after an exception, and the types of the history. *)
(* Every step keeps it, replaces blocks of the main chain by a whole       *)
(* alternative chain or by nothing, and, when nothing makes a checkpoint   *)
(* or cuts the chain, loses no work and leaves the main chain the heaviest *)
(* of those the node knows (SafeStep).                                     *)
(***************************************************************************)
EXTENDS ChainSwitchMoves

-----------------------------------------------------------------------------
(* Tables that the actions make *)

\* checkpoints::init keeps the table well formed.
LEMMA HardcodedTable ==
  ASSUME NEW db \in Tables
  PROVE  /\ WithHardcoded(db) \in Tables
         /\ TableOK(db) => TableOK(WithHardcoded(db))
<1> DEFINE D == DOMAIN db \cup DOMAIN Hardcoded
           t == [h \in D |-> IF h \in DOMAIN db THEN db[h] ELSE [block_hash |-> Hardcoded[h], signatures |-> {}]]
<1>1. /\ DOMAIN db \in SUBSET Nat /\ Bounded(DOMAIN db) /\ \A h \in DOMAIN db : db[h] \in Checkpoint
      /\ DOMAIN Hardcoded \in SUBSET Nat /\ Bounded(DOMAIN Hardcoded)
      /\ \A h \in DOMAIN Hardcoded : Hardcoded[h] \in Block
  BY TableFacts, FiniteBounded, CheckpointAssumption
<1>2. D \in SUBSET Nat /\ Bounded(D)
  <2>1. PICK m \in Nat : \A h \in DOMAIN db : h <= m
    BY <1>1 DEF Bounded
  <2>2. PICK n \in Nat : \A h \in DOMAIN Hardcoded : h <= n
    BY <1>1 DEF Bounded
  <2>3. m + n \in Nat /\ \A h \in D : h <= m + n
    BY <1>1, <2>1, <2>2
  <2> QED BY <1>1, <2>3 DEF Bounded
<1>3. t \in [D -> Checkpoint]
  <2>1. \A h \in DOMAIN Hardcoded : [block_hash |-> Hardcoded[h], signatures |-> {}] \in Checkpoint
    BY <1>1 DEF Checkpoint
  <2> QED BY <1>1, <2>1
<1>4. WithHardcoded(db) = t
  BY DEF WithHardcoded
<1>5. t \in Tables
  <2> HIDE DEF t, D
  <2> QED BY <1>2, <1>3, TableFacts
<1>6. \A h \in DOMAIN Hardcoded : Fit(h)
  BY DEF Fit, NeverCheckpointed, LowProgram
<1> QED BY <1>4, <1>5, <1>6, Zenon DEF TableOK

\* handle_checkpoint_vote keeps the table well formed.
LEMMA VoteTable ==
  ASSUME NEW db \in Tables, TableOK(db), NEW height \in Nat, Fit(height), NEW x \in Block, NEW votes \in SUBSET Voter
  PROVE  LET t == handle_checkpoint_vote(db, height, x, votes)
         IN  t \in Tables /\ TableOK(t)
<1> DEFINE t == handle_checkpoint_vote(db, height, x, votes)
           old == db[height].signatures
           c == [block_hash |-> x, signatures |-> old \cup votes]
           d == [block_hash |-> x, signatures |-> votes]
<1>1. \/ t = db
      \/ height \in DOMAIN db /\ t = update_block_checkpoint(db, height, c)
      \/ t = update_block_checkpoint(db, height, d)
  BY Zenon DEF handle_checkpoint_vote
<1>2. d \in Checkpoint
  BY DEF Checkpoint
<1>3. height \in DOMAIN db => c \in Checkpoint
  <2>1. height \in DOMAIN db => db[height] \in Checkpoint
    BY TableFacts
  <2> QED BY <2>1 DEF Checkpoint
<1> HIDE DEF t, c, d
<1>4. ASSUME NEW e \in Checkpoint, t = update_block_checkpoint(db, height, e) PROVE t \in Tables /\ TableOK(t)
  <2> DEFINE u == update_block_checkpoint(db, height, e)
  <2>1. u \in Tables /\ DOMAIN u = DOMAIN db \cup {height}
    BY UpdateTable, Zenon
  <2> HIDE DEF u
  <2>2. TableOK(u)
    BY <2>1 DEF TableOK
  <2> QED BY <1>4, <2>1, <2>2 DEF u
<1>5. t \in Tables /\ TableOK(t)
  BY <1>1, <1>2, <1>3, <1>4, Zenon
<1> QED BY <1>5 DEF t

-----------------------------------------------------------------------------
(* The state of the variables *)

\* The state of Blockchain between two actions is good, and no call is in progress
\* after an exception.
IInv ==
  /\ Good(Now)
  /\ calls # <<>> => ~thrown
  /\ locked \in Seq(Block)
  /\ restarts \in 0 .. MaxRestarts

\* The fields of the state are the variables.
LEMMA NowFields ==
  /\ Now.chain = chain /\ Now.alt = alt_blocks /\ Now.invalid = m_invalid_blocks /\ Now.db = checkpoints
  /\ Now.calls = calls /\ Now.thrown = thrown /\ Now.panicked = panicked
BY DEF Now

\* The record of the variables.
Vars(c, a, i, d, u, m, k, t, p) ==
  [chain |-> c, alt |-> a, invalid |-> i, db |-> d, cull |-> u, immutable |-> m, calls |-> k,
   thrown |-> t, panicked |-> p]

\* A good state stays good when its calls end.
LEMMA VarsGood ==
  ASSUME NEW v, Good(v), NEW k, k = v.calls \/ k = <<>>
  PROVE  Good(Vars(v.chain, v.alt, v.invalid, v.db, v.cull, v.immutable, k, v.thrown, v.panicked))
<1> DEFINE w == Vars(v.chain, v.alt, v.invalid, v.db, v.cull, v.immutable, k, v.thrown, v.panicked)
<1>1. v \in State /\ Linked(v.chain) /\ AltOK(v.alt) /\ TableOK(v.db) /\ CallsOK(v.calls) /\ (LowProgram => ~v.panicked)
  BY DEF Good
<1>2. k \in Seq(Call) /\ CallsOK(k)
  <2>1. v.calls \in Seq(Call)
    BY <1>1, StateFields
  <2>2. <<>> \in Seq(Call) /\ CallsOK(<<>>)
    BY DEF CallsOK
  <2> QED BY <1>1, <2>1, <2>2, ZenonT(30)
<1>3. w \in State
  BY <1>1, <1>2, StateFields, Zenon DEF State, Vars
<1>4. w.chain = v.chain /\ w.alt = v.alt /\ w.db = v.db /\ w.calls = k /\ w.panicked = v.panicked
  BY Zenon DEF Vars
<1> HIDE DEF w
<1>5. Good(w)
  BY <1>1, <1>2, <1>3, <1>4, ZenonT(30) DEF Good
<1> QED BY <1>5 DEF w

\* What a handler leaves.
LEMMA LeaveFacts ==
  ASSUME NEW v, Good(v), Leave(v)
  PROVE  /\ Good(Now)' /\ (calls' # <<>> => ~thrown') /\ chain' = v.chain /\ alt_blocks' = v.alt
         /\ panicked' = v.panicked /\ (~v.thrown => calls' = v.calls)
<1>1. /\ chain' = v.chain /\ alt_blocks' = v.alt /\ m_invalid_blocks' = v.invalid /\ checkpoints' = v.db
      /\ m_last_cull_height' = v.cull /\ m_immutable_height' = v.immutable
      /\ calls' = (IF v.thrown THEN <<>> ELSE v.calls) /\ thrown' = v.thrown /\ panicked' = v.panicked
  BY Zenon DEF Leave
<1>2. calls' = v.calls \/ calls' = <<>>
  BY <1>1
<1>3. Good(Vars(v.chain, v.alt, v.invalid, v.db, v.cull, v.immutable, calls', v.thrown, v.panicked))
  BY <1>2, VarsGood
<1>4. Now' = Vars(v.chain, v.alt, v.invalid, v.db, v.cull, v.immutable, calls', v.thrown, v.panicked)
  BY <1>1 DEF Now, Vars
<1>5. Good(Now')
  BY <1>3, <1>4
<1> QED BY <1>1, <1>5

\* The reported blocks are blocks of the chain.
LEMMA ReportFacts ==
  ASSUME Good(Now)', locked \in Seq(Block)
  PROVE  /\ Reported(Now)' \in Seq(Block)
         /\ Report => locked' \in Seq(Block)
<1> DEFINE c == chain'
           n == get_immutable_checkpoint(checkpoints', Len(c) - 1) + 1
           m == MinOf(Len(c), n)
<1>1. c \in Seq(Block) /\ Len(c) > 0 /\ checkpoints' \in Tables
  BY StateFields, NowFields, Zenon DEF Good, Linked, Now
<1>2. n \in Nat /\ n > 0
  <2>1. Len(c) - 1 \in Nat
    BY <1>1
  <2>2. get_immutable_checkpoint(checkpoints', Len(c) - 1) \in Nat
    BY <1>1, <2>1, ImmutableNat, Zenon
  <2> QED BY <2>2
<1>3. Reported(Now)' = SubSeq(c, 1, m)
  BY Zenon DEF Reported, Now
<1> HIDE DEF c, n
<1>4. m \in 1 .. Len(c)
  BY <1>1, <1>2 DEF MinOf
<1> HIDE DEF m
<1>5. SubSeq(c, 1, m) \in Seq(Block)
  BY <1>1, <1>4
<1>6. Reported(Now)' \in Seq(Block)
  BY <1>3, <1>5
<1>7. Report => locked' \in Seq(Block)
  <2> DEFINE q == Reported(Now)'
  <2>1. Report => locked' = locked \/ locked' = q
    BY DEF Report, LongerOf
  <2> QED BY <1>6, <2>1
<1> QED BY <1>6, <1>7

\* Nothing but the arrival of blocks and restarts happens.
OnlyBlocks == NeverCheckpointed /\ MaxPops = 0 /\ BlinkHeights = {}

-----------------------------------------------------------------------------
(* The steps *)

\* No alternative block that valid blocks lead to has more work than the main chain.
Heaviest == \A b \in DOMAIN alt_blocks : Sound(b) => cumulative_difficulty[b] <= Work(chain)

\* What every step keeps.
SafeStep ==
  /\ IInv'
  /\ (~IsPrefix(chain, chain') /\ ~IsPrefix(chain', chain))
       => calls' # <<>> /\ IsSuffix(Head(calls').alt, chain')
  /\ OnlyBlocks => Work(chain') >= Work(chain)
  /\ OnlyBlocks /\ HookFails = {} /\ Heaviest => Heaviest'

\* The main chain of a good state.
LEMMA ChainFacts ==
  ASSUME Good(Now)
  PROVE  /\ Linked(chain) /\ chain \in Seq(Block) /\ Len(chain) > 0 /\ Last(chain) \in Block
         /\ IsPrefix(chain, chain) /\ Work(chain) \in Int
<1>1. Linked(chain)
  BY NowFields DEF Good
<1>2. chain \in Seq(Block) /\ Len(chain) > 0
  BY <1>1 DEF Linked
<1>3. Last(chain) \in Block
  BY <1>2 DEF Last
<1>4. IsPrefix(chain, chain)
  BY <1>2, PrefixByElements
<1>5. Work(chain) \in Int
  BY <1>3, CumulativeFacts DEF Work
<1> QED BY <1>1, <1>2, <1>3, <1>4, <1>5, ZenonT(30)

\* A main chain with more work stays the heaviest if a new alternative block has no
\* more.
LEMMA HeaviestKept ==
  ASSUME IInv, Heaviest, Work(chain') \in Int, Work(chain') >= Work(chain),
         \A x \in DOMAIN alt_blocks' :
           x \in DOMAIN alt_blocks \/ (Sound(x) => cumulative_difficulty[x] <= Work(chain'))
  PROVE  Heaviest'
<1> DEFINE w == Work(chain)
           u == Work(chain')
<1>1. w \in Int /\ alt_blocks \in Alternatives
  BY ChainFacts, StateFields, NowFields, Zenon DEF IInv, Good
<1>2. \A x \in DOMAIN alt_blocks : x \in Block /\ cumulative_difficulty[x] \in Int
  BY <1>1, AlternativesFacts, CumulativeFacts, ZenonT(30)
<1>3. \A x \in DOMAIN alt_blocks : Sound(x) => cumulative_difficulty[x] <= w
  BY DEF Heaviest
<1>4. u \in Int /\ u >= w
  OBVIOUS
<1>5. \A x \in DOMAIN alt_blocks' : x \in DOMAIN alt_blocks \/ (Sound(x) => cumulative_difficulty[x] <= u)
  OBVIOUS
<1> HIDE DEF w, u
<1>6. \A x \in DOMAIN alt_blocks' : Sound(x) => cumulative_difficulty[x] <= u
  BY <1>1, <1>2, <1>3, <1>4, <1>5, SMTT(30)
<1>7. \A x \in DOMAIN alt_blocks' : Sound(x) => cumulative_difficulty[x] <= Work(chain')
  BY <1>6 DEF u
<1> QED BY <1>7 DEF Heaviest

\* A handler that leaves the chain alone.
LEMMA SameChainStep ==
  ASSUME IInv, NEW v, Good(v), v.chain = chain, DOMAIN v.alt \subseteq DOMAIN alt_blocks,
         Leave(v), locked' \in Seq(Block), restarts' \in 0 .. MaxRestarts
  PROVE  SafeStep
<1>1. Good(Now)' /\ (calls' # <<>> => ~thrown') /\ chain' = chain /\ alt_blocks' = v.alt
  BY LeaveFacts
<1>2. IsPrefix(chain, chain) /\ Work(chain) \in Int
  BY ChainFacts DEF IInv
<1>3. IInv'
  BY <1>1 DEF IInv
<1>4. IsPrefix(chain, chain') /\ Work(chain') >= Work(chain)
  BY <1>1, <1>2
<1>5. Heaviest => Heaviest'
  BY <1>1, <1>2, <1>4, HeaviestKept, ZenonT(30)
<1> QED BY <1>3, <1>4, <1>5, Zenon DEF SafeStep

\* A handler of an alternative block.
LEMMA HandledStep ==
  ASSUME IInv, NEW s, s.chain = chain, s.thrown = FALSE, NEW b, NEW v, Handled(s, v, b),
         s.alt = alt_blocks, Leave(v), Report, restarts' = restarts
  PROVE  SafeStep
<1>1. Good(v)
  BY DEF Handled, Moves, Stays, Switched
<1>2. /\ Good(Now)' /\ (calls' # <<>> => ~thrown') /\ chain' = v.chain /\ (~v.thrown => calls' = v.calls)
      /\ alt_blocks' = v.alt
  BY <1>1, LeaveFacts, Zenon
<1>3. locked' \in Seq(Block)
  BY <1>2, ReportFacts DEF IInv
<1>4. IInv'
  BY <1>2, <1>3 DEF IInv
<1>5. Linked(chain) /\ Work(chain) \in Int /\ Last(chain) \in Block
  BY ChainFacts DEF IInv
<1>t. Work(chain') \in Int
  <2>1. Linked(v.chain)
    BY <1>1 DEF Good
  <2>2. Last(v.chain) \in Block
    BY <2>1 DEF Linked, Last
  <2> QED BY <1>2, <2>2, CumulativeFacts, Zenon DEF Work
<1>h. OnlyBlocks /\ HookFails = {} /\ Heaviest /\ Work(chain') >= Work(chain) => Heaviest'
  <2>1. SUFFICES ASSUME OnlyBlocks, HookFails = {}, Heaviest, Work(chain') >= Work(chain) PROVE Heaviest'
    OBVIOUS
  <2>2. \/ DOMAIN alt_blocks' \subseteq DOMAIN alt_blocks
        \/ DOMAIN alt_blocks' \subseteq DOMAIN alt_blocks \cup {b} /\ Weighed(v, b)
    BY <1>2, Zenon DEF Handled
  <2>3. Weighed(v, b) => (Sound(b) => cumulative_difficulty[b] <= Work(chain'))
    BY <1>2, <2>1, Zenon DEF Weighed, OnlyBlocks
  <2>4. ASSUME NEW x \in DOMAIN alt_blocks'
        PROVE  x \in DOMAIN alt_blocks \/ (Sound(x) => cumulative_difficulty[x] <= Work(chain'))
    <3>1. x \in DOMAIN alt_blocks \/ (x = b /\ Weighed(v, b))
      BY <2>2
    <3> QED BY <2>3, <3>1
  <2> QED BY <1>t, <2>1, <2>4, HeaviestKept, Zenon
<1>6. CASE Stays(s, v)
  <2>1. IsPrefix(chain', chain)
    BY <1>2, <1>6, Zenon DEF Stays
  <2>2. OnlyBlocks => chain' = chain
    BY <1>2, <1>6 DEF Stays, OnlyBlocks, NeverCheckpointed, LowProgram
  <2>3. OnlyBlocks => Work(chain') >= Work(chain)
    BY <1>5, <2>2, SMTT(30)
  <2> QED BY <1>4, <1>h, <2>1, <2>3, Zenon DEF SafeStep
<1>7. CASE Switched(s, v, b) /\ Grown(s, b)
  <2>1. calls' = v.calls
    BY <1>2, <1>7, Zenon DEF Switched
  <2>2. calls' # <<>> /\ IsSuffix(Head(calls').alt, chain') /\ Last(chain') = b
    BY <1>2, <1>7, <2>1, Zenon DEF Switched
  <2>3. OnlyBlocks => Work(chain') >= Work(chain)
    <3>1. SUFFICES ASSUME OnlyBlocks PROVE Work(chain') >= Work(chain)
      OBVIOUS
    <3>2. Work(chain') > Work(chain)
      BY <1>7, <2>2, <3>1, Zenon DEF Work, Grown, OnlyBlocks
    <3> QED BY <1>5, <1>t, <3>2
  <2> QED BY <1>4, <1>h, <2>2, <2>3, Zenon DEF SafeStep
<1> QED BY <1>6, <1>7, Zenon DEF Handled, Moves

\* v is s with another table and without an exception.
TableSet(s, v, d) ==
  /\ v \in State /\ v.chain = s.chain /\ v.db = d /\ v.alt = s.alt /\ v.calls = s.calls
  /\ v.panicked = s.panicked /\ v.thrown = FALSE

\* An update of the checkpoint table.
LEMMA SetTable ==
  ASSUME NEW s \in State, NEW d \in Tables
  PROVE  \A v : v = [s EXCEPT !.db = d, !.thrown = FALSE] => TableSet(s, v, d)
BY Zenon DEF State, TableSet

\* A new call starts without an exception.
LEMMA ClearThrown ==
  ASSUME NEW s \in State
  PROVE  \A v : v = [s EXCEPT !.thrown = FALSE] => TableSet(s, v, s.db)
BY Zenon DEF State, TableSet

\* Another well formed table keeps the state good.
LEMMA TableSetGood ==
  ASSUME NEW s, NEW v, NEW d, Good(s), TableSet(s, v, d), TableOK(d)
  PROVE  Good(v)
BY DEF Good, TableSet

\* The state in which a handler starts.
LEMMA ClearedNow ==
  ASSUME IInv
  PROVE  LET now == [Now EXCEPT !.thrown = FALSE]
         IN  /\ Good(now) /\ now.chain = chain /\ now.db = checkpoints /\ now.thrown = FALSE
             /\ now.alt = alt_blocks /\ now.calls = calls /\ now.panicked = panicked
<1> DEFINE now == [Now EXCEPT !.thrown = FALSE]
<1>1. Now \in State /\ Good(Now) /\ TableOK(Now.db)
  BY DEF IInv, Good
<1>2. TableSet(Now, now, Now.db)
  BY <1>1, ClearThrown, Zenon
<1> HIDE DEF now
<1>3. Good(now)
  BY <1>1, <1>2, TableSetGood, Zenon
<1>4. /\ now.chain = chain /\ now.db = checkpoints /\ now.thrown = FALSE
      /\ now.alt = alt_blocks /\ now.calls = calls /\ now.panicked = panicked
  BY <1>2, NowFields DEF TableSet
<1> QED BY <1>3, <1>4 DEF now

\* add_new_block.
LEMMA AddNewBlockStep ==
  ASSUME IInv, NEW b \in Block \ Range(FirstChain), NEW signatures \in {{}} \cup {{g} : g \in Attached},
         AddNewBlock(b, signatures)
  PROVE  SafeStep
<1> DEFINE all == {[block_hash |-> b, signatures |-> g] : g \in signatures}
           given == KeptCheckpoint(b, all)
           now == [Now EXCEPT !.thrown = FALSE]
           main == handle_block_to_main_chain(now, b, given)
           other == handle_alternative_block(now, b, given)
<1>1. /\ signatures # {} => Height[b] % CHECKPOINT_INTERVAL = 0
      /\ Leave(IF Parent[b] = Last(chain) THEN main.s ELSE other)
      /\ Report /\ restarts' = restarts
  BY Zenon DEF AddNewBlock
<1>2. b \in Block /\ High(Height[b]) /\ Height[b] \in Nat
  BY TreeAssumption DEF High
<1>3. given \in SUBSET Checkpoint /\ (given # {} => Fit(Height[b]))
  <2>1. signatures \in SUBSET SUBSET Voter
    BY CheckpointAssumption
  <2>2. all \in SUBSET Checkpoint /\ (all # {} => signatures # {})
    BY <1>2, <2>1, SMTT(30) DEF Checkpoint
  <2>3. given \in SUBSET all
    BY DEF KeptCheckpoint
  <2>4. signatures # {} => Attached # {}
    OBVIOUS
  <2> HIDE DEF all, given
  <2>5. signatures # {} => Fit(Height[b])
    BY <1>1, <2>4 DEF Fit, NeverCheckpointed
  <2> QED BY <2>2, <2>3, <2>5, ZenonT(30)
<1> HIDE DEF given, all
<1>4. Good(now) /\ now.chain = chain /\ now.thrown = FALSE /\ now.alt = alt_blocks
  BY ClearedNow
<1> HIDE DEF now
<1>5. CASE Parent[b] # Last(chain)
  <2>1. Handled(now, other, b)
    BY <1>2, <1>3, <1>4, AlternativeFacts, ZenonT(30)
  <2> HIDE DEF other, main
  <2>2. Leave(other)
    BY <1>1, <1>5, Zenon
  <2> QED BY <1>1, <1>4, <2>1, <2>2, HandledStep, ZenonT(30)
<1>6. CASE Parent[b] = Last(chain)
  <2> DEFINE v == main.s
  <2>1. /\ now \in State /\ Linked(now.chain) /\ TableOK(now.db) /\ AltOK(now.alt) /\ CallsOK(now.calls)
        /\ LowProgram => ~now.panicked
    BY <1>4 DEF Good
  <2>2. /\ main.ok \in BOOLEAN /\ v \in State /\ Linked(v.chain) /\ TableOK(v.db) /\ Same(now, v)
        /\ main.ok => v.chain = Append(now.chain, b)
        /\ ~main.ok => v.chain = now.chain
    BY <1>2, <1>3, <2>1, HandleFacts, ZenonT(30)
  <2> HIDE DEF other, main
  <2>3. Leave(v)
    BY <1>1, <1>6, Zenon
  <2> HIDE DEF v
  <2>4. Good(v)
    BY <2>1, <2>2, Zenon DEF Good, Same
  <2>a. v.alt = alt_blocks
    BY <1>4, <2>2, Zenon DEF Same
  <2>5. Good(Now)' /\ (calls' # <<>> => ~thrown') /\ chain' = v.chain /\ alt_blocks' = alt_blocks
    BY <2>3, <2>4, <2>a, LeaveFacts, Zenon
  <2>6. locked' \in Seq(Block) /\ restarts' \in 0 .. MaxRestarts
    BY <1>1, <2>5, ReportFacts, Zenon DEF IInv
  <2>7. CASE ~main.ok
    BY <1>4, <2>2, <2>3, <2>4, <2>6, <2>7, <2>a, SameChainStep, ZenonT(30)
  <2>8. CASE main.ok
    <3>1. chain' = Append(chain, b)
      BY <1>4, <2>2, <2>5, <2>8, ZenonT(30)
    <3>2. chain \in Seq(Block) /\ Len(chain) > 0 /\ Last(chain) \in Block /\ Work(chain) \in Int
      BY ChainFacts, Zenon DEF IInv
    <3> DEFINE c == Append(chain, b)
    <3>3. c \in Seq(Block) /\ Len(c) = Len(chain) + 1 /\ c[Len(chain) + 1] = b /\ \A j \in 1 .. Len(chain) : c[j] = chain[j]
      BY <1>2, <3>2
    <3> HIDE DEF c
    <3>4. IsPrefix(chain, c)
      BY <3>2, <3>3, PrefixByElements, SMTT(30)
    <3>5. Last(c) = b
      BY <3>3, Zenon DEF Last
    <3>6. Work(c) >= Work(chain)
      <4>1. cumulative_difficulty[b] = cumulative_difficulty[Last(chain)] + Difficulty[b] /\ Difficulty[b] \in Nat
        BY <1>6, CumulativeFacts, TreeAssumption, ZenonT(30)
      <4> QED BY <3>2, <3>5, <4>1 DEF Work
    <3>7. IInv'
      BY <2>5, <2>6, ZenonT(30) DEF IInv
    <3>8. Work(c) \in Int
      BY <1>2, <3>5, CumulativeFacts, ZenonT(30) DEF Work
    <3>9. chain' = c
      BY <3>1, Zenon DEF c
    <3>10. Heaviest => Heaviest'
      BY <2>5, <3>6, <3>8, <3>9, HeaviestKept, Zenon
    <3> QED BY <3>4, <3>6, <3>7, <3>9, <3>10, Zenon DEF SafeStep
  <2> QED BY <2>2, <2>7, <2>8, ZenonT(30)
<1> QED BY <1>5, <1>6

\* One block of the old chain is pushed.
LEMMA PushOldBlockStep ==
  ASSUME IInv, PushOldBlock
  PROVE  SafeStep
<1> DEFINE top == Head(calls)
           entry == Head(top.old)
           first == [top EXCEPT !.old = Tail(top.old)]
           rest == <<first>> \o Tail(calls)
           s == [Now EXCEPT !.calls = rest]
           v == handle_alternative_block(s, entry.block, entry.given)
<1>1. calls # <<>> /\ top.old # <<>> /\ Leave(v) /\ Report /\ restarts' = restarts
  BY Zenon DEF PushOldBlock
<1> HIDE DEF v
<1>2. Good(Now) /\ Now \in State /\ calls \in Seq(Call) /\ CallsOK(calls) /\ thrown = FALSE
  BY <1>1, StateFields, NowFields, ZenonT(30) DEF IInv, Good
<1>3. top \in Call /\ EntriesOK(top.old) /\ Len(calls) > 0 /\ calls[1] = top
  <2>1. Len(calls) > 0 /\ top = calls[1] /\ 1 \in 1 .. Len(calls)
    BY <1>1, <1>2
  <2> QED BY <1>2, <2>1 DEF CallsOK
<1> HIDE DEF top
<1> DEFINE o == top.old
<1>4. o \in Seq(Entry) /\ o # <<>> /\ top.alt \in Seq(Block) /\ EntriesOK(o)
  BY <1>1, <1>3, Zenon DEF EntriesOK, Call
<1>5. /\ Tail(o) \in Seq(Entry) /\ EntriesOK(Tail(o)) /\ entry \in Entry
      /\ High(Height[entry.block]) /\ (entry.given # {} => Fit(Height[entry.block]))
  <2> HIDE DEF o
  <2>1. /\ Tail(o) \in Seq(Entry) /\ Len(Tail(o)) = Len(o) - 1 /\ \A i \in 1 .. Len(o) - 1 : Tail(o)[i] = o[i + 1]
        /\ Head(o) = o[1] /\ 1 \in 1 .. Len(o) /\ Head(o) \in Entry
    BY <1>4
  <2>2. EntriesOK(Tail(o))
    <3>1. ASSUME NEW i \in 1 .. Len(Tail(o))
          PROVE  /\ High(Height[Tail(o)[i].block])
                 /\ Tail(o)[i].given # {} => Fit(Height[Tail(o)[i].block])
      <4>1. Tail(o)[i] = o[i + 1] /\ i + 1 \in 1 .. Len(o)
        BY <1>4, <2>1
      <4> DEFINE k == i + 1
                 x == Tail(o)[i]
      <4>2. k \in 1 .. Len(o) /\ x = o[k]
        BY <4>1, Zenon
      <4> HIDE DEF k, x
      <4>3. High(Height[x.block]) /\ (x.given # {} => Fit(Height[x.block]))
        BY <1>4, <4>2, Zenon DEF EntriesOK
      <4> QED BY <4>3, Zenon DEF x
    <3> QED BY <2>1, <3>1, ZenonT(30) DEF EntriesOK
  <2>3. entry = o[1]
    BY <2>1 DEF o
  <2> QED BY <1>4, <2>1, <2>2, <2>3, ZenonT(30) DEF EntriesOK
<1>6. first \in Call /\ first.old = Tail(o)
  BY <1>3, <1>5, ZenonT(30) DEF Call
<1> HIDE DEF first, entry, o
<1>7. rest \in Seq(Call) /\ CallsOK(rest)
  <2>1. /\ rest \in Seq(Call) /\ Len(rest) = Len(calls) /\ rest[1] = first
        /\ \A i \in 2 .. Len(calls) : rest[i] = calls[i]
    BY <1>2, <1>3, <1>6
  <2> HIDE DEF rest
  <2>2. ASSUME NEW i \in 1 .. Len(rest) PROVE EntriesOK(rest[i].old)
    <3>1. CASE i = 1
      BY <1>5, <1>6, <2>1, <3>1, ZenonT(30)
    <3>2. CASE i # 1
      <4>1. i \in 2 .. Len(calls) /\ i \in 1 .. Len(calls)
        BY <1>2, <2>1, <3>2
      <4> QED BY <1>2, <2>1, <4>1, ZenonT(30) DEF CallsOK
    <3> QED BY <3>1, <3>2, Zenon
  <2> QED BY <2>1, <2>2, ZenonT(30) DEF CallsOK
<1> HIDE DEF rest
<1>8. CallsSet(Now, s, rest)
  BY <1>2, <1>7, SetCalls, ZenonT(30)
<1> HIDE DEF s
<1>9. Good(s) /\ s.chain = chain /\ s.thrown = FALSE /\ s.alt = alt_blocks
  BY <1>2, <1>7, <1>8, NowFields, ZenonT(30) DEF CallsSet, Good
<1>10. entry.block \in Block /\ entry.given \in SUBSET Checkpoint
  BY <1>5 DEF Entry
<1>11. Handled(s, v, entry.block)
  BY <1>5, <1>9, <1>10, AlternativeFacts, ZenonT(30) DEF v
<1> QED BY <1>1, <1>9, <1>11, HandledStep, ZenonT(30)

\* The entries of the alternative chain are removed.
LEMMA FinishSwitchStep ==
  ASSUME IInv, FinishSwitch
  PROVE  SafeStep
<1> DEFINE k == Tail(calls)
           s == [Now EXCEPT !.calls = k]
           v == RemoveAll(s, Head(calls).alt)
<1>1. calls # <<>> /\ Leave(v) /\ Report /\ restarts' = restarts
  <2>1. s = [Now EXCEPT !.calls = Tail(Now.calls)]
    BY NowFields, ZenonT(30)
  <2> QED BY <2>1, Zenon DEF FinishSwitch
<1> HIDE DEF v
<1>2. Good(Now) /\ Now \in State /\ calls \in Seq(Call) /\ CallsOK(calls)
  BY StateFields, NowFields DEF IInv, Good
<1>3. k \in Seq(Call) /\ CallsOK(k)
  <2>1. k \in Seq(Call) /\ \A i \in 1 .. Len(k) : k[i] = calls[i + 1] /\ i + 1 \in 1 .. Len(calls)
    BY <1>1, <1>2
  <2> HIDE DEF k
  <2> QED BY <1>2, <2>1, Zenon DEF CallsOK
<1> HIDE DEF k
<1>4. CallsSet(Now, s, k)
  BY <1>2, <1>3, SetCalls, ZenonT(30)
<1> HIDE DEF s
<1>5. Good(s) /\ s.chain = chain /\ s.alt = alt_blocks
  BY <1>2, <1>3, <1>4, NowFields, ZenonT(30) DEF CallsSet, Good
<1>6. Shrunk(s, v)
  <2>1. s \in State
    BY <1>5 DEF Good
  <2> QED BY <2>1, RemoveAllFacts DEF v
<1>7. Good(v) /\ v.chain = chain /\ DOMAIN v.alt \subseteq DOMAIN alt_blocks
  BY <1>5, <1>6, Zenon DEF Shrunk, Good
<1>8. Good(Now)'
  BY <1>1, <1>7, LeaveFacts, Zenon
<1>9. locked' \in Seq(Block) /\ restarts' \in 0 .. MaxRestarts
  BY <1>1, <1>8, ReportFacts, Zenon DEF IInv
<1> QED BY <1>1, <1>7, <1>9, SameChainStep, ZenonT(30)

\* handle_checkpoint_vote.
LEMMA UpdateCheckpointStep ==
  ASSUME IInv, NEW b \in Block, NEW votes \in SUBSET Voter \ {{}}, UpdateCheckpoint(b, votes)
  PROVE  SafeStep
<1> DEFINE d == handle_checkpoint_vote(checkpoints, Height[b], b, votes)
           v == [Now EXCEPT !.db = d, !.thrown = FALSE]
<1>1. Height[b] \in VotedHeights /\ Leave(v) /\ Report /\ restarts' = restarts
  <2>1. v = [Now EXCEPT !.db = handle_checkpoint_vote(Now.db, Height[b], b, votes), !.thrown = FALSE]
    BY NowFields, Zenon
  <2> QED BY <2>1, Zenon DEF UpdateCheckpoint
<1>2. Good(Now) /\ Now \in State /\ checkpoints \in Tables /\ TableOK(checkpoints)
  BY StateFields, NowFields DEF IInv, Good
<1>3. Height[b] \in Nat /\ Fit(Height[b])
  BY <1>1, CheckpointAssumption, TreeAssumption, Zenon DEF Fit, NeverCheckpointed
<1>4. votes \in SUBSET Voter
  BY SMTT(30)
<1>5. d \in Tables /\ TableOK(d)
  BY <1>2, <1>3, <1>4, VoteTable, Zenon
<1> HIDE DEF d
<1>6. TableSet(Now, v, d)
  BY <1>2, <1>5, SetTable, Zenon
<1> HIDE DEF v
<1>7. Good(v) /\ v.chain = chain /\ v.alt = alt_blocks
  BY <1>2, <1>5, <1>6, TableSetGood, NowFields, ZenonT(30) DEF TableSet
<1>8. Good(Now)'
  BY <1>1, <1>7, LeaveFacts, ZenonT(30)
<1>9. locked' \in Seq(Block) /\ restarts' \in 0 .. MaxRestarts
  BY <1>1, <1>8, ReportFacts, ZenonT(30) DEF IInv
<1> QED BY <1>1, <1>7, <1>9, SameChainStep, ZenonT(30)

\* A handler that cuts the chain.
LEMMA CutStep ==
  ASSUME IInv, NEW v, Good(v), NEW n \in 1 .. Len(chain), Len(v.chain) = n,
         \A j \in 1 .. n : v.chain[j] = chain[j],
         Leave(v), locked' \in Seq(Block), restarts' \in 0 .. MaxRestarts, ~OnlyBlocks
  PROVE  SafeStep
<1>1. Good(Now)' /\ (calls' # <<>> => ~thrown') /\ chain' = v.chain
  BY LeaveFacts, Zenon
<1>2. chain \in Seq(Block) /\ Len(chain) \in Nat
  BY ChainFacts, SMTT(30) DEF IInv
<1>3. v.chain \in Seq(Block)
  BY ZenonT(30) DEF Good, Linked
<1>4. IsPrefix(v.chain, chain)
  BY <1>2, <1>3, PrefixByElements, SMTT(30)
<1>5. IInv'
  BY <1>1, Zenon DEF IInv
<1> QED BY <1>1, <1>4, <1>5, ZenonT(30) DEF SafeStep

\* pop_blocks.
LEMMA PopBlocksStep ==
  ASSUME IInv, NEW n \in 1 .. MaxPops, PopBlocks(n)
  PROVE  SafeStep
<1> DEFINE now == [Now EXCEPT !.thrown = FALSE]
           height == Len(chain) - MinOf(n, Len(chain) - 1)
           v == Detach(now, height)
<1>1. Leave(v) /\ locked' = Reported(Now)' /\ restarts' = restarts
  BY Zenon DEF PopBlocks
<1>2. /\ Good(now) /\ now.chain = chain /\ now.calls = calls /\ now.alt = alt_blocks /\ now.panicked = panicked
  BY ClearedNow, Zenon
<1> HIDE DEF now
<1>3. chain \in Seq(Block) /\ Len(chain) > 0 /\ Len(chain) \in Nat /\ n \in Nat /\ n >= 1 /\ MaxPops >= n /\ MaxPops \in Nat
  BY ChainFacts, CheckpointAssumption DEF IInv
<1>4. height \in 1 .. Len(chain)
  BY <1>3 DEF MinOf
<1> HIDE DEF height
<1>5. now \in State /\ Linked(now.chain) /\ TableOK(now.db) /\ AltOK(now.alt) /\ CallsOK(now.calls) /\ (LowProgram => ~now.panicked)
  BY <1>2 DEF Good
<1>6. /\ v \in State /\ Same(now, v) /\ Linked(v.chain) /\ TableOK(v.db)
      /\ Len(v.chain) = height /\ \A j \in 1 .. height : v.chain[j] = chain[j]
  BY <1>2, <1>4, <1>5, DetachFacts, ZenonT(30)
<1> HIDE DEF v
<1>7. Good(v)
  BY <1>5, <1>6, Zenon DEF Good, Same
<1>8. Good(Now)'
  BY <1>1, <1>7, LeaveFacts, ZenonT(30)
<1>9. locked' \in Seq(Block) /\ restarts' \in 0 .. MaxRestarts
  BY <1>1, <1>8, ReportFacts, ZenonT(30) DEF IInv
<1>10. ~OnlyBlocks
  BY <1>3 DEF OnlyBlocks
<1> QED BY <1>1, <1>4, <1>6, <1>7, <1>9, <1>10, CutStep, ZenonT(30)

\* The rollback for a blink.
LEMMA BlinkRollbackStep ==
  ASSUME IInv, NEW height \in BlinkHeights, BlinkRollback(height)
  PROVE  SafeStep
<1> DEFINE now == [Now EXCEPT !.thrown = FALSE]
           n == get_immutable_checkpoint(checkpoints, Len(chain)) + 1
           cut == MaxOf(height, n)
           v == rollback_blockchain_switching(now, <<>>, cut)
<1>1. cut < Len(chain) /\ Leave(v) /\ Report /\ restarts' = restarts
  BY Zenon DEF BlinkRollback
<1>2. /\ Good(now) /\ now.chain = chain /\ now.calls = calls /\ now.alt = alt_blocks /\ now.panicked = panicked
  BY ClearedNow, Zenon
<1> HIDE DEF now
<1>3. chain \in Seq(Block) /\ Len(chain) \in Nat /\ checkpoints \in Tables /\ height \in Nat
  BY StateFields, NowFields, CheckpointAssumption DEF IInv, Good
<1>4. n \in Nat /\ n > 0
  <2>1. get_immutable_checkpoint(checkpoints, Len(chain)) \in Nat
    BY <1>3, ImmutableNat, Zenon
  <2> QED BY <2>1
<1> HIDE DEF n
<1>5. cut \in Nat /\ cut > 0
  BY <1>3, <1>4 DEF MaxOf
<1> HIDE DEF cut
<1>6. cut \in 1 .. Len(chain)
  BY <1>1, <1>3, <1>5
<1>7. now \in State /\ Linked(now.chain) /\ TableOK(now.db) /\ AltOK(now.alt) /\ CallsOK(now.calls) /\ (LowProgram => ~now.panicked)
  BY <1>2, Zenon DEF Good
<1>8. EntriesOK(<<>>)
  BY DEF EntriesOK
<1>9. RolledBack(now, v, <<>>, cut) /\ v.panicked = now.panicked
  BY <1>2, <1>6, <1>7, <1>8, RollbackFacts, ZenonT(30)
<1> HIDE DEF v
<1>10. Good(v)
  BY <1>7, <1>9, ZenonT(30) DEF Good, RolledBack
<1>11. Len(v.chain) = cut /\ \A j \in 1 .. cut : v.chain[j] = chain[j]
  <2>1. Len(v.chain) >= cut /\ Len(v.chain) <= cut + Len(<<>>) /\ v.chain \in Seq(Block)
    BY <1>9, <1>10, Zenon DEF RolledBack, Linked
  <2>2. Len(<<>>) = 0 /\ Len(v.chain) \in Nat
    BY <2>1
  <2>3. Len(v.chain) = cut
    BY <1>5, <2>1, <2>2, SMTT(30)
  <2> QED BY <1>2, <1>9, <2>3, ZenonT(30) DEF RolledBack
<1>12. Good(Now)'
  BY <1>1, <1>10, LeaveFacts, ZenonT(30)
<1>13. locked' \in Seq(Block) /\ restarts' \in 0 .. MaxRestarts
  BY <1>1, <1>12, ReportFacts, Zenon DEF IInv
<1>14. ~OnlyBlocks
  BY DEF OnlyBlocks
<1> QED BY <1>1, <1>6, <1>10, <1>11, <1>13, <1>14, CutStep, Zenon

\* v is s after a restart.
RestartSet(s, v, a, d) ==
  /\ v \in State /\ v.chain = s.chain /\ v.db = d /\ v.alt = a /\ v.calls = s.calls
  /\ v.panicked = s.panicked

\* What a restart resets.
LEMMA SetRestart ==
  ASSUME NEW s \in State, NEW a \in Alternatives, NEW d \in Tables, NEW i \in SUBSET Block, NEW n \in Nat,
         NEW t \in BOOLEAN
  PROVE  \A v : v = [s EXCEPT !.alt = a, !.db = d, !.invalid = i, !.cull = n, !.immutable = n, !.thrown = t]
                  => RestartSet(s, v, a, d)
BY ZenonT(30) DEF State, RestartSet

\* The table without records.
LEMMA EmptyTables ==
  EmptyTable \in Alternatives /\ AltOK(EmptyTable) /\ EmptyTable \in Tables /\ TableOK(EmptyTable)
<1>1. EmptyTable \in [{} -> SUBSET Checkpoint] /\ EmptyTable \in [{} -> Checkpoint] /\ DOMAIN EmptyTable = {}
  BY DEF EmptyTable
<1>2. {} \in SUBSET Block /\ {} \in SUBSET Nat /\ Bounded({})
  BY DEF Bounded
<1> QED BY <1>1, <1>2, AlternativesFacts, TableFacts, Zenon DEF AltOK, TableOK

\* A restart.
LEMMA RestartStep ==
  ASSUME IInv, NEW keep \in BOOLEAN, Restart(keep)
  PROVE  SafeStep
<1> DEFINE a == IF keep THEN alt_blocks ELSE EmptyTable
           d == WithHardcoded(checkpoints)
           v == [Now EXCEPT !.alt = a, !.db = d, !.invalid = {}, !.cull = 0, !.immutable = 0, !.thrown = FALSE]
<1>1. restarts < MaxRestarts /\ restarts' = restarts + 1 /\ Leave(v) /\ locked' = locked
  <2>1. v = [Now EXCEPT !.alt = IF keep THEN Now.alt ELSE EmptyTable, !.db = WithHardcoded(Now.db), !.invalid = {},
                        !.cull = 0, !.immutable = 0, !.thrown = FALSE]
    BY NowFields
  <2> QED BY <2>1, Zenon DEF Restart
<1>2. /\ Good(Now) /\ Now \in State /\ checkpoints \in Tables /\ TableOK(checkpoints)
      /\ alt_blocks \in Alternatives /\ AltOK(alt_blocks)
  BY StateFields, NowFields, ZenonT(30) DEF IInv, Good
<1>3. d \in Tables /\ TableOK(d)
  BY <1>2, HardcodedTable, ZenonT(30)
<1>4. a \in Alternatives /\ AltOK(a) /\ DOMAIN a \subseteq DOMAIN alt_blocks
  <2>1. DOMAIN EmptyTable = {}
    BY DEF EmptyTable
  <2> QED BY <1>2, <2>1, EmptyTables, Zenon
<1> HIDE DEF a, d
<1>5. RestartSet(Now, v, a, d)
  <2>1. {} \in SUBSET Block /\ 0 \in Nat /\ FALSE \in BOOLEAN
    OBVIOUS
  <2> QED BY <1>2, <1>3, <1>4, <2>1, SetRestart, ZenonT(30)
<1> HIDE DEF v
<1>6. Good(v) /\ v.chain = chain /\ v.alt = a
  BY <1>2, <1>3, <1>4, <1>5, NowFields, ZenonT(30) DEF RestartSet, Good
<1>7. locked' \in Seq(Block) /\ restarts' \in 0 .. MaxRestarts
  BY <1>1, CheckpointAssumption DEF IInv
<1> QED BY <1>1, <1>4, <1>6, <1>7, SameChainStep, ZenonT(30)

\* The first state.
LEMMA InitGood == Init => IInv
<1> SUFFICES ASSUME Init PROVE IInv
  OBVIOUS
<1>1. Linked(FirstChain)
  <2>1. /\ FirstChain \in Seq(Block) /\ Len(FirstChain) > 0
        /\ \A i \in 1 .. Len(FirstChain) : Height[FirstChain[i]] = i - 1
        /\ \A i \in 2 .. Len(FirstChain) : Parent[FirstChain[i]] = FirstChain[i - 1]
    BY TreeAssumption
  <2>2. \A i \in 1 .. Len(FirstChain) : FirstChain[i] \notin BadInputs
    BY <2>1, TreeAssumption DEF Range
  <2> QED BY <2>1, <2>2, ZenonT(30) DEF Linked
<1> DEFINE d == WithHardcoded(EmptyTable)
<1>2. d \in Tables /\ TableOK(d)
  BY EmptyTables, HardcodedTable, ZenonT(30)
<1>3. /\ chain = FirstChain /\ alt_blocks = EmptyTable /\ m_invalid_blocks = {} /\ checkpoints = d
      /\ m_last_cull_height = 0 /\ m_immutable_height = 0 /\ calls = <<>> /\ thrown = FALSE
      /\ panicked = FALSE /\ locked = <<>> /\ restarts = 0
  BY DEF Init
<1> HIDE DEF d
<1>4. Now \in State
  <2>1. /\ chain \in Seq(Block) /\ alt_blocks \in Alternatives /\ m_invalid_blocks \in SUBSET Block
        /\ checkpoints \in Tables /\ m_last_cull_height \in Nat /\ m_immutable_height \in Nat
        /\ calls \in Seq(Call) /\ thrown \in BOOLEAN /\ panicked \in BOOLEAN
    <3>1. chain \in Seq(Block)
      BY <1>1, <1>3, Zenon DEF Linked
    <3>2. alt_blocks \in Alternatives /\ checkpoints \in Tables
      BY <1>2, <1>3, EmptyTables, Zenon
    <3>3. m_invalid_blocks \in SUBSET Block /\ calls \in Seq(Call)
      BY <1>3
    <3>4. m_last_cull_height \in Nat /\ m_immutable_height \in Nat /\ thrown \in BOOLEAN /\ panicked \in BOOLEAN
      BY <1>3, Zenon
    <3> QED BY <3>1, <3>2, <3>3, <3>4, Zenon
  <2> QED BY <2>1, Zenon DEF Now, State
<1>5. CallsOK(<<>>)
  BY DEF CallsOK
<1>6. Good(Now)
  BY <1>1, <1>2, <1>3, <1>4, <1>5, EmptyTables, NowFields, ZenonT(30) DEF Good
<1>7. locked \in Seq(Block) /\ restarts \in 0 .. MaxRestarts
  BY <1>3, CheckpointAssumption
<1> QED BY <1>3, <1>6, <1>7, Zenon DEF IInv

\* Every step keeps the invariant, replaces all or nothing, and loses no work.
LEMMA EveryStep == IInv /\ [Next]_vars => SafeStep \/ UNCHANGED vars
<1> SUFFICES ASSUME IInv, Next PROVE SafeStep
  BY Zenon
<1>1. \/ \E b \in Block \ Range(FirstChain), signatures \in {{}} \cup {{g} : g \in Attached} :
           AddNewBlock(b, signatures)
      \/ PushOldBlock
      \/ FinishSwitch
      \/ \E b \in Block, votes \in SUBSET Voter \ {{}} : UpdateCheckpoint(b, votes)
      \/ \E n \in 1 .. MaxPops : PopBlocks(n)
      \/ \E height \in BlinkHeights : BlinkRollback(height)
      \/ \E keep \in BOOLEAN : Restart(keep)
  BY Zenon DEF Next
<1> QED
  BY <1>1, AddNewBlockStep, PushOldBlockStep, FinishSwitchStep, UpdateCheckpointStep, PopBlocksStep,
     BlinkRollbackStep, RestartStep, Zenon

\* A step that changes nothing.
LEMMA IdleStep == IInv /\ UNCHANGED vars => IInv'
<1> SUFFICES ASSUME IInv, UNCHANGED vars PROVE IInv'
  BY SMTT(30)
<1>1. Now' = Now /\ calls' = calls /\ thrown' = thrown /\ locked' = locked /\ restarts' = restarts
  BY DEF vars, Now
<1> QED BY <1>1 DEF IInv

\* The state of Blockchain stays well formed: the main chain is a chain of valid
\* blocks each on its parent, alternative blocks leave the first chain, the table
\* holds records at checkpoint heights, and an exception ends every switch.
THEOREM ChainInvariance == Spec => []IInv
<1>1. IInv /\ [Next]_vars => IInv'
  BY EveryStep, IdleStep DEF SafeStep
<1> QED BY <1>1, InitGood, PTL DEF Spec

\* The variables keep their types.
THEOREM ChainTypes == Spec => []TypeOK
<1>1. IInv => TypeOK
  <2> SUFFICES ASSUME IInv PROVE TypeOK
    BY SMTT(30)
  <2>1. /\ chain \in Seq(Block) /\ alt_blocks \in Alternatives /\ m_invalid_blocks \in SUBSET Block
        /\ checkpoints \in Tables /\ m_last_cull_height \in Nat /\ m_immutable_height \in Nat
        /\ calls \in Seq(Call) /\ thrown \in BOOLEAN /\ panicked \in BOOLEAN
    BY StateFields DEF IInv, Good, Now
  <2>2. DOMAIN alt_blocks \subseteq Block /\ \A b \in DOMAIN alt_blocks : alt_blocks[b] \in SUBSET Checkpoint
    BY <2>1, AlternativesFacts, Zenon
  <2>3. DOMAIN checkpoints \subseteq Nat /\ \A h \in DOMAIN checkpoints : checkpoints[h] \in Checkpoint
    BY <2>1, TableFacts
  <2>4. \A c \in Checkpoint : c.block_hash \in Block /\ c.signatures \subseteq Voter
    BY DEF Checkpoint
  <2>5. \A i \in DOMAIN calls : calls[i].alt \in Seq(Block)
    <3>1. \A i \in DOMAIN calls : calls[i] \in Call
      BY <2>1
    <3> QED BY <3>1 DEF Call
  <2>6. locked \in Seq(Block) /\ restarts \in 0 .. MaxRestarts
    BY DEF IInv
  <2> QED BY <2>1, <2>2, <2>3, <2>4, <2>5, <2>6, ZenonT(30) DEF TypeOK
<1> QED BY <1>1, ChainInvariance, PTL

\* rollback_blockchain_switching always restores the original chain when every
\* checkpoint of the program that lies off the grid of CHECKPOINT_INTERVAL is below
\* every block that can be reorganised.
THEOREM RollbackRestores == LowProgram => (Spec => []OriginalChainRestored)
<1> SUFFICES ASSUME LowProgram PROVE Spec => []OriginalChainRestored
  OBVIOUS
<1>1. IInv => OriginalChainRestored
  BY NowFields DEF IInv, Good, OriginalChainRestored
<1> QED BY <1>1, ChainInvariance, PTL

\* switch_to_alternative_blockchain replaces blocks of the main chain by the whole
\* alternative chain or not at all.
THEOREM AllOrNothing == Spec => SwitchAllOrNothing
<1> DEFINE A == (~IsPrefix(chain, chain') /\ ~IsPrefix(chain', chain))
                  => calls' # <<>> /\ IsSuffix(Head(calls').alt, chain')
<1>1. IInv /\ [Next]_vars => [A]_vars
  BY EveryStep, Zenon DEF SafeStep
<1>2. Spec => [][A]_vars
  <2> HIDE DEF A
  <2> QED BY <1>1, ChainInvariance, PTL DEF Spec
<1> QED BY <1>2 DEF SwitchAllOrNothing

\* Without checkpoints, pops and blinks, blocks in any order, failed and nested
\* switches and restarts never lose work.
THEOREM WorkNeverLost == OnlyBlocks => (Spec => NeverLosesWork)
<1> SUFFICES ASSUME OnlyBlocks PROVE Spec => NeverLosesWork
  OBVIOUS
<1> DEFINE A == Work(chain') >= Work(chain)
<1>1. IInv /\ [Next]_vars => [A]_vars
  BY EveryStep DEF SafeStep
<1>2. Spec => [][A]_vars
  <2> HIDE DEF A
  <2> QED BY <1>1, ChainInvariance, PTL DEF Spec
<1> QED BY <1>2 DEF NeverLosesWork

\* A valid block on a sound one is sound.
LEMMA SoundChild ==
  ASSUME NEW b \in Block, High(Height[b]), b \notin BadInputs, Sound(Parent[b])
  PROVE  Sound(b)
<1>1. PICK c : Linked(c) /\ Last(c) = Parent[b]
  BY DEF Sound
<1>2. Linked(Append(c, b))
  BY <1>1, LinkedAppend, ZenonT(30)
<1>3. c \in Seq(Block)
  BY <1>1 DEF Linked
<1>4. Last(Append(c, b)) = b
  BY <1>3 DEF Last
<1> QED BY <1>2, <1>4, ZenonT(30) DEF Sound

\* The blocks of a connected alternative chain without bad inputs are sound.
LEMMA ConnectedSound ==
  ASSUME NEW c, Linked(c), NEW A \in SUBSET Block, \A x \in A : High(Height[x]),
         NEW list \in Seq(A), list # <<>>, \A i \in 2 .. Len(list) : Parent[list[i]] = list[i - 1],
         NEW h \in 1 .. Len(c), Parent[list[1]] = c[h], \A i \in 1 .. Len(list) : list[i] \notin BadInputs
  PROVE  Sound(list[Len(list)])
<1> DEFINE n == Len(list)
           U == {k \in Nat : k < n => Sound(list[k + 1])}
<1>1. n \in Nat /\ n > 0
  OBVIOUS
<1>2. \A i \in 1 .. n : list[i] \in Block /\ High(Height[list[i]]) /\ list[i] \notin BadInputs
  OBVIOUS
<1>3. Sound(c[h])
  <2> DEFINE p == SubSeq(c, 1, h)
  <2>1. Linked(p) /\ Len(p) = h /\ \A j \in 1 .. h : p[j] = c[j]
    BY LinkedPrefix, ZenonT(30)
  <2>2. h \in 1 .. h
    BY DEF Linked
  <2> HIDE DEF p
  <2>3. Last(p) = c[h]
    BY <2>1, <2>2, Zenon DEF Last
  <2> QED BY <2>1, <2>3, Zenon DEF Sound
<1>4. 0 \in U
  <2>1. 1 \in 1 .. n /\ 0 + 1 = 1
    BY <1>1
  <2>2. Sound(list[1])
    BY <1>2, <1>3, <2>1, SoundChild, ZenonT(30)
  <2> QED BY <2>1, <2>2, ZenonT(30)
<1> HIDE DEF n
<1>5. ASSUME NEW k \in Nat, k \in U PROVE k + 1 \in U
  <2>1. SUFFICES ASSUME k + 1 < n PROVE Sound(list[(k + 1) + 1])
    OBVIOUS
  <2> DEFINE i == (k + 1) + 1
  <2>2. i \in 2 .. n /\ i \in 1 .. n /\ i - 1 = k + 1 /\ k < n
    BY <1>1, <2>1
  <2>3. Sound(list[k + 1])
    BY <1>5, <2>2, Zenon
  <2> HIDE DEF i
  <2>4. Sound(Parent[list[i]])
    BY <2>2, <2>3, ZenonT(30) DEF n
  <2>5. Sound(list[i])
    BY <1>2, <2>2, <2>4, SoundChild, ZenonT(30)
  <2> QED BY <2>5, Zenon DEF i
<1>6. \A k \in Nat : k \in U
  <2> HIDE DEF U
  <2> QED BY <1>4, <1>5, SetInduction, ZenonT(30)
<1>7. n - 1 \in Nat /\ n - 1 < n /\ (n - 1) + 1 = n
  BY <1>1
<1>8. n - 1 \in U
  BY <1>6, <1>7, Zenon
<1> QED BY <1>7, <1>8, ZenonT(30) DEF n

\* Without checkpoints, pops and blinks and when alt_block_added refuses no block, the
\* main chain has the most work of all the chains of valid blocks that the node knows.
THEOREM HeaviestChain == OnlyBlocks /\ HookFails = {} => (Spec => []MainIsHeaviest)
<1> SUFFICES ASSUME OnlyBlocks, HookFails = {} PROVE Spec => []MainIsHeaviest
  OBVIOUS
<1>1. Init => Heaviest
  BY DEF Init, EmptyTable, Heaviest
<1>2. IInv /\ Heaviest /\ [Next]_vars => Heaviest'
  <2>1. SafeStep /\ Heaviest => Heaviest'
    BY DEF SafeStep
  <2>2. UNCHANGED vars /\ Heaviest => Heaviest'
    BY DEF vars, Heaviest
  <2> QED BY <2>1, <2>2, EveryStep, ZenonT(30)
<1>3. IInv /\ Heaviest => MainIsHeaviest
  <2> SUFFICES ASSUME IInv, Heaviest, NEW b \in DOMAIN alt_blocks,
                      Connects(Now, AltChain(Now, b)[1]), Range(AltChain(Now, b)) \cap BadInputs = {}
               PROVE  Sound(b)
    BY Zenon DEF MainIsHeaviest, Heaviest
  <2> DEFINE list == AltChain(Now, b)
             A == DOMAIN alt_blocks
  <2>1. /\ Now \in State /\ AltOK(alt_blocks) /\ alt_blocks \in Alternatives
        /\ Linked(chain) /\ chain \in Seq(Block)
    BY ChainFacts, StateFields, NowFields, ZenonT(30) DEF IInv, Good
  <2>2. A \in SUBSET Block /\ b \in Block /\ \A x \in A : High(Height[x]) /\ Height[x] \in Nat
    BY <2>1, AlternativesFacts, TreeAssumption, ZenonT(30) DEF AltOK
  <2>3. LeadsTo(A, b, list)
    BY <2>1, <2>2, NowFields, AltChainFacts, ZenonT(30)
  <2>4. /\ Len(chain) >= Height[list[1]] /\ Parent[list[1]] = chain[Height[list[1]]]
    BY NowFields DEF Connects
  <2>5. Range(list) \cap BadInputs = {}
    OBVIOUS
  <2> HIDE DEF list, A
  <2>6. list \in Seq(A) /\ list # <<>> /\ list[Len(list)] = b /\ \A i \in 2 .. Len(list) : Parent[list[i]] = list[i - 1]
    BY <2>3, ZenonT(30) DEF LeadsTo, Last, A
  <2>7. \A i \in 1 .. Len(list) : list[i] \notin BadInputs
    <3>1. DOMAIN list = 1 .. Len(list)
      BY <2>6
    <3> QED BY <2>5, <3>1, Zenon DEF Range
  <2> DEFINE h == Height[list[1]]
  <2>8. h \in 1 .. Len(chain)
    <3>1. list[1] \in A
      BY <2>6, SMTT(30)
    <3>2. High(h) /\ h \in Nat
      BY <2>2, <3>1, Zenon
    <3>3. h > 0
      BY <3>2, HighFacts, ZenonT(30)
    <3> QED BY <2>1, <2>4, <3>2, <3>3
  <2> HIDE DEF h
  <2>9. Parent[list[1]] = chain[h]
    BY <2>4 DEF h
  <2>10. Sound(list[Len(list)])
    BY <2>1, <2>2, <2>6, <2>7, <2>8, <2>9, ConnectedSound, ZenonT(30)
  <2> QED BY <2>6, <2>10, Zenon
<1> QED BY <1>1, <1>2, <1>3, ChainInvariance, PTL DEF Spec
=============================================================================
