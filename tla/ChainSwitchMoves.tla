-------------------------- MODULE ChainSwitchMoves ---------------------------
(***************************************************************************)
(* What a switch and the handling of an alternative block make of a good   *)
(* state: switch_to_alternative_blockchain, the chain below an alternative *)
(* block and its work, and handle_alternative_block.  The main chain stays *)
(* as it is, is cut by a failed switch, or the whole alternative chain     *)
(* replaces its end.                                                       *)
(***************************************************************************)
EXTENDS ChainSwitchLemmas

-----------------------------------------------------------------------------
(* Switching *)

\* Sequences that agree up to the end of the shorter one.
LEMMA PrefixByElements ==
  ASSUME NEW c \in Seq(Block), NEW d \in Seq(Block), Len(c) <= Len(d),
         \A j \in 1 .. Len(c) : c[j] = d[j]
  PROVE  IsPrefix(c, d) /\ (Len(c) = Len(d) => c = d)
<1>1. c = SubSeq(d, 1, Len(c))
  OBVIOUS
<1>2. Len(c) = Len(d) => c = d
  OBVIOUS
<1> QED BY <1>1, <1>2 DEF IsPrefix

\* A chain starts with itself, and its last block is a block.
LEMMA ChainItself ==
  ASSUME NEW c, Linked(c)
  PROVE  c \in Seq(Block) /\ Len(c) > 0 /\ Last(c) \in Block /\ IsPrefix(c, c)
<1>1. c \in Seq(Block) /\ Len(c) > 0
  BY Zenon DEF Linked
<1>2. Last(c) \in Block
  BY <1>1 DEF Last
<1>3. IsPrefix(c, c)
  BY <1>1, PrefixByElements
<1> QED BY <1>1, <1>2, <1>3, Zenon

\* A position after the split.
LEMMA Beyond ==
  ASSUME NEW k \in Nat, NEW j \in Nat, NEW m \in Nat, NEW n \in Nat, j > k, j <= m, m <= n
  PROVE  j - k \in 1 .. m - k /\ j - k \in 1 .. n - k /\ j = k + (j - k)
OBVIOUS

\* A sequence that ends in another.
LEMMA SuffixByElements ==
  ASSUME NEW b \in Seq(Block), NEW c \in Seq(Block), NEW k \in Nat, Len(c) = k + Len(b),
         \A j \in 1 .. Len(b) : c[k + j] = b[j]
  PROVE  IsSuffix(b, c)
<1> DEFINE tail == SubSeq(c, k + 1, Len(c))
<1>1. Len(b) \in Nat /\ Len(b) <= Len(c) /\ Len(c) - Len(b) + 1 = k + 1
  OBVIOUS
<1>2. /\ tail \in Seq(Block) /\ Len(tail) = Len(b)
      /\ \A j \in 1 .. Len(b) : tail[j] = c[k + j]
  OBVIOUS
<1>3. b = tail
  <2> HIDE DEF tail
  <2> QED BY <1>1, <1>2, PrefixByElements
<1> QED BY <1>1, <1>3 DEF IsSuffix

\* The switch did not happen: blocks may be missing at the end of the chain only if
\* the original chain could not be restored.
Stays(s, v) ==
  /\ Good(v) /\ v.calls = s.calls /\ IsPrefix(v.chain, s.chain)
  /\ LowProgram => v.chain = s.chain

\* The switch happened: the chain ends in the alternative chain, whose last block is b.
Switched(s, v, b) ==
  /\ Good(v) /\ v.thrown = s.thrown /\ v.calls # <<>>
  /\ IsSuffix(Head(v.calls).alt, v.chain) /\ Last(v.chain) = b

\* The blocks of a list follow each other from block "height" of a chain on.
Chained(list, c, height) ==
  \A j \in 1 .. Len(list) :
    Parent[list[j].block] = IF j = 1 THEN c[height] ELSE list[j - 1].block

\* Without checkpoints a switch to such a list fails only at a block with bad inputs.
Refused(list, c, height) ==
  NeverCheckpointed /\ Chained(list, c, height) => \E j \in 1 .. Len(list) : list[j].block \in BadInputs

\* In such a list each block but the first has the one before it as its parent.
LEMMA ChainedParents ==
  ASSUME NEW list, EntriesOK(list), list # <<>>, NEW c, NEW height, Chained(list, c, height)
  PROVE  /\ list \in Seq(Entry) /\ Len(list) > 0
         /\ \A j \in 2 .. Len(list) : Parent[list[j].block] = list[j - 1].block
<1>1. list \in Seq(Entry)
  BY Zenon DEF EntriesOK
<1>2. Len(list) \in Nat /\ Len(list) > 0
  BY <1>1
<1>3. \A j \in 2 .. Len(list) : j \in 1 .. Len(list) /\ j # 1
  BY <1>2
<1>4. \A j \in 2 .. Len(list) : Parent[list[j].block] = list[j - 1].block
  BY <1>3, Zenon DEF Chained
<1> QED BY <1>1, <1>2, <1>4, Zenon

\* v is s with another stack of calls.
CallsSet(s, v, c) ==
  /\ v \in State /\ v.chain = s.chain /\ v.db = s.db /\ v.alt = s.alt
  /\ v.thrown = s.thrown /\ v.panicked = s.panicked /\ v.calls = c

\* An update of the calls in progress.
LEMMA SetCalls ==
  ASSUME NEW s \in State, NEW c \in Seq(Call)
  PROVE  \A v : v = [s EXCEPT !.calls = c] => CallsSet(s, v, c)
BY Zenon DEF State, CallsSet

\* The blocks of the chain from "split" on, with their checkpoints, as
\* switch_to_alternative_blockchain disconnects them.
Disconnected(s, split) ==
  [i \in 1 .. Len(s.chain) - split |->
     [block |-> s.chain[split + i], given |-> get_checkpoint(s.db, split + i - 1)]]

\* The blocks that switch_to_alternative_blockchain disconnects are above the first
\* chain, their checkpoints fit their heights, and they follow the split.
LEMMA DisconnectedFacts ==
  ASSUME NEW s, Good(s), NEW split \in 1 .. Len(s.chain), High(split)
  PROVE  /\ EntriesOK(Disconnected(s, split)) /\ Len(Disconnected(s, split)) = Len(s.chain) - split
         /\ \A i \in 1 .. Len(s.chain) - split : Disconnected(s, split)[i].block = s.chain[split + i]
         /\ Follows(Disconnected(s, split), s.chain, split)
<1> DEFINE o == Disconnected(s, split)
           n == Len(s.chain) - split
<1>0. s \in State /\ Linked(s.chain) /\ TableOK(s.db)
  BY DEF Good
<1>1. s.chain \in Seq(Block) /\ s.db \in Tables /\ Linked(s.chain) /\ TableOK(s.db) /\ n \in Nat
  <2>1. s.chain \in Seq(Block) /\ s.db \in Tables
    BY <1>0, StateFields, Zenon
  <2>2. Len(s.chain) \in Nat
    BY <2>1
  <2>3. n \in Nat
    BY <2>2, SMTT(30)
  <2> QED BY <1>0, <2>1, <2>3
<1>2. ASSUME NEW i \in 1 .. n
      PROVE  /\ o[i].block = s.chain[split + i] /\ o[i].given = get_checkpoint(s.db, split + i - 1)
             /\ [block |-> s.chain[split + i], given |-> get_checkpoint(s.db, split + i - 1)] \in Entry
             /\ High(Height[s.chain[split + i]])
             /\ get_checkpoint(s.db, split + i - 1) # {} => Fit(Height[s.chain[split + i]])
             /\ s.chain[split + i] \notin BadInputs
             /\ Parent[s.chain[split + i]] = s.chain[split + i - 1]
  <2> DEFINE k == split + i
  <2>1. k \in 2 .. Len(s.chain) /\ k \in 1 .. Len(s.chain) /\ k - 1 \in Nat /\ split <= k - 1
    BY <1>1, SMTT(30)
  <2>2. o[i].block = s.chain[k] /\ o[i].given = get_checkpoint(s.db, k - 1)
    BY SMTT(30) DEF Disconnected
  <2> HIDE DEF k
  <2>3. s.chain[k] \in Block /\ Height[s.chain[k]] = k - 1 /\ s.chain[k] \notin BadInputs
    BY <1>1, <2>1, SMTT(30) DEF Linked
  <2>4. Parent[s.chain[k]] = s.chain[k - 1]
    BY <1>1, <2>1, SMTT(30) DEF Linked
  <2>5. get_checkpoint(s.db, k - 1) \in SUBSET Checkpoint
    BY <1>1, TableFacts DEF get_checkpoint
  <2>6. High(k - 1)
    BY <2>1, HighFacts
  <2>7. get_checkpoint(s.db, k - 1) # {} => Fit(k - 1)
    BY <1>1 DEF get_checkpoint, TableOK
  <2>8. [block |-> s.chain[k], given |-> get_checkpoint(s.db, k - 1)] \in Entry
    BY <2>3, <2>5, SMTT(30) DEF Entry
  <2> HIDE DEF o
  <2>9. /\ o[i].block = s.chain[k] /\ o[i].given = get_checkpoint(s.db, k - 1)
        /\ [block |-> s.chain[k], given |-> get_checkpoint(s.db, k - 1)] \in Entry
        /\ High(Height[s.chain[k]])
        /\ get_checkpoint(s.db, k - 1) # {} => Fit(Height[s.chain[k]])
        /\ s.chain[k] \notin BadInputs /\ Parent[s.chain[k]] = s.chain[k - 1]
    BY <2>2, <2>3, <2>4, <2>6, <2>7, <2>8
  <2>10. k = split + i
    BY DEF k
  <2> QED BY <2>9, <2>10, SMTT(30)
<1>3. o \in Seq(Entry) /\ Len(o) = n
  <2>1. o = [i \in 1 .. n |->
               [block |-> s.chain[split + i], given |-> get_checkpoint(s.db, split + i - 1)]]
    BY DEF Disconnected
  <2>2. o \in [1 .. n -> Entry]
    BY <1>2, <2>1, Zenon
  <2> HIDE DEF o, n
  <2> QED BY <1>1, <2>2
<1>4. EntriesOK(o)
  <2> HIDE DEF o, n
  <2> QED BY <1>2, <1>3, Zenon DEF EntriesOK
<1>5. Follows(o, s.chain, split)
  <2>1. ASSUME NEW j \in 1 .. n, j # 1 PROVE s.chain[split + j - 1] = o[j - 1].block
    <3>1. j - 1 \in 1 .. n /\ split + (j - 1) = split + j - 1
      BY <2>1
    <3> HIDE DEF o, n
    <3> QED BY <1>2, <3>1, Zenon
  <2>2. split + 1 - 1 = split
    BY SMTT(30)
  <2>3. ASSUME NEW j \in 1 .. n
        PROVE  /\ o[j].block \notin BadInputs
               /\ Parent[o[j].block] = IF j = 1 THEN s.chain[split] ELSE o[j - 1].block
    <3>1. o[j].block \notin BadInputs /\ Parent[o[j].block] = s.chain[split + j - 1]
      BY <1>2, Zenon
    <3>2. CASE j = 1
      BY <2>2, <3>1, <3>2, Zenon
    <3>3. CASE j # 1
      <4>1. s.chain[split + j - 1] = o[j - 1].block
        BY <2>1, <3>3, Zenon
      <4> HIDE DEF o, n
      <4> QED BY <3>1, <3>3, <4>1
    <3> QED BY <3>1, <3>2, <3>3
  <2> HIDE DEF o, n
  <2> QED BY <1>3, <2>3, Zenon DEF Follows
<1> HIDE DEF o
<1> QED BY <1>2, <1>3, <1>4, <1>5, Zenon DEF o

\* The blocks of a list.
LEMMA BlocksOf ==
  ASSUME NEW list \in Seq(Entry)
  PROVE  LET b == [i \in DOMAIN list |-> list[i].block]
         IN  b \in Seq(Block) /\ Len(b) = Len(list) /\ \A i \in 1 .. Len(list) : b[i] = list[i].block
<1>1. \A i \in 1 .. Len(list) : list[i].block \in Block
  <2>1. \A i \in 1 .. Len(list) : list[i] \in Entry
    OBVIOUS
  <2> QED BY <2>1 DEF Entry
<1>2. DOMAIN list = 1 .. Len(list) /\ Len(list) \in Nat
  OBVIOUS
<1> DEFINE b == [i \in DOMAIN list |-> list[i].block]
<1>3. b \in [1 .. Len(list) -> Block] /\ \A i \in 1 .. Len(list) : b[i] = list[i].block
  BY <1>1, <1>2
<1> HIDE DEF b
<1>4. b \in Seq(Block) /\ Len(b) = Len(list)
  BY <1>2, <1>3
<1> QED BY <1>3, <1>4 DEF b

\* switch_to_alternative_blockchain: all of the alternative chain, or the chain as
\* it was.
LEMMA SwitchFacts ==
  ASSUME NEW s, Good(s), NEW alt_chain, EntriesOK(alt_chain), alt_chain # <<>>,
         NEW split \in 1 .. Len(s.chain), split = Height[alt_chain[1].block], NEW keep \in BOOLEAN
  PROVE  LET v == switch_to_alternative_blockchain(s, alt_chain, keep)
         IN  /\ DOMAIN v.alt \subseteq DOMAIN s.alt
             /\ \/ Stays(s, v) /\ Refused(alt_chain, s.chain, split)
                \/ Switched(s, v, alt_chain[Len(alt_chain)].block)
<1> DEFINE original == Disconnected(s, split)
           d == Detach(s, split)
           r == ConnectAll(d, alt_chain)
           call == [old |-> IF keep THEN original ELSE <<>>,
                    alt |-> [i \in DOMAIN alt_chain |-> alt_chain[i].block]]
           failed == SwitchFailed(r.s, alt_chain, r.done, original, split)
           c == <<call>> \o r.s.calls
           v == switch_to_alternative_blockchain(s, alt_chain, keep)
<1>1. v = IF ~r.ok THEN failed ELSE [r.s EXCEPT !.calls = c]
  BY DEF switch_to_alternative_blockchain, Disconnected
<1>2. /\ s \in State /\ Linked(s.chain) /\ TableOK(s.db) /\ AltOK(s.alt) /\ CallsOK(s.calls)
      /\ s.chain \in Seq(Block) /\ split \in Nat /\ (LowProgram => ~s.panicked) /\ s.calls \in Seq(Call)
  <2>1. s \in State /\ Linked(s.chain) /\ TableOK(s.db) /\ AltOK(s.alt) /\ CallsOK(s.calls) /\ (LowProgram => ~s.panicked)
    BY DEF Good
  <2>2. s.chain \in Seq(Block) /\ s.calls \in Seq(Call)
    BY <2>1, StateFields
  <2>3. split \in Nat
    BY <2>2
  <2> QED BY <2>1, <2>2, <2>3, Zenon
<1>3. alt_chain \in Seq(Entry) /\ Len(alt_chain) \in Nat /\ Len(alt_chain) > 0 /\ High(split)
  BY DEF EntriesOK
<1>4. /\ d \in State /\ Same(s, d) /\ Linked(d.chain) /\ TableOK(d.db)
      /\ Len(d.chain) = split /\ \A j \in 1 .. split : d.chain[j] = s.chain[j]
  BY <1>2, DetachFacts, Zenon
<1>5. /\ EntriesOK(original) /\ Len(original) = Len(s.chain) - split
      /\ \A i \in 1 .. Len(s.chain) - split : original[i].block = s.chain[split + i]
      /\ Follows(original, s.chain, split)
  BY <1>3, DisconnectedFacts, ZenonT(30)
<1> HIDE DEF original, d
<1>6. Outcome(d, alt_chain, Len(alt_chain), r)
  BY <1>4, ConnectAllFacts
<1> HIDE DEF r
<1>7. /\ r.s \in State /\ r.ok \in BOOLEAN /\ r.done \in Nat
      /\ r.done <= Len(alt_chain) /\ (r.ok => r.done = Len(alt_chain)) /\ (~r.ok => r.done < Len(alt_chain))
      /\ Len(r.s.chain) = split + r.done
      /\ \A j \in 1 .. split : r.s.chain[j] = d.chain[j]
      /\ \A j \in 1 .. r.done : r.s.chain[split + j] = alt_chain[j].block
      /\ Linked(r.s.chain) /\ TableOK(r.s.db) /\ Same(d, r.s)
  BY <1>4, <1>6, Zenon DEF Outcome, Results
<1>8. /\ r.s.alt = s.alt /\ r.s.calls = s.calls /\ r.s.thrown = s.thrown /\ r.s.panicked = s.panicked
      /\ \A j \in 1 .. split : r.s.chain[j] = s.chain[j]
  BY <1>4, <1>7, Zenon DEF Same
<1>r. ~r.ok => Refused(alt_chain, s.chain, split)
  <2>1. SUFFICES ASSUME NeverCheckpointed, Chained(alt_chain, s.chain, split),
                        \A j \in 1 .. Len(alt_chain) : alt_chain[j].block \notin BadInputs
                 PROVE  r.ok
    BY DEF Refused
  <2>2. DOMAIN d.db = {}
    BY <1>4, <2>1, Zenon DEF TableOK, Fit
  <2>3. Last(d.chain) = s.chain[split]
    BY <1>2, <1>4, SMTT(30) DEF Last
  <2>4. Connectable(d, alt_chain)
    BY <2>1, <2>2, <2>3, Zenon DEF Connectable, Chained
  <2> QED BY <1>6, <2>4, Zenon DEF Outcome
<1>9. CASE ~r.ok
  <2> DEFINE back == rollback_blockchain_switching(r.s, original, split)
  <2>1. split \in 1 .. Len(r.s.chain)
    <3>1. split \in Nat /\ split >= 1 /\ r.done \in Nat /\ Len(r.s.chain) = split + r.done
      BY <1>2, <1>7
    <3> QED BY <3>1, SMTT(30)
  <2>2. /\ RolledBack(r.s, back, original, split)
        /\ (LowProgram /\ High(split) /\ Follows(original, r.s.chain, split)) =>
             back.panicked = r.s.panicked /\ Len(back.chain) = split + Len(original)
    BY <1>5, <1>7, <2>1, RollbackFacts, Zenon
  <2>3. Follows(original, r.s.chain, split)
    <3>1. r.s.chain[split] = s.chain[split]
      BY <1>2, <1>8
    <3> QED BY <1>5, <3>1, ZenonT(30) DEF Follows
  <2>4. back \in State
    BY <2>2, Zenon DEF RolledBack
  <2>5. Shrunk(back, failed)
    BY <1>3, <1>7, <1>9, <2>4, FailedFacts, ZenonT(30)
  <2> HIDE DEF back, failed
  <2>6. /\ Linked(back.chain) /\ TableOK(back.db) /\ back.alt = s.alt /\ back.calls = s.calls
        /\ Len(back.chain) >= split /\ Len(back.chain) <= split + Len(original)
        /\ \A j \in 1 .. split : back.chain[j] = s.chain[j]
        /\ \A j \in 1 .. Len(back.chain) - split : back.chain[split + j] = original[j].block
    BY <1>8, <2>2, ZenonT(30) DEF RolledBack
  <2>7. /\ failed \in State /\ failed.chain = back.chain /\ failed.db = back.db
        /\ failed.calls = s.calls /\ failed.panicked = back.panicked /\ AltOK(failed.alt)
        /\ DOMAIN failed.alt \subseteq DOMAIN s.alt
    BY <1>2, <2>5, <2>6, ZenonT(30) DEF Shrunk
  <2>8. back.chain \in Seq(Block) /\ Len(back.chain) \in Nat /\ Len(s.chain) \in Nat
    BY <1>2, <2>6, SMTT(30) DEF Linked
  <2>9. Len(back.chain) <= Len(s.chain)
    <3>1. Len(back.chain) <= split + (Len(s.chain) - split)
      BY <1>5, <2>6, Zenon
    <3> QED BY <1>2, <2>8, <3>1
  <2>10. ASSUME NEW j \in 1 .. Len(back.chain) PROVE back.chain[j] = s.chain[j]
    <3>1. CASE j <= split
      BY <1>2, <2>6, <2>8, <3>1
    <3>2. CASE j > split
      <4> DEFINE i == j - split
      <4>1. i \in 1 .. Len(back.chain) - split /\ i \in 1 .. Len(s.chain) - split /\ j = split + i
        <5>1. j \in Nat /\ j <= Len(back.chain)
          BY <2>8
        <5> QED BY <1>2, <2>8, <2>9, <3>2, <5>1, Beyond, ZenonT(30)
      <4> HIDE DEF i
      <4> QED BY <1>5, <2>6, <4>1, Zenon
    <3>3. j <= split \/ j > split
      <4>1. split \in Nat /\ j \in Nat
        BY <2>8
      <4> QED BY <4>1
    <3> QED BY <3>1, <3>2, <3>3, Zenon
  <2>11. IsPrefix(back.chain, s.chain) /\ (Len(back.chain) = Len(s.chain) => back.chain = s.chain)
    BY <1>2, <2>8, <2>9, <2>10, PrefixByElements, Zenon
  <2>12. ASSUME LowProgram PROVE back.chain = s.chain /\ ~back.panicked
    <3>1. back.panicked = s.panicked /\ Len(back.chain) = split + Len(original)
      BY <1>3, <1>8, <2>2, <2>3, <2>12, Zenon
    <3>2. split + (Len(s.chain) - split) = Len(s.chain)
      BY <1>2, <2>8
    <3> QED BY <1>2, <1>5, <2>11, <2>12, <3>1, <3>2, ZenonT(30)
  <2>13. Stays(s, failed)
    BY <1>2, <2>6, <2>7, <2>11, <2>12, Zenon DEF Stays, Good
  <2> QED BY <1>1, <1>9, <1>r, <2>7, <2>13, ZenonT(30)
<1>10. CASE r.ok
  <2>0. v = [r.s EXCEPT !.calls = c]
    BY <1>1, <1>10
  <2> DEFINE blocks == [i \in DOMAIN alt_chain |-> alt_chain[i].block]
             old == IF keep THEN original ELSE <<>>
  <2>1. blocks \in Seq(Block) /\ Len(blocks) = Len(alt_chain) /\ \A i \in 1 .. Len(alt_chain) : blocks[i] = alt_chain[i].block
    BY <1>3, BlocksOf
  <2>2. EntriesOK(old) /\ old \in Seq(Entry)
    <3>1. original \in Seq(Entry) /\ EntriesOK(original)
      BY <1>5, Zenon DEF EntriesOK
    <3>2. <<>> \in Seq(Entry) /\ EntriesOK(<<>>)
      BY DEF EntriesOK
    <3> QED BY <3>1, <3>2
  <2>3. call = [old |-> old, alt |-> blocks]
    OBVIOUS
  <2> HIDE DEF blocks, old, v
  <2>4. call \in Call /\ call.old = old /\ call.alt = blocks
    BY <2>1, <2>2, <2>3, Zenon DEF Call
  <2> HIDE DEF call
  <2>5. /\ c \in Seq(Call) /\ c # <<>> /\ Head(c) = call /\ Len(c) = Len(s.calls) + 1
        /\ c[1] = call /\ \A i \in 2 .. Len(s.calls) + 1 : c[i] = s.calls[i - 1]
    BY <1>2, <1>8, <2>4, SMTT(30)
  <2>6. CallsOK(c)
    <3>1. ASSUME NEW i \in 1 .. Len(c) PROVE EntriesOK(c[i].old)
      <4>1. CASE i = 1
        BY <2>2, <2>4, <2>5, <4>1, ZenonT(30)
      <4>2. CASE i # 1
        <5>1. i \in 2 .. Len(s.calls) + 1 /\ i - 1 \in 1 .. Len(s.calls)
          BY <1>2, <2>5, <4>2
        <5> QED BY <1>2, <2>5, <5>1, Zenon DEF CallsOK
      <4> QED BY <4>1, <4>2, SMTT(30)
    <3> QED BY <3>1 DEF CallsOK
  <2> HIDE DEF c
  <2>7. CallsSet(r.s, v, c)
    BY <1>7, <2>0, <2>5, SetCalls, ZenonT(30)
  <2>8. /\ v \in State /\ v.chain = r.s.chain /\ v.db = r.s.db /\ v.alt = s.alt
        /\ v.thrown = s.thrown /\ v.panicked = s.panicked /\ v.calls = c
    BY <1>8, <2>7 DEF CallsSet
  <2>9. Good(v)
    BY <1>2, <1>7, <2>6, <2>8, Zenon DEF Good
  <2>10. /\ v.chain \in Seq(Block) /\ Len(v.chain) = split + Len(alt_chain)
         /\ \A j \in 1 .. Len(alt_chain) : v.chain[split + j] = alt_chain[j].block
    BY <1>7, <1>10, <2>8, ZenonT(30) DEF Linked
  <2>11. Last(v.chain) = alt_chain[Len(alt_chain)].block
    <3>1. Len(alt_chain) \in 1 .. Len(alt_chain)
      BY <1>3
    <3> QED BY <2>10, <3>1 DEF Last
  <2>12. IsSuffix(blocks, v.chain)
    <3> DEFINE w == v.chain
    <3>1. /\ w \in Seq(Block) /\ Len(w) = split + Len(blocks)
          /\ \A j \in 1 .. Len(blocks) : w[split + j] = blocks[j]
      BY <2>1, <2>10
    <3> HIDE DEF w
    <3>2. IsSuffix(blocks, w)
      BY <1>2, <2>1, <3>1, SuffixByElements, ZenonT(30)
    <3> QED BY <3>2 DEF w
  <2>13. Switched(s, v, alt_chain[Len(alt_chain)].block)
    BY <2>4, <2>5, <2>8, <2>9, <2>11, <2>12, Zenon DEF Switched
  <2> QED BY <2>8, <2>13, Zenon DEF v
<1> QED BY <1>7, <1>9, <1>10, Zenon

-----------------------------------------------------------------------------
(* Alternative blocks *)

\* The alternative blocks A that lead to x: each follows its parent, and x is the
\* last of them when it is one.
LeadsTo(A, x, list) ==
  /\ list \in Seq(A)
  /\ \A i \in 2 .. Len(list) : Parent[list[i]] = list[i - 1]
  /\ IF x \in A THEN list # <<>> /\ Last(list) = x ELSE list = <<>>

\* One more block of the walk.
LEMMA LeadsFurther ==
  ASSUME NEW A, NEW y \in A, NEW p, LeadsTo(A, Parent[y], p)
  PROVE  LeadsTo(A, y, Append(p, y))
<1> DEFINE q == Append(p, y)
<1>1. p \in Seq(A) /\ Len(p) \in Nat
  BY DEF LeadsTo
<1>2. /\ q \in Seq(A) /\ Len(q) = Len(p) + 1 /\ q[Len(p) + 1] = y /\ q # <<>>
      /\ \A i \in 1 .. Len(p) : q[i] = p[i]
  BY <1>1
<1> HIDE DEF q
<1>3. ASSUME NEW i \in 2 .. Len(q) PROVE Parent[q[i]] = q[i - 1]
  <2>1. CASE i = Len(p) + 1
    <3>1. p # <<>> /\ i - 1 = Len(p) /\ Len(p) \in 1 .. Len(p)
      BY <1>1, <1>3, <2>1
    <3>2. p[Len(p)] = Parent[y]
      BY <3>1 DEF LeadsTo, Last
    <3> QED BY <1>2, <2>1, <3>1, <3>2
  <2>2. CASE i # Len(p) + 1
    <3>1. i \in 2 .. Len(p) /\ i \in 1 .. Len(p) /\ i - 1 \in 1 .. Len(p)
      BY <1>1, <1>2, <1>3, <2>2
    <3> QED BY <1>2, <3>1 DEF LeadsTo
  <2> QED BY <2>1, <2>2
<1>4. Last(q) = y
  BY <1>2 DEF Last
<1>5. LeadsTo(A, y, q)
  BY <1>2, <1>3, <1>4 DEF LeadsTo
<1> QED BY <1>5 DEF q

\* build_alt_chain: the walk through the parents ends, and it meets alternative
\* blocks only.
LEMMA AltChainFacts ==
  ASSUME NEW s \in State, AltOK(s.alt), NEW x \in Block
  PROVE  LeadsTo(DOMAIN s.alt, x, AltChain(s, x))
<1> DEFINE A == DOMAIN s.alt
           V == Seq(A)
           Def(f, y) == IF y \in A THEN Append(f[Parent[y]], y) ELSE <<>>
           to == CHOOSE f : f = [y \in Block |-> Def(f, y)]
           base == [y \in Block |-> <<>>]
           step == [y \in Block |-> [p \in V |-> IF y \in A THEN Append(p, y) ELSE <<>>]]
<1>1. A \in SUBSET Block
  BY StateFields, AlternativesFacts
<1>2. \A y \in Block : Height[y] \in Nat
  BY TreeAssumption
<1>3. \A y \in A : Parent[y] \in Block /\ Height[Parent[y]] < Height[y]
  <2> SUFFICES ASSUME NEW y \in A PROVE Parent[y] \in Block /\ Height[Parent[y]] < Height[y]
    OBVIOUS
  <2>1. y \in Block /\ High(Height[y])
    BY <1>1 DEF AltOK
  <2>2. Parent[y] \in Block /\ Height[y] = Height[Parent[y]] + 1
    BY <2>1, ParentHeight
  <2> QED BY <1>2, <2>2
<1> HIDE DEF A
<1>4. base \in [Block -> V] /\ step \in [Block -> [V -> V]]
  OBVIOUS
<1>5. \A y \in Block : base[y] = <<>> /\ (y \in A => \A p \in V : step[y][p] = Append(p, y))
  OBVIOUS
<1> HIDE DEF base, step, V
<1>t. IsTree(Block, A, Parent, Height)
  BY <1>1, <1>2, <1>3 DEF IsTree
<1>6. PICK f \in [Block -> V] : \A y \in Block : f[y] = IF y \in A THEN step[y][f[Parent[y]]] ELSE base[y]
  <2>1. Recursion(Block, V, A, Parent, base, step)
    BY <1>4, <1>t, TreeRecursion, Zenon
  <2> QED BY <2>1, Zenon DEF Recursion
<1>7. \A y \in Block : f[y] = Def(f, y)
  BY <1>3, <1>5, <1>6, Zenon
<1>8. f = [y \in Block |-> Def(f, y)]
  BY <1>6, <1>7
<1>9. to = [y \in Block |-> Def(to, y)]
  BY <1>8, Zenon
<1> HIDE DEF to
<1>10. \A y \in Block : to[y] = Def(to, y)
  BY <1>9, Zenon
<1> DEFINE S == {y \in Block : LeadsTo(A, y, to[y])}
<1>11. \A y \in Block : (y \in A => Parent[y] \in S) => y \in S
  <2> SUFFICES ASSUME NEW y \in Block, y \in A => Parent[y] \in S PROVE LeadsTo(A, y, to[y])
    OBVIOUS
  <2>1. CASE y \in A
    <3>1. LeadsTo(A, Parent[y], to[Parent[y]]) /\ to[y] = Append(to[Parent[y]], y)
      BY <1>10, <2>1, ZenonT(30)
    <3> QED BY <2>1, <3>1, LeadsFurther
  <2>2. CASE y \notin A
    <3>1. to[y] = <<>>
      BY <1>10, <2>2, Zenon
    <3> QED BY <2>2, <3>1 DEF LeadsTo
  <2> QED BY <2>1, <2>2
<1>12. \A y \in Block : y \in S
  <2> HIDE DEF S
  <2> QED BY <1>t, <1>11, TreeInduction
<1>13. AltChain(s, x) = to[x]
  BY Zenon DEF AltChain, to, A
<1> QED BY <1>12, <1>13 DEF A

\* The entries of the chain that build_alt_chain returns.
LEMMA AltEntries ==
  ASSUME NEW s \in State, AltOK(s.alt), TableOK(s.db), NEW list \in Seq(DOMAIN s.alt)
  PROVE  LET entries == [i \in DOMAIN list |-> AltEntry(s, list[i])]
         IN  /\ EntriesOK(entries) /\ Len(entries) = Len(list)
             /\ \A i \in 1 .. Len(list) : entries[i].block = list[i]
<1> DEFINE entries == [i \in DOMAIN list |-> AltEntry(s, list[i])]
<1>1. s.alt \in Alternatives /\ s.db \in Tables
  BY StateFields, Zenon
<1>2. ASSUME NEW b \in DOMAIN s.alt
      PROVE  /\ AltEntry(s, b) \in Entry /\ AltEntry(s, b).block = b
             /\ High(Height[b]) /\ (AltEntry(s, b).given # {} => Fit(Height[b]))
  <2>1. b \in Block /\ s.alt[b] \in SUBSET Checkpoint
    BY <1>1, AlternativesFacts, Zenon
  <2>2. High(Height[b]) /\ (s.alt[b] # {} => Fit(Height[b]))
    BY SMTT(30) DEF AltOK
  <2> DEFINE stored == {c \in get_checkpoint(s.db, Height[b]) : c.block_hash = b}
             given == IF s.alt[b] # {} THEN s.alt[b] ELSE stored
  <2>3. stored \in SUBSET Checkpoint /\ (stored # {} => Fit(Height[b]))
    BY <1>1, TableFacts DEF get_checkpoint, TableOK
  <2> HIDE DEF stored
  <2>4. given \in SUBSET Checkpoint /\ (given # {} => Fit(Height[b]))
    BY <2>1, <2>2, <2>3
  <2>5. AltEntry(s, b) = [block |-> b, given |-> given]
    BY Zenon DEF AltEntry, stored
  <2> HIDE DEF given
  <2> QED BY <2>1, <2>2, <2>4, <2>5 DEF Entry
<1>3. Len(list) \in Nat /\ DOMAIN list = 1 .. Len(list) /\ \A i \in 1 .. Len(list) : list[i] \in DOMAIN s.alt
  BY SMTT(30)
<1>4. \A i \in 1 .. Len(list) :
         /\ entries[i] \in Entry /\ entries[i].block = list[i] /\ High(Height[entries[i].block])
         /\ entries[i].given # {} => Fit(Height[entries[i].block])
  BY <1>2, <1>3, Zenon
<1>5. entries \in [1 .. Len(list) -> Entry]
  BY <1>2, <1>3, Zenon
<1> HIDE DEF entries
<1>6. entries \in Seq(Entry) /\ Len(entries) = Len(list)
  BY <1>3, <1>5
<1> QED BY <1>4, <1>6, Zenon DEF entries, EntriesOK

\* e lists the blocks of list, then b.
Lists(e, list, b) ==
  /\ Len(e) = Len(list) + 1 /\ e[Len(list) + 1].block = b
  /\ \A i \in 1 .. Len(list) : e[i].block = list[i]

\* The first block of list and b has its parent on the main chain.
Starts(s, list, b) == IF list = <<>> THEN InMain(s, Parent[b]) ELSE Connects(s, list[1])

\* The height of that block.
SplitOf(list, b) == Height[IF list = <<>> THEN b ELSE list[1]]

\* The blocks of an alternative chain and the new block follow the main chain from
\* the block at which build_alt_chain stopped.
LEMMA ChainedEntries ==
  ASSUME NEW s, s.alt \in Alternatives, AltOK(s.alt), Linked(s.chain), NEW b \in Block, High(Height[b]),
         NEW list, LeadsTo(DOMAIN s.alt, Parent[b], list), Starts(s, list, b),
         NEW e, Lists(e, list, b)
  PROVE  SplitOf(list, b) \in 1 .. Len(s.chain) /\ Chained(e, s.chain, SplitOf(list, b))
<1> DEFINE split == SplitOf(list, b)
<1>1. s.chain \in Seq(Block) /\ list \in Seq(DOMAIN s.alt) /\ Len(list) \in Nat
  BY DEF Linked, LeadsTo
<1>2. CASE list = <<>>
  <2>1. PICK i \in 1 .. Len(s.chain) : Parent[b] = s.chain[i]
    BY <1>1, <1>2 DEF Starts, InMain, Range
  <2>2. Height[Parent[b]] = i - 1
    BY <2>1, Zenon DEF Linked
  <2>3. Height[b] = Height[Parent[b]] + 1
    BY ParentHeight, Zenon
  <2>4. split = i
    BY <1>2, <2>2, <2>3 DEF SplitOf
  <2> HIDE DEF split
  <2>5. Len(list) + 1 = 1
    BY <1>2
  <2>6. Len(e) = 1 /\ e[1].block = b
    BY <2>5, Zenon DEF Lists
  <2>7. Chained(e, s.chain, split)
    BY <2>1, <2>4, <2>6 DEF Chained
  <2> QED BY <2>4, <2>7, Zenon DEF split
<1>3. CASE list # <<>>
  <2>1. 1 \in 1 .. Len(list) /\ split = Height[list[1]]
    BY <1>1, <1>3 DEF SplitOf
  <2> HIDE DEF split
  <2>2. list[1] \in DOMAIN s.alt /\ list[1] \in Block
    BY <1>1, <2>1, AlternativesFacts
  <2>3. High(split) /\ split \in Nat
    BY <2>1, <2>2, TreeAssumption, Zenon DEF AltOK
  <2>4. split > 0
    BY <2>3, HighFacts, ZenonT(30)
  <2>5. Len(s.chain) >= split /\ Parent[list[1]] = s.chain[split]
    BY <1>3, <2>1 DEF Starts, Connects
  <2>6. split \in 1 .. Len(s.chain)
    <3>1. \A n, k \in Nat : n > 0 /\ k >= n => n \in 1 .. k
      OBVIOUS
    <3>2. Len(s.chain) \in Nat
      BY <1>1
    <3> QED BY <2>3, <2>4, <2>5, <3>1, <3>2, ZenonT(30)
  <2>7. ASSUME NEW j \in 1 .. Len(e)
        PROVE  Parent[e[j].block] = IF j = 1 THEN s.chain[split] ELSE e[j - 1].block
    <3>1. CASE j = 1
      BY <2>1, <2>5, <3>1, Zenon DEF Lists
    <3>2. CASE j # 1 /\ j # Len(list) + 1
      <4>1. j \in 2 .. Len(list) /\ j \in 1 .. Len(list) /\ j - 1 \in 1 .. Len(list)
        BY <1>1, <2>7, <3>2 DEF Lists
      <4>2. Parent[list[j]] = list[j - 1]
        BY <4>1, Zenon DEF LeadsTo
      <4> QED BY <3>2, <4>1, <4>2, Zenon DEF Lists
    <3>3. CASE j = Len(list) + 1 /\ j # 1
      <4>1. j - 1 = Len(list) /\ Len(list) \in 1 .. Len(list)
        BY <1>1, <2>1, <3>3
      <4>2. list[Len(list)] = Parent[b]
        BY <1>3 DEF LeadsTo, Last
      <4> QED BY <3>3, <4>1, <4>2, ZenonT(30) DEF Lists
    <3> QED BY <3>1, <3>2, <3>3, ZenonT(30)
  <2>8. Chained(e, s.chain, split)
    BY <2>7, Zenon DEF Chained
  <2> QED BY <2>6, <2>8, Zenon DEF split
<1> QED BY <1>2, <1>3, Zenon

-----------------------------------------------------------------------------
(* The work of a chain *)

\* A checkpoint without signatures has none to count.
LEMMA EmptyCardinality == \A S : S = {} => Cardinality(S) = 0
<1> DEFINE Q(g) == g = [T \in SUBSET {} |-> IF T = {} THEN 0 ELSE 1 + g[T \ {CHOOSE x : x \in T}]]
           CS == CHOOSE g : Q(g)
<1>1. Cardinality({}) = CS[{}]
  BY DEF Cardinality
<1>2. Q([T \in SUBSET {} |-> 0])
  OBVIOUS
<1>3. Q(CS)
  BY <1>2, Zenon
<1> HIDE DEF CS
<1>4. CS[{}] = 0
  BY <1>3
<1>5. Cardinality({}) = 0
  BY <1>1, <1>4
<1> QED BY <1>5, Zenon

\* The cumulative difficulty is defined by its equation.
LEMMA CumulativeFacts ==
  /\ \A b \in Block : cumulative_difficulty[b] \in Int
  /\ \A b \in Block \ Range(FirstChain) :
       cumulative_difficulty[b] = cumulative_difficulty[Parent[b]] + Difficulty[b]
<1> DEFINE A == Block \ Range(FirstChain)
           Def(f, y) == IF y \in Range(FirstChain) THEN Height[y] ELSE f[Parent[y]] + Difficulty[y]
           cd == CHOOSE f : f = [y \in Block |-> Def(f, y)]
           base == [y \in Block |-> Height[y]]
           step == [y \in Block |-> [p \in Int |-> p + Difficulty[y]]]
<1>1. \A y \in Block : Height[y] \in Nat /\ Difficulty[y] \in Nat
  BY TreeAssumption
<1>2. IsTree(Block, A, Parent, Height)
  <2>1. \A y \in A : Parent[y] \in Block /\ Height[y] = Height[Parent[y]] + 1
    BY TreeAssumption
  <2> QED BY <1>1, <2>1 DEF IsTree
<1>3. base \in [Block -> Int] /\ step \in [Block -> [Int -> Int]]
  BY <1>1
<1>4. \A y \in Block : base[y] = Height[y] /\ \A p \in Int : step[y][p] = p + Difficulty[y]
  OBVIOUS
<1> HIDE DEF base, step, A
<1>5. PICK f \in [Block -> Int] : \A y \in Block : f[y] = IF y \in A THEN step[y][f[Parent[y]]] ELSE base[y]
  <2>1. Recursion(Block, Int, A, Parent, base, step)
    BY <1>2, <1>3, TreeRecursion, Zenon
  <2> QED BY <2>1, Zenon DEF Recursion
<1>6. \A y \in A : y \in Block /\ Parent[y] \in Block
  BY <1>2, Zenon DEF IsTree
<1>7. \A y \in Block : f[y] = Def(f, y)
  BY <1>4, <1>5, <1>6, ZenonT(30) DEF A
<1>8. f = [y \in Block |-> Def(f, y)]
  BY <1>5, <1>7
<1>9. cd = [y \in Block |-> Def(cd, y)]
  BY <1>8, Zenon
<1> HIDE DEF cd
<1>10. \A y \in Block : cd[y] = Def(cd, y)
  BY <1>9
<1> DEFINE S == {y \in Block : cd[y] \in Int}
<1>11. \A y \in Block : (y \in A => Parent[y] \in S) => y \in S
  BY <1>1, <1>10 DEF A
<1>12. \A y \in Block : y \in S
  <2> HIDE DEF S
  <2> QED BY <1>2, <1>11, TreeInduction
<1>13. cumulative_difficulty = cd
  BY Zenon DEF cumulative_difficulty, cd
<1> QED BY <1>10, <1>12, <1>13, Zenon DEF A

\* A block that a chain of valid blocks leads to.
Sound(b) == \E c : Linked(c) /\ Last(c) = b

\* Positions counted from the ends of two sequences, one further back.
LEMMA OneBack ==
  ASSUME NEW m \in Nat, NEW n \in Nat, NEW k \in Nat, k + 1 < n, m - k >= 1
  PROVE  /\ m - k \in 1 .. m /\ n - k \in 2 .. n /\ n - k \in 1 .. n
         /\ (m - k) - 1 = m - (k + 1) /\ (n - k) - 1 = n - (k + 1)
OBVIOUS

\* The blocks before such a block are valid.
LEMMA SoundAncestors ==
  ASSUME NEW b, Sound(b), NEW list, EntriesOK(list), Len(list) > 0, list[Len(list)].block = b,
         \A j \in 2 .. Len(list) : Parent[list[j].block] = list[j - 1].block
  PROVE  \A j \in 1 .. Len(list) : list[j].block \notin BadInputs
<1>1. PICK c : Linked(c) /\ Last(c) = b
  BY DEF Sound
<1> DEFINE n == Len(list)
           m == Len(c)
           U == {k \in Nat : k < n => m - k >= 1 /\ c[m - k] = list[n - k].block}
<1>2. /\ c \in Seq(Block) /\ m \in Nat /\ m > 0 /\ list \in Seq(Entry) /\ n \in Nat /\ n > 0
      /\ c[m] = list[n].block
  <2>1. c \in Seq(Block) /\ Len(c) > 0 /\ list \in Seq(Entry) /\ c[Len(c)] = list[Len(list)].block
    BY <1>1, Zenon DEF Linked, EntriesOK, Last
  <2>2. Len(c) \in Nat /\ Len(list) \in Nat
    BY <2>1
  <2> QED BY <2>1, <2>2, Zenon
<1>3. \A j \in 1 .. n : High(Height[list[j].block]) /\ list[j].block \in Block
  <2>1. \A j \in 1 .. n : list[j] \in Entry
    BY <1>2
  <2> QED BY <2>1 DEF EntriesOK, Entry
<1>4. \A i \in 1 .. m : Height[c[i]] = i - 1 /\ c[i] \notin BadInputs /\ (i > 1 => Parent[c[i]] = c[i - 1])
  BY <1>1, <1>2 DEF Linked
<1> HIDE DEF n, m
<1>5. 0 \in U
  BY <1>2
<1>6. ASSUME NEW k \in Nat, k \in U PROVE k + 1 \in U
  <2>1. SUFFICES ASSUME k + 1 < n PROVE m - (k + 1) >= 1 /\ c[m - (k + 1)] = list[n - (k + 1)].block
    OBVIOUS
  <2> DEFINE i == m - k
             j == n - k
  <2>2. i \in 1 .. m /\ j \in 2 .. n /\ j \in 1 .. n /\ c[i] = list[j].block /\ i - 1 = m - (k + 1) /\ j - 1 = n - (k + 1)
    <3>1. m - k >= 1 /\ c[m - k] = list[n - k].block
      BY <1>2, <1>6, <2>1
    <3> QED BY <1>2, <2>1, <3>1, OneBack, Zenon
  <2> HIDE DEF i, j
  <2>3. High(i - 1) /\ i - 1 \in Nat
    <3>1. High(Height[list[j].block]) /\ Height[c[i]] = i - 1
      BY <1>3, <1>4, <2>2, ZenonT(30)
    <3>2. i - 1 \in Nat
      BY <1>2, <2>2
    <3> QED BY <2>2, <3>1, <3>2, ZenonT(30)
  <2>4. i - 1 > 0
    BY <2>3, HighFacts, Zenon
  <2>5. Parent[c[i]] = c[i - 1] /\ Parent[list[j].block] = list[j - 1].block
    <3>1. i > 1
      BY <1>2, <2>2, <2>4
    <3> QED BY <1>4, <2>2, <3>1, Zenon DEF n
  <2>6. i - 1 >= 1
    BY <2>3, <2>4
  <2> QED BY <2>2, <2>5, <2>6, ZenonT(30)
<1>7. \A k \in Nat : k \in U
  <2> HIDE DEF U
  <2> QED BY <1>5, <1>6, SetInduction, Zenon
<1>8. ASSUME NEW j \in 1 .. n PROVE list[j].block \notin BadInputs
  <2> DEFINE k == n - j
  <2>1. k \in Nat /\ k < n /\ n - k = j
    BY <1>2
  <2>2. m - k >= 1 /\ c[m - k] = list[n - k].block /\ m - k \in 1 .. m
    <3> HIDE DEF k
    <3>1. m - k >= 1 /\ c[m - k] = list[n - k].block
      BY <1>7, <2>1
    <3> QED BY <1>2, <2>1, <3>1
  <2> HIDE DEF k
  <2> QED BY <1>4, <2>1, <2>2, Zenon
<1> QED BY <1>8 DEF n

\* v is s with other alternative blocks, and with another stored height.
StoredSet(s, v, a) ==
  /\ v \in State /\ v.chain = s.chain /\ v.db = s.db /\ v.calls = s.calls
  /\ v.thrown = s.thrown /\ v.panicked = s.panicked /\ v.alt = a

\* An alternative block is stored.
LEMMA SetStored ==
  ASSUME NEW s \in State, NEW a \in Alternatives
  PROVE  \A v : v = [s EXCEPT !.alt = a] => StoredSet(s, v, a)
<1> SUFFICES ASSUME NEW v, v = [s EXCEPT !.alt = a] PROVE StoredSet(s, v, a)
  BY Zenon
<1>1. v \in State
  BY SMTT(30) DEF State
<1>2. /\ v.chain = s.chain /\ v.db = s.db /\ v.calls = s.calls
      /\ v.thrown = s.thrown /\ v.panicked = s.panicked /\ v.alt = a
  BY DEF State
<1> QED BY <1>1, <1>2, Zenon DEF StoredSet

\* is_alternative_block_allowed stores m_immutable_height.
LEMMA SetImmutable ==
  ASSUME NEW s \in State, NEW n \in Nat
  PROVE  \A v : v = [s EXCEPT !.immutable = n] => StoredSet(s, v, s.alt)
BY DEF State, StoredSet

\* Without checkpoints a switch needs more work.
Grown(s, b) == NeverCheckpointed => cumulative_difficulty[b] > cumulative_difficulty[Last(s.chain)]

\* Without checkpoints a valid alternative block has no more work than the main chain.
Weighed(v, b) ==
  NeverCheckpointed /\ HookFails = {} /\ Sound(b) => cumulative_difficulty[b] <= Work(v.chain)

\* The outcomes for the main chain, once the block is stored, and with its storing.
Moves(s, v, b) == Stays(s, v) \/ (Switched(s, v, b) /\ Grown(s, b))
Decided(s, v, b) == Moves(s, v, b) /\ DOMAIN v.alt \subseteq DOMAIN s.alt /\ Weighed(v, b)
Handled(s, v, b) ==
  /\ Moves(s, v, b)
  /\ \/ DOMAIN v.alt \subseteq DOMAIN s.alt
     \/ DOMAIN v.alt \subseteq DOMAIN s.alt \cup {b} /\ Weighed(v, b)

\* A removal of alternative blocks leaves the chain alone.
LEMMA ShrunkStays ==
  ASSUME NEW s, NEW v, Good(s), Shrunk(s, v)
  PROVE  Stays(s, v)
<1>1. s.chain \in Seq(Block)
  BY StateFields DEF Good
<1>2. IsPrefix(s.chain, s.chain)
  BY <1>1, PrefixByElements
<1> QED BY <1>2 DEF Good, Shrunk, Stays

\* What is stored before the decision changes nothing of where the chain moves.
LEMMA StoredMoves ==
  ASSUME NEW s, NEW u, NEW v, NEW a, NEW b, StoredSet(s, u, a), Moves(u, v, b)
  PROVE  Moves(s, v, b)
BY Zenon DEF StoredSet, Moves, Stays, Switched, Grown

\* The stored height changes nothing of the outcome.
LEMMA StoredHandled ==
  ASSUME NEW s, NEW u, NEW v, NEW b, StoredSet(s, u, s.alt), Handled(u, v, b)
  PROVE  Handled(s, v, b)
<1>1. Moves(s, v, b)
  BY StoredMoves, Zenon DEF Handled
<1> QED BY <1>1, Zenon DEF StoredSet, Handled

\* Storing alternative blocks keeps the state good.
LEMMA StoredGood ==
  ASSUME NEW s, NEW u, NEW a, Good(s), StoredSet(s, u, a), AltOK(a)
  PROVE  Good(u)
BY Zenon DEF StoredSet, Good

\* The alternative chain with the block that arrived at its end.
LEMMA AppendEntry ==
  ASSUME NEW list, EntriesOK(list), NEW b \in Block, High(Height[b]), NEW given \in SUBSET Checkpoint,
         given # {} => Fit(Height[b])
  PROVE  LET entries == Append(list, [block |-> b, given |-> given])
         IN  /\ EntriesOK(entries) /\ entries # <<>> /\ Len(entries) = Len(list) + 1
             /\ entries[Len(entries)].block = b
             /\ entries[1].block = IF list = <<>> THEN b ELSE list[1].block
             /\ \A i \in 1 .. Len(list) : entries[i] = list[i]
<1> DEFINE e == [block |-> b, given |-> given]
           entries == Append(list, e)
<1>1. e \in Entry /\ e.block = b /\ e.given = given
  BY DEF Entry
<1>2. list \in Seq(Entry) /\ Len(list) \in Nat
  BY DEF EntriesOK
<1> HIDE DEF e
<1>3. /\ entries \in Seq(Entry) /\ Len(entries) = Len(list) + 1 /\ entries # <<>> /\ entries[Len(list) + 1] = e
      /\ \A i \in 1 .. Len(list) : entries[i] = list[i]
  BY <1>1, <1>2
<1> HIDE DEF entries
<1>4. EntriesOK(entries)
  <2>1. ASSUME NEW i \in 1 .. Len(entries)
        PROVE  High(Height[entries[i].block]) /\ (entries[i].given # {} => Fit(Height[entries[i].block]))
    <3>1. CASE i = Len(list) + 1
      BY <1>1, <1>3, <3>1, Zenon
    <3>2. CASE i # Len(list) + 1
      <4>1. i \in 1 .. Len(list)
        BY <1>2, <1>3, <3>2
      <4> QED BY <1>3, <4>1, Zenon DEF EntriesOK
    <3> QED BY <3>1, <3>2, Zenon
  <2> QED BY <1>3, <2>1, Zenon DEF EntriesOK
<1>5. entries[1].block = IF list = <<>> THEN b ELSE list[1].block
  <2>1. CASE list = <<>>
    BY <1>1, <1>3, <2>1
  <2>2. CASE list # <<>>
    <3>1. 1 \in 1 .. Len(list)
      BY <1>2, <2>2
    <3> QED BY <1>3, <2>2, <3>1, Zenon
  <2> QED BY <2>1, <2>2, ZenonT(30)
<1> QED BY <1>1, <1>3, <1>4, <1>5, ZenonT(30) DEF entries, e

\* The rest of handle_alternative_block.
LEMMA DecideFacts ==
  ASSUME NEW s, Good(s), NEW list, EntriesOK(list),
         NEW b \in Block, High(Height[b]), NEW given \in SUBSET Checkpoint, given # {} => Fit(Height[b]),
         NEW split \in 1 .. Len(s.chain), split = Height[IF list = <<>> THEN b ELSE list[1].block],
         Chained(Append(list, [block |-> b, given |-> given]), s.chain, split)
  PROVE  Decided(s, Decide(s, b, given, list), b)
<1> DEFINE entries == Append(list, [block |-> b, given |-> given])
           v == Decide(s, b, given, list)
           A == {i \in DOMAIN entries : entries[i].given # {}}
           C == {i \in DOMAIN entries : ~check_block(s.db, Height[entries[i].block], entries[i].block)}
           more == Cardinality(A) > Cardinality(C)
           greater == cumulative_difficulty[b] > cumulative_difficulty[Last(s.chain)]
           better == more \/ (greater /\ Cardinality(A) = Cardinality(C))
           stopped == \/ given = {} /\ \E c \in get_checkpoint(s.db, Height[b]) : c.block_hash # b /\ ~IsFramePix(c)
                      \/ b \in HookFails
           w(keep) == switch_to_alternative_blockchain(s, entries, keep)
<1>1. /\ EntriesOK(entries) /\ entries # <<>> /\ entries[Len(entries)].block = b /\ Len(entries) = Len(list) + 1
      /\ entries[1].block = IF list = <<>> THEN b ELSE list[1].block
  BY AppendEntry
<1>2. (v = s /\ (stopped \/ ~better)) \/ (better /\ v = w(~more))
  BY Zenon DEF Decide
<1>3. Chained(entries, s.chain, split) /\ split = Height[entries[1].block]
  BY <1>1, Zenon
<1> HIDE DEF entries, v, A, C, more, greater, better, stopped
<1>4. ASSUME NeverCheckpointed PROVE ~more /\ Cardinality(A) = Cardinality(C) /\ DOMAIN s.db = {}
  <2>1. entries \in Seq(Entry) /\ \A i \in 1 .. Len(entries) : entries[i].given = {}
    BY <1>1, <1>4, ZenonT(30) DEF EntriesOK, Fit
  <2>2. A = {}
    BY <2>1 DEF A
  <2>3. DOMAIN s.db = {}
    BY <1>4, ZenonT(30) DEF Good, TableOK, Fit
  <2>4. C = {}
    BY <2>3 DEF C, check_block, get_checkpoint
  <2>5. Cardinality(A) = 0 /\ Cardinality(C) = 0
    BY <2>2, <2>4, EmptyCardinality, ZenonT(30)
  <2>6. ~(0 > 0)
    OBVIOUS
  <2> QED BY <2>3, <2>5, <2>6, Zenon DEF more
<1>5. Last(s.chain) \in Block /\ IsPrefix(s.chain, s.chain)
  BY ChainItself, Zenon DEF Good
<1>6. cumulative_difficulty[b] \in Int /\ cumulative_difficulty[Last(s.chain)] \in Int
  BY <1>5, CumulativeFacts, Zenon
<1>7. CASE v = s /\ (stopped \/ ~better)
  <2>2. Stays(s, s)
    BY <1>5, ZenonT(30) DEF Stays
  <2>3. Weighed(s, b)
    <3>1. SUFFICES ASSUME NeverCheckpointed, HookFails = {}
                   PROVE  cumulative_difficulty[b] <= cumulative_difficulty[Last(s.chain)]
      BY Zenon DEF Weighed, Work
    <3>2. ~stopped
      BY <1>4, <3>1, Zenon DEF stopped, get_checkpoint
    <3>3. ~greater
      BY <1>4, <1>7, <3>1, <3>2, ZenonT(30) DEF better
    <3> QED BY <1>6, <3>3 DEF greater
  <2>4. Decided(s, s, b)
    BY <2>2, <2>3, ZenonT(30) DEF Decided, Moves
  <2> QED BY <1>7, <2>4, Zenon DEF v
<1>8. CASE better /\ v = w(~more)
  <2>1. (~more) \in BOOLEAN
    BY DEF more
  <2>2. /\ DOMAIN v.alt \subseteq DOMAIN s.alt
        /\ (Stays(s, v) /\ Refused(entries, s.chain, split)) \/ Switched(s, v, b)
    <3>1. ASSUME NEW keep \in BOOLEAN
          PROVE  /\ DOMAIN w(keep).alt \subseteq DOMAIN s.alt
                 /\ (Stays(s, w(keep)) /\ Refused(entries, s.chain, split)) \/ Switched(s, w(keep), b)
      BY <1>1, <1>3, SwitchFacts, Zenon
    <3> HIDE DEF w
    <3> QED BY <1>8, <2>1, <3>1, Zenon
  <2>3. Grown(s, b)
    <3>1. SUFFICES ASSUME NeverCheckpointed PROVE greater
      BY Zenon DEF Grown, greater
    <3> QED BY <1>4, <1>8, <3>1, ZenonT(30) DEF better
  <2>4. Weighed(v, b)
    <3>1. SUFFICES ASSUME NeverCheckpointed, Sound(b) PROVE cumulative_difficulty[b] <= Work(v.chain)
      BY Zenon DEF Weighed
    <3>2. ~Refused(entries, s.chain, split)
      <4>1. entries \in Seq(Entry) /\ Len(entries) > 0
        BY <1>1, <1>3, ChainedParents, ZenonT(30)
      <4>2. \A j \in 2 .. Len(entries) : Parent[entries[j].block] = entries[j - 1].block
        BY <1>1, <1>3, ChainedParents, ZenonT(30)
      <4>3. \A j \in 1 .. Len(entries) : entries[j].block \notin BadInputs
        BY <1>1, <3>1, <4>1, <4>2, SoundAncestors, ZenonT(30)
      <4> QED BY <1>3, <3>1, <4>3, ZenonT(30) DEF Refused
    <3>3. Last(v.chain) = b
      BY <2>2, <3>2, ZenonT(30) DEF Switched
    <3>4. cumulative_difficulty[b] <= cumulative_difficulty[b]
      BY <1>6
    <3> QED BY <3>3, <3>4, ZenonT(30) DEF Work
  <2>5. Decided(s, v, b)
    BY <2>2, <2>3, <2>4, Zenon DEF Decided, Moves
  <2> QED BY <2>5, ZenonT(30) DEF v
<1> QED BY <1>2, <1>7, <1>8, ZenonT(30)

\* The height that is_alternative_block_allowed stores.
LEMMA StoredHeight ==
  ASSUME NEW s \in State
  PROVE  ImmutableHeight(s) \in Nat
<1>1. s.db \in Tables /\ s.immutable \in Nat /\ Len(s.chain) \in Nat
  BY StateFields
<1>2. get_immutable_checkpoint(s.db, Len(s.chain)) \in Nat
  BY <1>1, ImmutableNat, ZenonT(30)
<1> QED BY <1>1, <1>2, Zenon DEF ImmutableHeight, MaxOf

\* An alternative block is stored.
LEMMA StoreAlt ==
  ASSUME NEW alt \in Alternatives, AltOK(alt), NEW b \in Block, High(Height[b]), NEW given \in SUBSET Checkpoint,
         given # {} => Fit(Height[b])
  PROVE  LET a == [x \in DOMAIN alt \cup {b} |-> IF x = b THEN given ELSE alt[x]]
         IN  a \in Alternatives /\ AltOK(a) /\ DOMAIN a = DOMAIN alt \cup {b}
<1> DEFINE a == [x \in DOMAIN alt \cup {b} |-> IF x = b THEN given ELSE alt[x]]
<1>1. DOMAIN alt \cup {b} \in SUBSET Block /\ \A x \in DOMAIN alt : alt[x] \in SUBSET Checkpoint
  BY AlternativesFacts
<1>2. a \in [DOMAIN alt \cup {b} -> SUBSET Checkpoint]
  BY <1>1, Zenon
<1>3. a \in Alternatives
  BY <1>1, <1>2, AlternativesFacts, Zenon
<1>4. AltOK(a)
  BY Zenon DEF AltOK
<1> QED BY <1>3, <1>4, Zenon

\* handle_alternative_block: the chain stays, or the whole alternative chain that
\* ends in the block replaces the blocks after the split.
LEMMA AlternativeFacts ==
  ASSUME NEW s0, Good(s0), NEW b \in Block, High(Height[b]), NEW given \in SUBSET Checkpoint,
         given # {} => Fit(Height[b])
  PROVE  Handled(s0, handle_alternative_block(s0, b, given), b)
<1> DEFINE n == ImmutableHeight(s0)
           s == [s0 EXCEPT !.immutable = n]
           list == AltChain(s, Parent[b])
           entries == [i \in DOMAIN list |-> AltEntry(s, list[i])]
           a == [x \in DOMAIN s.alt \cup {b} |-> IF x = b THEN given ELSE s.alt[x]]
           stored == [s EXCEPT !.alt = a]
           late == [s EXCEPT !.thrown = TRUE]
           v == handle_alternative_block(s0, b, given)
<1>1. \/ v = s
      \/ v = late
      \/ v = RemoveAll(s, list)
      \/ (list = <<>> => InMain(s, Parent[b])) /\ (list # <<>> => Connects(s, list[1])) /\ v = Decide(stored, b, given, entries)
  BY Zenon DEF handle_alternative_block
<1>2. s0 \in State /\ n \in Nat
  BY StoredHeight DEF Good
<1> HIDE DEF n, v
<1>3. StoredSet(s0, s, s0.alt)
  BY <1>2, SetImmutable, ZenonT(30)
<1> HIDE DEF s
<1>4. Good(s) /\ s \in State /\ s.alt \in Alternatives /\ s.chain \in Seq(Block) /\ AltOK(s.alt) /\ TableOK(s.db) /\ Linked(s.chain)
  <2>1. AltOK(s0.alt)
    BY DEF Good
  <2>2. Good(s)
    BY <1>3, <2>1, StoredGood
  <2>3. s \in State
    BY <2>2 DEF Good
  <2> QED BY <2>2, <2>3, StateFields, Zenon DEF Good
<1>5. ASSUME NEW u, Shrunk(s, u), v = u PROVE Handled(s0, v, b)
  <2>1. Stays(s, u)
    BY <1>4, <1>5, ShrunkStays, ZenonT(30)
  <2>2. Handled(s, v, b)
    BY <1>5, <2>1, Zenon DEF Handled, Moves, Shrunk
  <2> QED BY <1>3, <2>2, StoredHandled
<1>6. CASE v = s
  <2>1. Shrunk(s, s)
    BY <1>4 DEF Shrunk
  <2> QED BY <1>5, <1>6, <2>1, ZenonT(30) DEF v
<1>7. CASE v = late
  <2>1. AltSet(s, late, s.alt)
    BY <1>4, SetThrown, ZenonT(30)
  <2> HIDE DEF late
  <2>2. Shrunk(s, late)
    BY <2>1 DEF AltSet, Shrunk
  <2> QED BY <1>5, <1>7, <2>2 DEF v
<1>8. CASE v = RemoveAll(s, list)
  <2>1. Shrunk(s, RemoveAll(s, list))
    BY <1>4, RemoveAllFacts
  <2> QED BY <1>5, <1>8, <2>1, ZenonT(30) DEF v
<1>9. CASE /\ list = <<>> => InMain(s, Parent[b])
           /\ list # <<>> => Connects(s, list[1])
           /\ v = Decide(stored, b, given, entries)
  <2>1. Parent[b] \in Block /\ Height[b] = Height[Parent[b]] + 1 /\ Height[b] \in Nat
    BY ParentHeight, TreeAssumption, Zenon
  <2>2. LeadsTo(DOMAIN s.alt, Parent[b], list)
    BY <1>4, <2>1, AltChainFacts, ZenonT(30)
  <2> HIDE DEF list
  <2>3. list \in Seq(DOMAIN s.alt)
    BY <2>2 DEF LeadsTo
  <2>4. /\ EntriesOK(entries) /\ Len(entries) = Len(list)
        /\ \A i \in 1 .. Len(list) : entries[i].block = list[i]
    BY <1>4, <2>3, AltEntries, ZenonT(30)
  <2> HIDE DEF entries
  <2>5. a \in Alternatives /\ AltOK(a) /\ DOMAIN a = DOMAIN s.alt \cup {b}
    BY <1>4, StoreAlt, Zenon
  <2> HIDE DEF a
  <2>6. StoredSet(s, stored, a)
    BY <1>4, <2>5, SetStored, Zenon
  <2> HIDE DEF stored
  <2>7. Good(stored) /\ stored.chain = s.chain /\ stored.alt = a
    BY <1>4, <2>5, <2>6, StoredGood, ZenonT(30) DEF StoredSet
  <2> DEFINE split == SplitOf(list, b)
             e == Append(entries, [block |-> b, given |-> given])
  <2>8. Lists(e, list, b)
    <3>1. e[Len(e)].block = b /\ Len(e) = Len(entries) + 1 /\ \A i \in 1 .. Len(entries) : e[i] = entries[i]
      BY <2>4, AppendEntry
    <3> HIDE DEF e
    <3> QED BY <2>3, <2>4, <3>1, ZenonT(30) DEF Lists
  <2>9. split \in 1 .. Len(s.chain) /\ Chained(e, s.chain, split)
    <3>1. Starts(s, list, b)
      BY <1>9, Zenon DEF Starts
    <3>2. s.alt \in Alternatives /\ AltOK(s.alt) /\ Linked(s.chain)
      BY <1>4, Zenon
    <3> HIDE DEF e
    <3> QED BY <2>2, <2>8, <3>1, <3>2, ChainedEntries, ZenonT(30)
  <2>10. split = Height[IF entries = <<>> THEN b ELSE entries[1].block]
    <3>1. list = <<>> <=> entries = <<>>
      BY <2>3, <2>4 DEF EntriesOK
    <3>2. list # <<>> => entries[1].block = list[1]
      <4>1. list # <<>> => 1 \in 1 .. Len(list)
        BY <2>3
      <4> QED BY <2>4, <4>1, ZenonT(30)
    <3> QED BY <3>1, <3>2, ZenonT(30) DEF SplitOf
  <2> HIDE DEF split
  <2>11. Decided(stored, Decide(stored, b, given, entries), b)
    BY <2>4, <2>7, <2>9, <2>10, DecideFacts, ZenonT(30) DEF e
  <2>12. Handled(s, v, b)
    <3>1. Moves(s, v, b)
      BY <1>9, <2>6, <2>11, StoredMoves, ZenonT(30) DEF Decided
    <3>2. DOMAIN v.alt \subseteq DOMAIN s.alt \cup {b} /\ Weighed(v, b)
      BY <1>9, <2>5, <2>7, <2>11, ZenonT(30) DEF Decided
    <3> QED BY <3>1, <3>2 DEF Handled
  <2> QED BY <1>3, <2>12, StoredHandled, Zenon DEF v
<1> QED BY <1>1, <1>6, <1>7, <1>8, <1>9, ZenonT(30) DEF v
=============================================================================
