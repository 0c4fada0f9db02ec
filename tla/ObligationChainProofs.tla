----------------------- MODULE ObligationChainProofs -----------------------
(***************************************************************************)
(* For every buffer, lifetime, shuffle and set of votes: the state of the  *)
(* obligations handling is well typed, and a change that is on the chain   *)
(* was voted for after every earlier change of its node.                   *)
(*                                                                         *)
(* Both follow from ChainInv, an invariant of the chain alone: the table   *)
(* of nodes of each block is the one update_from_block leaves, and the     *)
(* entry of a node records the height of the last change of it, up to      *)
(* which can_transition_to_state then refuses votes.                       *)
(***************************************************************************)
EXTENDS ObligationVoting, TLAPS

----------------------------------------------------------------------------
(* What a block does to the entry of a node. *)

\* The entries before and after a block agree on all but the reward.
Same(new, old) ==
  /\ new.registration_height = old.registration_height
  /\ new.active_since_height = old.active_since_height
  /\ new.last_decommission_height = old.last_decommission_height
  /\ new.last_ip_change_height = old.last_ip_change_height
  /\ new.total_contributed = old.total_contributed

\* ApplyStateChange, of a node that it does not remove, at height h.
Changed(new, old, state, h) ==
  /\ is_fully_funded(old)
  /\ new.registration_height = old.registration_height
  /\ new.total_contributed = old.total_contributed
  /\ \/ /\ state = "decommission" /\ ~is_decommissioned(old)
        /\ new.active_since_height = -old.active_since_height
        /\ new.last_decommission_height = h
        /\ new.last_ip_change_height = old.last_ip_change_height
     \/ /\ state = "recommission" /\ is_decommissioned(old)
        /\ new.active_since_height = h
        /\ new.last_decommission_height = old.last_decommission_height
        /\ new.last_ip_change_height = old.last_ip_change_height
     \/ /\ state = "ip_change_penalty" /\ ~is_decommissioned(old)
        /\ new.active_since_height = old.active_since_height
        /\ new.last_decommission_height = old.last_decommission_height
        /\ new.last_ip_change_height = h

\* The entry bars what was voted for up to height h.
Marked(info, state, h) ==
  IF state = "ip_change_penalty" THEN info.last_ip_change_height >= h
  ELSE IF is_decommissioned(info) THEN info.last_decommission_height >= h
       ELSE info.active_since_height >= h

\* The entry of a node that is funded shows since when it is active or not.
SoundInfo(info) ==
  info \in FramePixInfo /\ (is_fully_funded(info) => info.active_since_height # 0)

\* can_transition_to_state refuses what the entry bars.
LEMMA MarkedBars ==
  ASSUME NEW info, SoundInfo(info), NEW h \in Nat, NEW k \in Nat, NEW state, NEW later,
         Marked(info, state, h), can_transition_to_state(info, k, later),
         state = "ip_change_penalty" => later = "ip_change_penalty"
  PROVE  k > h
<1>1. /\ info.last_ip_change_height \in Int /\ info.active_since_height \in Int
      /\ info.last_decommission_height \in Int
  BY DEF SoundInfo, FramePixInfo
<1> QED BY <1>1 DEF Marked, can_transition_to_state, can_be_voted_on, is_active

\* A change leaves its mark and the earlier ones.
LEMMA ChangedMarks ==
  ASSUME NEW new, NEW old, SoundInfo(new), SoundInfo(old), NEW h \in Nat, NEW state,
         Changed(new, old, state, h)
  PROVE  /\ Marked(new, state, h)
         /\ \A other : \A k \in 0 .. h : Marked(old, other, k) => Marked(new, other, k)
<1>1. /\ old.last_ip_change_height \in Int /\ old.active_since_height \in Int
      /\ old.last_decommission_height \in Int /\ old.active_since_height # 0
  BY DEF SoundInfo, FramePixInfo, Changed
<1> QED BY <1>1 DEF Changed, Marked, is_decommissioned

\* An entry that a block leaves alone bars what it barred.
LEMMA SameMarks ==
  ASSUME NEW new, NEW old, Same(new, old), NEW state, NEW k, Marked(old, state, k)
  PROVE  Marked(new, state, k)
BY DEF Same, Marked, is_decommissioned

\* can_transition_to_state after a block, of a vote up to it: what is
\* possible was possible, and stays possible for the votes of the same change.
LEMMA Possible ==
  ASSUME NEW new, NEW old, SoundInfo(new), SoundInfo(old), NEW h \in Nat, NEW x,
         Same(new, old) \/ Changed(new, old, x, h),
         NEW k \in Nat, k <= h, NEW state, can_transition_to_state(new, k, state)
  PROVE  /\ can_transition_to_state(old, k, state)
         /\ \A j \in Nat : can_transition_to_state(old, j, state)
                             => can_transition_to_state(new, j, state)
<1>1. /\ old.last_ip_change_height \in Int /\ old.active_since_height \in Int
      /\ old.last_decommission_height \in Int /\ old.registration_height \in Int
      /\ old.total_contributed \in Int /\ StakingRequirement \in Int
      /\ is_fully_funded(old) => old.active_since_height # 0
  BY StateAssumption DEF SoundInfo, FramePixInfo
<1>2. CASE Same(new, old)
  BY <1>1, <1>2 DEF Same, can_transition_to_state, can_be_voted_on, is_active, is_decommissioned,
                    is_fully_funded
<1>3. CASE Changed(new, old, x, h)
  <2>1. CASE x = "ip_change_penalty"
    BY <1>1, <1>3, <2>1 DEF Changed, can_transition_to_state, can_be_voted_on, is_active,
                            is_decommissioned, is_fully_funded
  <2>2. CASE x # "ip_change_penalty"
    BY <1>1, <1>3, <2>2 DEF Changed, can_transition_to_state, can_be_voted_on, is_active,
                            is_decommissioned, is_fully_funded
  <2> QED BY <2>1, <2>2
<1> QED BY <1>2, <1>3

\* Every entry of a sound table is sound.
LEMMA SoundEntries ==
  ASSUME NEW infos, SoundInfos(infos), NEW n \in DOMAIN infos
  PROVE  SoundInfo(infos[n])
BY DEF SoundInfos, SoundInfo

\* A function of sound entries is a sound table.
LEMMA SoundTable ==
  ASSUME NEW infos, NEW N \in SUBSET FramePix, infos = [n \in N |-> infos[n]],
         \A n \in N : SoundInfo(infos[n])
  PROVE  SoundInfos(infos)
<1>1. DOMAIN infos = N
  BY Zenon
<1>2. \A n \in N : infos[n] \in FramePixInfo
  BY DEF SoundInfo
<1>3. infos \in [N -> FramePixInfo]
  BY <1>1, <1>2
<1> QED BY <1>1, <1>3 DEF SoundInfos, SoundInfo

\* Expired nodes leave and the winner is paid; the rest of the entries stays.
LEMMA PaidFacts ==
  ASSUME NEW infos, SoundInfos(infos), NEW E, NEW w, NEW h \in Nat
  PROVE  LET paid == Reward(Without(infos, E), w, h)
         IN  /\ SoundInfos(paid) /\ DOMAIN paid \subseteq DOMAIN infos
             /\ \A n \in DOMAIN paid : Same(paid[n], infos[n])
<1> DEFINE kept == Without(infos, E)
           paid == Reward(kept, w, h)
           N == DOMAIN infos \ E
<1>1. /\ kept = [n \in N |-> kept[n]] /\ \A n \in N : kept[n] = infos[n]
      /\ N \subseteq FramePix /\ N \subseteq DOMAIN infos
  BY DEF Without, SoundInfos
<1>2. \A n \in N : SoundInfo(kept[n])
  BY <1>1, SoundEntries, Zenon
<1> HIDE DEF N, kept
<1>3. CASE w \notin N
  <2>1. paid = kept
    BY <1>1, <1>3 DEF Reward
  <2>2. \A n \in N : Same(kept[n], infos[n])
    BY <1>1 DEF Same
  <2>3. SoundInfos(kept) /\ DOMAIN kept = N
    BY <1>1, <1>2, SoundTable
  <2> QED BY <1>1, <2>1, <2>2, <2>3 DEF paid, kept
<1>4. CASE w \in N
  <2>1. DOMAIN kept = N
    BY <1>1
  <2>2. paid = [kept EXCEPT ![w].last_reward = <<h, UINT32_MAX>>]
    BY <1>4, <2>1 DEF Reward
  <2> DEFINE entry == [kept[w] EXCEPT !.last_reward = <<h, UINT32_MAX>>]
  <2>3. /\ paid = [n \in N |-> paid[n]]
        /\ paid[w] = entry /\ \A n \in N \ {w} : paid[n] = kept[n]
    BY <1>4, <2>1, <2>2, Zenon
  <2>4. SoundInfo(entry) /\ Same(entry, infos[w])
    <3>1. kept[w] = infos[w] /\ SoundInfo(kept[w])
      BY <1>1, <1>2, <1>4
    <3>2. <<h, UINT32_MAX>> \in Nat \X Nat
      BY DEF UINT32_MAX
    <3> QED BY <3>1, <3>2 DEF SoundInfo, FramePixInfo, Same, is_fully_funded
  <2> HIDE DEF paid, entry
  <2>5. \A n \in N : SoundInfo(paid[n]) /\ Same(paid[n], infos[n])
    BY <1>1, <1>2, <2>3, <2>4 DEF Same
  <2>6. SoundInfos(paid) /\ DOMAIN paid = N
    BY <1>1, <2>3, <2>5, SoundTable
  <2> QED BY <1>1, <2>5, <2>6 DEF paid, kept
<1> QED BY <1>3, <1>4 DEF kept

\* The four state changes, for a node that may make them.
LEMMA ApplyFacts ==
  ASSUME NEW infos, SoundInfos(infos), NEW n \in DOMAIN infos, NEW k, NEW state \in StateChange,
         NEW h \in Nat \ {0}, can_transition_to_state(infos[n], k, state)
  PROVE  LET new == ApplyStateChange(infos, n, state, h)
         IN  /\ SoundInfos(new) /\ DOMAIN new \subseteq DOMAIN infos
             /\ \A m \in DOMAIN new : IF m = n THEN Changed(new[m], infos[m], state, h)
                                      ELSE new[m] = infos[m]
<1> DEFINE new == ApplyStateChange(infos, n, state, h)
           N == DOMAIN infos
<1>1. infos = [m \in N |-> infos[m]] /\ N \subseteq FramePix /\ \A m \in N : SoundInfo(infos[m])
  BY SoundEntries DEF SoundInfos
<1>2. CASE state = "deregister"
  <2>1. new = Without(infos, {n})
    BY <1>2 DEF ApplyStateChange
  <2>2. new = [m \in N \ {n} |-> new[m]] /\ \A m \in N \ {n} : new[m] = infos[m]
    BY <2>1 DEF Without
  <2> HIDE DEF new
  <2>3. SoundInfos(new) /\ DOMAIN new = N \ {n}
    BY <1>1, <2>2, SoundTable
  <2> QED BY <2>2, <2>3 DEF new
<1>3. /\ is_fully_funded(infos[n]) /\ infos[n] \in FramePixInfo /\ infos[n].active_since_height # 0
      /\ infos[n].active_since_height \in Int
  BY <1>1 DEF can_transition_to_state, can_be_voted_on, SoundInfo, FramePixInfo
<1>4. <<h, UINT32_MAX>> \in Nat \X Nat
  BY DEF UINT32_MAX
<1>5. ASSUME NEW entry, new = [m \in N |-> IF m = n THEN entry ELSE infos[m]],
             entry \in FramePixInfo, entry.active_since_height # 0,
             Changed(entry, infos[n], state, h)
      PROVE  /\ SoundInfos(new) /\ DOMAIN new \subseteq DOMAIN infos
             /\ \A m \in DOMAIN new : IF m = n THEN Changed(new[m], infos[m], state, h)
                                      ELSE new[m] = infos[m]
  <2> HIDE DEF new
  <2>1. /\ new = [m \in N |-> new[m]]
        /\ new[n] = entry /\ \A m \in N \ {n} : new[m] = infos[m]
    BY <1>5
  <2>2. \A m \in N : SoundInfo(new[m])
    BY <1>1, <1>5, <2>1 DEF SoundInfo
  <2>3. SoundInfos(new) /\ DOMAIN new = N
    BY <1>1, <2>1, <2>2, SoundTable
  <2> QED BY <1>5, <2>1, <2>3
<1>6. CASE state = "decommission"
  <2>1. ~is_decommissioned(infos[n])
    BY <1>6 DEF can_transition_to_state
  <2> DEFINE entry == [infos[n] EXCEPT !.active_since_height = -@, !.last_decommission_height = h]
  <2>2. new = [infos EXCEPT ![n].active_since_height = -@, ![n].last_decommission_height = h]
    BY <1>6, <2>1 DEF ApplyStateChange
  <2>3. new = [m \in N |-> IF m = n THEN entry ELSE infos[m]]
    BY <1>1, <2>2, Zenon
  <2>4. entry \in FramePixInfo /\ entry.active_since_height # 0 /\ Changed(entry, infos[n], state, h)
    <3> DEFINE since == -infos[n].active_since_height
    <3>1. since \in Int /\ since # 0
      BY <1>3
    <3>2. entry = [infos[n] EXCEPT !.active_since_height = since, !.last_decommission_height = h]
      BY <1>3 DEF FramePixInfo
    <3> HIDE DEF since, entry
    <3>3. /\ entry \in FramePixInfo /\ entry.active_since_height = since
          /\ entry.last_decommission_height = h
          /\ entry.registration_height = infos[n].registration_height
          /\ entry.total_contributed = infos[n].total_contributed
          /\ entry.last_ip_change_height = infos[n].last_ip_change_height
      BY <1>3, <3>1, <3>2, Zenon DEF FramePixInfo
    <3> QED BY <1>3, <1>6, <2>1, <3>1, <3>3 DEF Changed, since
  <2> HIDE DEF new, entry
  <2> QED BY <1>5, <2>3, <2>4 DEF new
<1>7. CASE state = "recommission"
  <2>1. is_decommissioned(infos[n])
    BY <1>7 DEF can_transition_to_state
  <2> DEFINE entry == [infos[n] EXCEPT !.active_since_height = h, !.last_reward = <<h, UINT32_MAX>>]
  <2>2. new = [infos EXCEPT ![n].active_since_height = h, ![n].last_reward = <<h, UINT32_MAX>>]
    BY <1>7, <2>1 DEF ApplyStateChange
  <2>3. new = [m \in N |-> IF m = n THEN entry ELSE infos[m]]
    BY <1>1, <2>2, Zenon
  <2>4. entry \in FramePixInfo /\ entry.active_since_height # 0 /\ Changed(entry, infos[n], state, h)
    <3>1. entry \in FramePixInfo /\ entry.active_since_height = h
      <4> DEFINE reward == <<h, UINT32_MAX>>
      <4>1. entry = [infos[n] EXCEPT !.active_since_height = h, !.last_reward = reward]
        OBVIOUS
      <4>2. reward \in Nat \X Nat /\ h \in Int
        BY <1>4
      <4> HIDE DEF reward, entry
      <4> QED BY <1>3, <4>1, <4>2, Zenon DEF FramePixInfo
    <3>2. /\ entry.registration_height = infos[n].registration_height
          /\ entry.total_contributed = infos[n].total_contributed
          /\ entry.last_decommission_height = infos[n].last_decommission_height
          /\ entry.last_ip_change_height = infos[n].last_ip_change_height
      BY <1>3 DEF FramePixInfo
    <3> HIDE DEF entry
    <3> QED BY <1>3, <1>7, <2>1, <3>1, <3>2 DEF Changed
  <2> HIDE DEF new, entry
  <2> QED BY <1>5, <2>3, <2>4 DEF new
<1>8. CASE state = "ip_change_penalty"
  <2>1. ~is_decommissioned(infos[n])
    BY <1>8 DEF can_transition_to_state
  <2> DEFINE entry == [infos[n] EXCEPT !.last_ip_change_height = h, !.last_reward = <<h, UINT32_MAX>>]
  <2>2. new = [infos EXCEPT ![n].last_ip_change_height = h, ![n].last_reward = <<h, UINT32_MAX>>]
    BY <1>8, <2>1 DEF ApplyStateChange
  <2>3. new = [m \in N |-> IF m = n THEN entry ELSE infos[m]]
    BY <1>1, <2>2, Zenon
  <2>4. entry \in FramePixInfo /\ entry.active_since_height # 0 /\ Changed(entry, infos[n], state, h)
    BY <1>3, <1>4, <1>8, <2>1, Zenon DEF FramePixInfo, Changed
  <2> HIDE DEF new, entry
  <2> QED BY <1>5, <2>3, <2>4 DEF new
<1> QED BY <1>2, <1>6, <1>7, <1>8 DEF StateChange

----------------------------------------------------------------------------
(* The chain. *)

\* The chain is a sequence, of whatever blocks.
IsChain(c) == \E S : c \in Seq(S)

\* The state of block i, and what its quorums and entries are made of.
BlockOK(c, i) ==
  /\ c[i].state.height = i - 1
  /\ c[i].state.block_hash \in 0 .. MaxCuts
  /\ c[i].state.quorums.obligations \subseteq FramePix
  /\ SoundInfos(c[i].state.infos)

\* The change of block j was possible in the state before it.
ChangeOK(c, j) ==
  LET y == c[j].change
  IN  y # NoChange =>
        /\ y \in ChangeType /\ y.height < j - 1 /\ Resolves(c, y)
        /\ Worker(c, y) \in DOMAIN c[j - 1].state.infos
        /\ can_transition_to_state(c[j - 1].state.infos[Worker(c, y)], y.height, y.state)

\* The change of block i has left its mark in the state of block k.
MarkOK(c, i, k) ==
  LET x == c[i].change
  IN  x # NoChange /\ Worker(c, x) \in DOMAIN c[k].state.infos
        => Marked(c[k].state.infos[Worker(c, x)], x.state, i - 1)

\* A chain that update_from_block built: each block carries the table its
\* parent's and its change make, and each change stays recorded in the entry of
\* its node for as long as the node is there.
ChainOK(c) ==
  /\ IsChain(c) /\ Len(c) \in 1 .. MaxHeight + 1
  /\ \A i \in 1 .. Len(c) : BlockOK(c, i) /\ ChangeOK(c, i)
  /\ \A i, k \in 1 .. Len(c) : i <= k => MarkOK(c, i, k)

\* Two chains with the same first m blocks.
Agree(c, d, m) ==
  /\ IsChain(c) /\ IsChain(d) /\ m \in 0 .. Len(c) /\ m \in 0 .. Len(d)
  /\ \A i \in 1 .. m : c[i] = d[i]

\* What a block with change x, the next one of c, makes of the entries.
Stepped(new, old, c, x) ==
  /\ SoundInfos(new) /\ DOMAIN new \subseteq DOMAIN old
  /\ \A n \in DOMAIN new :
       IF x # NoChange /\ n = Worker(c, x) THEN Changed(new[n], old[n], x.state, Len(c))
       ELSE Same(new[n], old[n])

\* The length, the domain and the last block of a chain.
LEMMA ChainFacts ==
  ASSUME NEW c, IsChain(c)
  PROVE  /\ Len(c) \in Nat /\ DOMAIN c = 1 .. Len(c)
         /\ Len(c) > 0 => Last(c) = c[Len(c)]
BY DEF IsChain, Last

\* Common blocks resolve an index to the same node.
LEMMA AgreeWorkers ==
  ASSUME NEW c, NEW d, NEW m, Agree(c, d, m), NEW x, x.height \in Nat, x.height < m
  PROVE  /\ (Resolves(c, x) <=> Resolves(d, x)) /\ Worker(c, x) = Worker(d, x)
         /\ x.height + 1 \in DOMAIN c /\ x.height + 1 \in DOMAIN d
<1>1. x.height + 1 \in 1 .. m /\ x.height + 1 \in DOMAIN c /\ x.height + 1 \in DOMAIN d
  BY ChainFacts DEF Agree
<1>2. c[x.height + 1] = d[x.height + 1]
  BY <1>1 DEF Agree
<1>3. Workers(c, x.height) = Workers(d, x.height)
  BY <1>1, <1>2, Zenon DEF Workers
<1> QED BY <1>1, <1>3, Zenon DEF Resolves, Worker

\* An index that resolves belongs to a block of the chain, and to a node.
LEMMA ResolvesFacts ==
  ASSUME NEW c, ChainOK(c), NEW x, x.height \in Nat, Resolves(c, x)
  PROVE  /\ x.height < Len(c) /\ Worker(c, x) \in FramePix
         /\ x.index \in 1 .. Cardinality(FramePix) /\ x.index \in Nat
<1>1. x.height + 1 \in DOMAIN c
  <2> SUFFICES ASSUME x.height + 1 \notin DOMAIN c PROVE FALSE
    BY Zenon
  <2>1. Workers(c, x.height) = << >>
    BY Zenon DEF Workers
  <2> QED BY <2>1 DEF Resolves
<1>2. x.height + 1 \in 1 .. Len(c)
  BY <1>1, ChainFacts DEF ChainOK
<1> DEFINE s == c[x.height + 1].state
           W == Shuffle[s.block_hash][s.quorums.obligations]
<1>3. s.block_hash \in 0 .. MaxCuts /\ s.quorums.obligations \in SUBSET FramePix
  BY <1>2 DEF ChainOK, BlockOK
<1> HIDE DEF s
<1>4. W \in Seq(s.quorums.obligations) /\ DOMAIN W \subseteq 1 .. Cardinality(FramePix)
  BY <1>3, ChainAssumption, Zenon
<1>5. Workers(c, x.height) = W
  BY <1>1, Zenon DEF Workers, s
<1> HIDE DEF W
<1>6. x.index \in DOMAIN W /\ Worker(c, x) = W[x.index]
  BY <1>5, Zenon DEF Resolves, Worker
<1>7. W[x.index] \in s.quorums.obligations /\ x.index \in Nat
  BY <1>4, <1>6
<1>8. x.height < Len(c)
  BY <1>2
<1> QED BY <1>3, <1>4, <1>6, <1>7, <1>8

\* The first blocks of a sound chain are sound on every chain that shares them.
LEMMA AgreeBlocks ==
  ASSUME NEW c, NEW d, NEW m, Agree(c, d, m), ChainOK(c)
  PROVE  /\ \A i \in 1 .. m : BlockOK(d, i) /\ ChangeOK(d, i)
         /\ \A i, k \in 1 .. m : i <= k => MarkOK(d, i, k)
<1>1. m \in Nat /\ m <= Len(c) /\ Len(c) \in Nat /\ \A i \in 1 .. m : c[i] = d[i]
  BY ChainFacts DEF Agree
<1>2. \A i \in 1 .. m : i \in 1 .. Len(c)
  BY <1>1
<1>3. ASSUME NEW i \in 1 .. m PROVE BlockOK(d, i)
  BY <1>1, <1>2, Zenon DEF ChainOK, BlockOK
<1>4. ASSUME NEW i \in 1 .. m, c[i].change # NoChange
      PROVE  /\ c[i].change.height \in Nat /\ c[i].change.height < i - 1
             /\ Worker(c, c[i].change) = Worker(d, c[i].change)
             /\ (Resolves(c, c[i].change) <=> Resolves(d, c[i].change))
  <2>1. c[i].change \in ChangeType /\ c[i].change.height < i - 1
    BY <1>2, <1>4 DEF ChainOK, ChangeOK
  <2>2. c[i].change.height \in Nat /\ c[i].change.height < m
    BY <1>1, <2>1, ObligationAssumption DEF ChangeType
  <2> QED BY <2>1, <2>2, AgreeWorkers
<1>5. ASSUME NEW i \in 1 .. m PROVE ChangeOK(d, i)
  <2> SUFFICES ASSUME c[i].change # NoChange PROVE ChangeOK(d, i)
    BY <1>1 DEF ChangeOK
  <2>1. ChangeOK(c, i) /\ c[i] = d[i]
    BY <1>1, <1>2 DEF ChainOK
  <2>2. c[i - 1] = d[i - 1]
    BY <1>1, <1>4
  <2> QED BY <1>4, <2>1, <2>2 DEF ChangeOK
<1>6. ASSUME NEW i \in 1 .. m, NEW k \in 1 .. m, i <= k PROVE MarkOK(d, i, k)
  <2>1. MarkOK(c, i, k) /\ c[i] = d[i] /\ c[k] = d[k]
    BY <1>1, <1>2, <1>6 DEF ChainOK
  <2> QED BY <1>4, <2>1 DEF MarkOK
<1> QED BY <1>3, <1>5, <1>6

\* A cut leaves a good chain.
LEMMA CutOK ==
  ASSUME NEW c, ChainOK(c), NEW n \in 1 .. Len(c)
  PROVE  ChainOK(SubSeq(c, 1, n)) /\ Agree(c, SubSeq(c, 1, n), n) /\ Len(SubSeq(c, 1, n)) = n
<1> DEFINE d == SubSeq(c, 1, n)
<1>1. PICK S : c \in Seq(S)
  BY DEF ChainOK, IsChain
<1>2. /\ d \in Seq(S) /\ Len(d) = n /\ \A i \in 1 .. n : c[i] = d[i]
      /\ Len(c) \in Nat
  BY <1>1
<1>3. Len(c) <= MaxHeight + 1 /\ MaxHeight \in Nat
  BY ObligationAssumption DEF ChainOK
<1> HIDE DEF d
<1>4. IsChain(d) /\ IsChain(c)
  BY <1>1, <1>2, Zenon DEF IsChain
<1>5. Agree(c, d, n)
  BY <1>2, <1>4 DEF Agree
<1>6. Len(d) \in 1 .. MaxHeight + 1
  BY <1>2, <1>3
<1> QED BY <1>2, <1>4, <1>5, <1>6, AgreeBlocks DEF ChainOK, d

\* The state that process_state_change_tx looks up is that of the block the
\* change names.
LEMMA LookupBlock ==
  ASSUME NEW c, ChainOK(c), NEW h \in Nat, h < Len(c)
  PROVE  Lookup({c[i].state : i \in DOMAIN c}, {}, h) = {c[h + 1].state.quorums}
<1> DEFINE S == {c[i].state : i \in DOMAIN c}
<1>1. /\ h + 1 \in DOMAIN c /\ DOMAIN c \subseteq Int
      /\ \A i \in DOMAIN c : c[i].state.height = i - 1
  BY ChainFacts DEF ChainOK, BlockOK
<1>2. c[h + 1].state \in S /\ c[h + 1].state.height = h
  BY <1>1
<1>3. \A s \in S : s.height = h => s = c[h + 1].state
  BY <1>1
<1> HIDE DEF S
<1>4. HasState(S, h)
  BY <1>2 DEF HasState
<1>5. StateAt(S, h) = c[h + 1].state
  BY <1>2, <1>3, Zenon DEF StateAt
<1> QED BY <1>4, <1>5, Zenon DEF Lookup, S

\* The entries after the next block, whose change was checked against the chain.
LEMMA NextInfos ==
  ASSUME NEW c, ChainOK(c), NEW x, x = NoChange \/ x \in ChangeType, Mineable(c, x), NEW hash
  PROVE  LET b == NextBlock(c, x, hash)
         IN  /\ Stepped(b.state.infos, Infos(c), c, x)
             /\ b.change = x /\ b.state.height = Len(c) /\ b.state.block_hash = hash
             /\ b.state.quorums.obligations \subseteq DOMAIN b.state.infos
<1> DEFINE s == Last(c).state
           H == {c[i].state : i \in DOMAIN c}
           tx == StateTx(c, x)
           w == get_block_winner(Infos(c))
           blk == [hash |-> hash, winner |-> w, tx |-> tx]
           h == s.height + 1
           paid == Reward(Without(s.infos, get_expired_nodes(s.infos, h)), w, h)
           b == NextBlock(c, x, hash)
           new == b.state.infos
<1>1. Len(c) \in Nat \ {0} /\ Last(c) = c[Len(c)] /\ DOMAIN c = 1 .. Len(c)
  BY ChainFacts, ObligationAssumption DEF ChainOK
<1>2. h = Len(c) /\ SoundInfos(s.infos)
  BY <1>1 DEF ChainOK, BlockOK
<1>3. b.change = x /\ b.state = update_from_block(s, H, {}, blk)
  BY DEF NextBlock
<1> HIDE DEF tx, w, s, H
<1>4. /\ b.state.height = h /\ b.state.block_hash = hash
      /\ b.state.quorums = generate_quorums(new, hash, h)
      /\ new = CASE tx.kind = "register" ->
                      process_contribution_tx(process_registration_tx(paid, tx.node, h), tx.node, h)
                 [] tx.kind = "contribute" -> process_contribution_tx(paid, tx.node, h)
                 [] tx.kind = "unlock" -> process_key_image_unlock_tx(paid, tx.node, h)
                 [] tx.kind \in StateChange -> process_state_change_tx(paid, H, {}, tx, h)
                 [] OTHER -> paid
  <2> HIDE DEF b
  <2> QED BY <1>3 DEF update_from_block
<1>5. b.state.quorums.obligations \subseteq DOMAIN new
  <2> HIDE DEF new, b, h
  <2> QED BY <1>4 DEF generate_quorums
<1> HIDE DEF b, new
<1>6. /\ SoundInfos(paid) /\ DOMAIN paid \subseteq DOMAIN s.infos
      /\ \A n \in DOMAIN paid : Same(paid[n], s.infos[n])
  <2> DEFINE E == get_expired_nodes(s.infos, h)
  <2>1. h \in Nat
    BY <1>1, <1>2
  <2> HIDE DEF E, h
  <2> QED BY <1>2, <2>1, PaidFacts
<1> HIDE DEF paid, h
<1>7. CASE x = NoChange
  <2>1. tx.kind = "none"
    BY <1>7 DEF tx, StateTx, NoTx
  <2>2. new = paid
    BY <1>4, <2>1 DEF StateChange
  <2>3. Stepped(new, s.infos, c, x)
    BY <1>6, <1>7, <2>2, Zenon DEF Stepped
  <2> QED BY <1>2, <1>3, <1>4, <1>5, <2>3 DEF b, new, s, Infos
<1>8. CASE x # NoChange /\ x \in ChangeType
  <2> DEFINE n == Worker(c, x)
  <2>1. x.height \in Nat /\ x.state \in StateChange
    BY <1>8, ObligationAssumption DEF ChangeType
  <2>2. /\ Resolves(c, x) /\ verify_tx_state_change(tx, c[x.height + 1].state.quorums)
        /\ n \in DOMAIN s.infos /\ can_transition_to_state(s.infos[n], x.height, x.state)
    BY <1>8 DEF Mineable, check_tx_inputs, CanChange, tx, Infos, s
  <2>3. tx.kind = x.state /\ tx.node = n /\ tx.back = Len(c) - x.height
    BY <1>8 DEF tx, StateTx
  <2>4. x.height < Len(c)
    BY <2>1, <2>2, ResolvesFacts
  <2>5. h - tx.back = x.height
    BY <1>1, <1>2, <2>1, <2>3
  <2> HIDE DEF n
  <2>6. Lookup(H, {}, h - tx.back) = {c[x.height + 1].state.quorums}
    BY <2>1, <2>4, <2>5, LookupBlock DEF H
  <2>7. new = process_state_change_tx(paid, H, {}, tx, h)
    BY <1>4, <2>1, <2>3 DEF StateChange
  <2>8. CASE n \notin DOMAIN paid
    <3>1. new = paid
      BY <2>3, <2>7, <2>8 DEF process_state_change_tx
    <3>2. Stepped(new, s.infos, c, x)
      BY <1>6, <2>8, <3>1, Zenon DEF Stepped, n
    <3> QED BY <1>2, <1>3, <1>4, <1>5, <3>2 DEF b, new, s, Infos
  <2>9. CASE n \in DOMAIN paid
    <3>1. new = ApplyStateChange(paid, n, x.state, h)
      BY <2>2, <2>3, <2>6, <2>7, <2>9, Zenon DEF process_state_change_tx
    <3>2. Same(paid[n], s.infos[n]) /\ can_transition_to_state(paid[n], x.height, x.state)
      <4>1. Same(paid[n], s.infos[n])
        BY <1>6, <2>9
      <4> QED BY <2>2, <4>1 DEF Same, can_transition_to_state, can_be_voted_on, is_active,
                               is_decommissioned, is_fully_funded
    <3>3. h \in Nat \ {0}
      BY <1>1, <1>2
    <3>4. /\ SoundInfos(new) /\ DOMAIN new \subseteq DOMAIN paid
          /\ \A m \in DOMAIN new : IF m = n THEN Changed(new[m], paid[m], x.state, h)
                                   ELSE new[m] = paid[m]
      BY <1>6, <2>1, <2>9, <3>1, <3>2, <3>3, ApplyFacts
    <3>5. ASSUME NEW m \in DOMAIN new
          PROVE  IF m = n THEN Changed(new[m], s.infos[m], x.state, h) ELSE Same(new[m], s.infos[m])
      <4>1. Same(paid[m], s.infos[m])
        BY <1>6, <3>4, Zenon
      <4>2. CASE m = n
        <5>1. Changed(new[m], paid[m], x.state, h)
          BY <3>4, <4>2
        <5> QED BY <4>1, <4>2, <5>1, Zenon DEF Changed, Same, is_fully_funded, is_decommissioned
      <4>3. CASE m # n
        BY <3>4, <4>1, <4>3 DEF Same
      <4> QED BY <4>2, <4>3, Zenon
    <3>6. Stepped(new, s.infos, c, x)
      BY <1>2, <1>6, <1>8, <3>4, <3>5 DEF Stepped, n
    <3> QED BY <1>2, <1>3, <1>4, <1>5, <3>6 DEF b, new, s, Infos
  <2> QED BY <2>8, <2>9
<1> QED BY <1>7, <1>8

\* A block appended is the last one, and the others stay.
LEMMA AppendFacts ==
  ASSUME NEW c, IsChain(c), NEW b
  PROVE  /\ Agree(c, Append(c, b), Len(c)) /\ Len(Append(c, b)) = Len(c) + 1
         /\ Append(c, b)[Len(c) + 1] = b /\ Last(Append(c, b)) = b
<1>1. PICK S : c \in Seq(S)
  BY DEF IsChain
<1>2. c \in Seq(S \cup {b}) /\ b \in S \cup {b}
  BY <1>1
<1> DEFINE d == Append(c, b)
<1>3. /\ d \in Seq(S \cup {b}) /\ Len(d) = Len(c) + 1 /\ d[Len(c) + 1] = b
      /\ Len(c) \in Nat /\ \A i \in 1 .. Len(c) : c[i] = d[i]
  BY <1>2
<1> HIDE DEF d
<1>4. IsChain(d)
  BY <1>3, Zenon DEF IsChain
<1>5. Agree(c, d, Len(c))
  BY <1>3, <1>4 DEF Agree
<1> QED BY <1>3, <1>5 DEF d, Last

\* The next block leaves a good chain, and the entries as Stepped says.
LEMMA NextChain ==
  ASSUME NEW c, ChainOK(c), Len(c) <= MaxHeight, NEW x, x = NoChange \/ x \in ChangeType,
         Mineable(c, x), NEW hash \in 0 .. MaxCuts
  PROVE  LET d == Append(c, NextBlock(c, x, hash))
         IN  /\ ChainOK(d) /\ Agree(c, d, Len(c)) /\ Len(d) = Len(c) + 1
             /\ Stepped(Infos(d), Infos(c), c, x)
<1> DEFINE b == NextBlock(c, x, hash)
           d == Append(c, b)
           k == Len(c) + 1
<1>1. /\ Stepped(b.state.infos, Infos(c), c, x)
      /\ b.change = x /\ b.state.height = Len(c) /\ b.state.block_hash = hash
      /\ b.state.quorums.obligations \subseteq DOMAIN b.state.infos
  BY NextInfos, Zenon
<1> HIDE DEF b
<1>2. /\ Agree(c, d, Len(c)) /\ Len(d) = k /\ d[k] = b /\ Last(d) = b
  BY AppendFacts DEF ChainOK
<1>3. /\ Len(c) \in Nat \ {0} /\ Last(c) = c[Len(c)] /\ MaxHeight \in Nat
      /\ \A i \in 1 .. Len(c) : c[i] = d[i]
  BY <1>2, ChainFacts, ObligationAssumption DEF ChainOK, Agree
<1> HIDE DEF d
<1>4. /\ \A i \in 1 .. Len(c) : BlockOK(d, i) /\ ChangeOK(d, i)
      /\ \A i, j \in 1 .. Len(c) : i <= j => MarkOK(d, i, j)
  BY <1>2, AgreeBlocks
<1>5. BlockOK(d, k)
  <2>1. SoundInfos(b.state.infos) /\ DOMAIN b.state.infos \subseteq FramePix
    BY <1>1 DEF Stepped, SoundInfos
  <2> QED BY <1>1, <1>2, <1>3, <2>1 DEF BlockOK
<1>6. ASSUME x # NoChange
      PROVE  /\ x \in ChangeType /\ x.height \in Nat /\ x.height < Len(c)
             /\ Resolves(c, x) /\ Worker(c, x) = Worker(d, x) /\ Resolves(d, x)
             /\ Worker(c, x) \in DOMAIN Infos(c)
             /\ can_transition_to_state(Infos(c)[Worker(c, x)], x.height, x.state)
  <2>1. x \in ChangeType /\ x.height \in Nat
    BY <1>6, ObligationAssumption DEF ChangeType
  <2>2. /\ Resolves(c, x) /\ Worker(c, x) \in DOMAIN Infos(c)
        /\ can_transition_to_state(Infos(c)[Worker(c, x)], x.height, x.state)
    BY <1>6 DEF Mineable, check_tx_inputs, CanChange
  <2>3. x.height < Len(c)
    BY <2>1, <2>2, ResolvesFacts
  <2> QED BY <1>2, <2>1, <2>2, <2>3, AgreeWorkers
<1>7. ChangeOK(d, k)
  <2> SUFFICES ASSUME x # NoChange PROVE ChangeOK(d, k)
    BY <1>1, <1>2 DEF ChangeOK
  <2>1. d[k - 1].state.infos = Infos(c)
    BY <1>3 DEF Infos
  <2>2. d[k].change = x /\ x.height < k - 1
    BY <1>1, <1>2, <1>3, <1>6
  <2> HIDE DEF k
  <2> QED BY <1>6, <2>1, <2>2, Zenon DEF ChangeOK
<1>8. \A n \in DOMAIN Infos(c) : SoundInfo(Infos(c)[n])
  <2>1. SoundInfos(Infos(c))
    BY <1>3 DEF ChainOK, BlockOK, Infos
  <2> QED BY <2>1, SoundEntries
<1>9. \A n \in DOMAIN b.state.infos : SoundInfo(b.state.infos[n])
  BY <1>1, SoundEntries DEF Stepped
<1>10. ASSUME NEW i \in 1 .. Len(c) PROVE MarkOK(d, i, k)
  <2> DEFINE y == c[i].change
             n == Worker(c, y)
  <2> SUFFICES ASSUME y # NoChange, Worker(d, y) \in DOMAIN b.state.infos
               PROVE  Marked(b.state.infos[Worker(d, y)], y.state, i - 1)
    BY <1>2, <1>3 DEF MarkOK
  <2>1. Worker(d, y) = n
    <3>1. y \in ChangeType /\ y.height < i - 1
      BY DEF ChainOK, ChangeOK
    <3>2. y.height \in Nat /\ y.height < Len(c)
      BY <1>3, <3>1, ObligationAssumption DEF ChangeType
    <3> QED BY <1>2, <3>2, AgreeWorkers
  <2>2. n \in DOMAIN b.state.infos /\ n \in DOMAIN Infos(c)
    BY <1>1, <2>1, Zenon DEF Stepped
  <2>3. Marked(Infos(c)[n], y.state, i - 1)
    <3>1. MarkOK(c, i, Len(c)) /\ Infos(c) = c[Len(c)].state.infos
      BY <1>3 DEF ChainOK, Infos
    <3> QED BY <2>2, <3>1 DEF MarkOK
  <2>4. CASE Same(b.state.infos[n], Infos(c)[n])
    BY <2>1, <2>3, <2>4, SameMarks, ZenonT(30)
  <2>5. CASE Changed(b.state.infos[n], Infos(c)[n], x.state, Len(c))
    <3>1. i - 1 \in 0 .. Len(c) /\ Len(c) \in Nat
      BY <1>3
    <3> QED BY <1>8, <1>9, <2>1, <2>2, <2>3, <2>5, <3>1, ChangedMarks
  <2> QED BY <1>1, <2>2, <2>4, <2>5, Zenon DEF Stepped
<1>11. MarkOK(d, k, k)
  <2> SUFFICES ASSUME x # NoChange, Worker(d, x) \in DOMAIN b.state.infos
               PROVE  Marked(b.state.infos[Worker(d, x)], x.state, Len(c))
    BY <1>1, <1>2, <1>3 DEF MarkOK
  <2> DEFINE n == Worker(c, x)
  <2>1. Worker(d, x) = n /\ n \in DOMAIN b.state.infos /\ n \in DOMAIN Infos(c)
    BY <1>6, Zenon
  <2>2. Changed(b.state.infos[n], Infos(c)[n], x.state, Len(c))
    BY <1>1, <2>1, Zenon DEF Stepped
  <2> HIDE DEF n
  <2> QED BY <1>3, <1>8, <1>9, <2>1, <2>2, ChangedMarks, Zenon
<1>12. \A i, j \in 1 .. k : i <= j => MarkOK(d, i, j)
  <2> SUFFICES ASSUME NEW i \in 1 .. k, NEW j \in 1 .. k, i <= j PROVE MarkOK(d, i, j)
    OBVIOUS
  <2>1. CASE j \in 1 .. Len(c)
    BY <1>3, <1>4, <2>1
  <2>2. CASE j = k /\ i \in 1 .. Len(c)
    BY <1>10, <2>2
  <2>3. CASE j = k /\ i = k
    BY <1>11, <2>3
  <2> QED BY <1>3, <2>1, <2>2, <2>3
<1>13. \A i \in 1 .. k : BlockOK(d, i) /\ ChangeOK(d, i)
  BY <1>3, <1>4, <1>5, <1>7
<1>14. Len(d) \in 1 .. MaxHeight + 1 /\ IsChain(d)
  BY <1>2, <1>3 DEF Agree
<1>15. ChainOK(d)
  BY <1>2, <1>12, <1>13, <1>14 DEF ChainOK
<1>16. Stepped(Infos(d), Infos(c), c, x)
  BY <1>1, <1>2 DEF Infos
<1> QED BY <1>2, <1>15, <1>16 DEF d, b

\* can_transition_to_state refuses a change voted for before an earlier change.
LEMMA ChainBars ==
  ASSUME NEW c, ChainOK(c), NEW i \in DOMAIN c, NEW j \in DOMAIN c, i < j,
         c[i].change # NoChange, c[j].change # NoChange,
         Worker(c, c[i].change) = Worker(c, c[j].change),
         c[i].change.state = "ip_change_penalty" => c[j].change.state = "ip_change_penalty"
  PROVE  c[j].change.height > i - 1
<1> DEFINE x == c[i].change
           y == c[j].change
           infos == c[j - 1].state.infos
           n == Worker(c, y)
<1>1. i \in 1 .. Len(c) /\ j \in 1 .. Len(c) /\ j - 1 \in 1 .. Len(c) /\ i <= j - 1
  BY ChainFacts DEF ChainOK
<1>2. /\ y \in ChangeType /\ n \in DOMAIN infos
      /\ can_transition_to_state(infos[n], y.height, y.state)
  BY <1>1 DEF ChainOK, ChangeOK
<1>3. Marked(infos[n], x.state, i - 1)
  <2>1. MarkOK(c, i, j - 1)
    BY <1>1, Zenon DEF ChainOK
  <2> QED BY <1>2, <2>1, Zenon DEF MarkOK
<1>4. SoundInfo(infos[n])
  BY <1>1, <1>2, SoundEntries DEF ChainOK, BlockOK
<1>5. y.height \in Nat /\ i - 1 \in Nat
  BY <1>1, <1>2, ObligationAssumption DEF ChangeType
<1> HIDE DEF x, y, infos, n
<1> QED BY <1>2, <1>3, <1>4, <1>5, MarkedBars, Zenon DEF x, y

----------------------------------------------------------------------------
(* TypeOK and OldChangesNeverApply. *)

\* Max of two naturals is one of them and not below the other.
LEMMA MaxOfTwo ==
  ASSUME NEW a \in Nat, NEW b \in Nat
  PROVE  Max({a, b}) \in {a, b} /\ Max({a, b}) >= a /\ Max({a, b}) >= b
<1>1. \E x \in {a, b} : \A y \in {a, b} : x >= y
  <2>1. CASE a >= b
    BY <2>1
  <2>2. CASE b >= a
    BY <2>2
  <2> QED BY <2>1, <2>2
<1> QED BY <1>1 DEF Max

\* The invariant of the chain, inductive with the types.
ChainInv == TypeOK /\ ChainOK(chain) /\ Len(chain) <= peak

\* What the constants are.
LEMMA ConstantTypes ==
  /\ REORG_SAFETY_BUFFER_BLOCKS \in Nat /\ REORG_SAFETY_BUFFER_BLOCKS < UINT64_RANGE
  /\ UINT64_RANGE \in Nat /\ UINT64_RANGE > MaxHeight /\ MaxHeight \in Nat
  /\ LowestHeight \in Nat /\ LowestHeight > 0 /\ MaxCuts \in Nat /\ VOTE_LIFETIME \in Nat
  /\ Targets \subseteq Nat /\ Votes \subseteq VoteType
BY ObligationAssumption, StateAssumption

\* A change of a vote, or of a transaction made of votes, is a change.
LEMMA ChangeTypes ==
  /\ \A v \in VoteType : Change(v) \in ChangeType /\ Change(Queued(v)) \in ChangeType
  /\ \A v \in VoteType : Change(Queued(v)) = Change(v)
  /\ \A x \in ChangeType : Change(Kept(x)) = x
BY DEF VoteType, ChangeType, Change, Queued, Kept

\* process_quorums leaves the next height within the range of the type, and
\* visits none below zero.
LEMMA HeightsTyped ==
  ASSUME NEW c, Len(c) \in 1 .. MaxHeight + 1, NEW target \in Targets,
         m_obligations_height \in 0 .. UINT64_RANGE
  PROVE  /\ ObligationsAfter(c, target) \in 0 .. UINT64_RANGE
         /\ Visited(c, target) \subseteq Nat
<1>1. CASE ~Processes(c, target)
  BY <1>1 DEF ObligationsAfter, Visited
<1>2. CASE Processes(c, target)
  <2> DEFINE latest == latest_height(c, target)
             from == From(c, target)
             upto == UpTo(c)
  <2>1. latest \in Nat
    <3>1. Len(c) \in Nat /\ target \in Nat
      BY ConstantTypes
    <3> QED BY <3>1, MaxOfTwo DEF latest_height
  <2>2. latest - VOTE_LIFETIME \in Nat /\ latest - VOTE_LIFETIME <= Len(c) - 1
    BY <1>2, <2>1, ConstantTypes DEF Processes
  <2>3. from \in {m_obligations_height, latest - VOTE_LIFETIME}
    <3>1. from = Max({m_obligations_height, latest - VOTE_LIFETIME})
      BY DEF From
    <3>2. m_obligations_height \in Nat
      BY ConstantTypes
    <3> HIDE DEF latest, from
    <3> QED BY <2>2, <3>1, <3>2, MaxOfTwo
  <2>4. upto \in 0 .. UINT64_RANGE
    BY ConstantTypes DEF UpTo, Wrap
  <2>5. ObligationsAfter(c, target) = Max({from, upto})
    BY <1>2 DEF ObligationsAfter
  <2>6. Visited(c, target) = from .. upto - 1
    BY <1>2 DEF Visited
  <2> HIDE DEF latest, from, upto
  <2>7. from \in 0 .. UINT64_RANGE
    BY <2>2, <2>3, ConstantTypes
  <2>8. ObligationsAfter(c, target) \in {from, upto}
    <3>1. from \in Nat /\ upto \in Nat
      BY <2>4, <2>7, ConstantTypes
    <3> QED BY <2>5, <3>1, MaxOfTwo
  <2> QED BY <2>4, <2>6, <2>7, <2>8, ConstantTypes
<1> QED BY <1>1, <1>2

\* The votes of this node are votes, and stand for nodes of the chain.
LEMMA OwnVotesFacts ==
  ASSUME NEW c, ChainOK(c), NEW M \in SUBSET Nat, \A h \in M : h < Len(c), NEW v \in OwnVotes(c, M)
  PROVE  /\ v \in VoteType /\ v.height \in Nat /\ v.height < Len(c) /\ v.voter = Me
         /\ v.state = "recommission" /\ Resolves(c, v) /\ Worker(c, v) \in FramePix
<1>1. PICK h \in M : \E i \in DOMAIN Workers(c, h) :
        v = [height |-> h, index |-> i, state |-> "recommission", voter |-> Me]
  BY DEF OwnVotes
<1>2. PICK i \in DOMAIN Workers(c, h) :
        v = [height |-> h, index |-> i, state |-> "recommission", voter |-> Me]
  BY <1>1
<1>3. /\ v.height = h /\ v.index = i /\ v.state = "recommission" /\ v.voter = Me
      /\ h \in Nat /\ h < Len(c)
  BY <1>2
<1>4. Resolves(c, v)
  BY <1>3 DEF Resolves
<1>5. Worker(c, v) \in FramePix /\ i \in 1 .. Cardinality(FramePix)
  BY <1>3, <1>4, ResolvesFacts
<1>6. h \in 0 .. MaxHeight
  BY <1>3, ConstantTypes DEF ChainOK
<1> QED BY <1>2, <1>3, <1>4, <1>5, <1>6, Zenon DEF VoteType, StateChange

\* Init => ChainInv: the first chain carries no change.
LEMMA InitChainInv == Init => ChainInv
<1> SUFFICES ASSUME Init PROVE ChainInv
  OBVIOUS
<1>1. IsChain(chain) /\ Len(chain) \in LowestHeight .. MaxHeight + 1
  BY ChainAssumption, Zenon DEF Init, IsChain
<1>2. Len(chain) \in 1 .. MaxHeight + 1 /\ DOMAIN chain = 1 .. Len(chain)
  BY <1>1, ConstantTypes, ChainFacts
<1>3. \A i \in 1 .. Len(chain) :
        chain[i].change = NoChange /\ BlockOK(chain, i)
  BY <1>2, ChainAssumption, Zenon DEF Init, BlockOK
<1>4. ChainOK(chain)
  BY <1>1, <1>2, <1>3 DEF ChainOK, ChangeOK, MarkOK
<1>5. TypeOK
  BY <1>2, <1>3, ConstantTypes DEF TypeOK, Init, BlockOK
<1> QED BY <1>2, <1>4, <1>5 DEF ChainInv, Init

\* BlockAdded, unfolded: the change x, the new chain c and the votes V.
Adds(x, c, V, tx, target) ==
  /\ x = IF tx = NoChange THEN NoChange ELSE Change(tx)
  /\ c = Append(chain, NextBlock(chain, x, cuts))
  /\ Len(chain) <= MaxHeight /\ Mineable(chain, x)
  /\ chain' = c
  /\ m_obligations_height' = ObligationsAfter(c, target)
  /\ \E M \in SUBSET {h \in Visited(c, target) \cap QuorumHeights : h < Len(c)} : V = OwnVotes(c, M)
  /\ m_obligations_pool' = remove_used_votes(remove_expired_votes(m_obligations_pool \cup V, Len(c)), x)
  /\ pool_txs' = on_blockchain_inc(AfterOwnVotes(pool_txs \ {tx}, c, V), c)
  /\ signed' = signed \cup {[vote |-> v, node |-> Worker(c, v)] : v \in V}
  /\ peak' = Max({peak, Len(c)})
  /\ UNCHANGED <<inflight, cuts, deepest>>

\* Every block added is Adds of some change, chain and set of own votes.
LEMMA BlockAdds ==
  ASSUME NEW tx, NEW target, BlockAdded(tx, target)
  PROVE  \E x, c, V : Adds(x, c, V, tx, target)
<1> DEFINE x == IF tx = NoChange THEN NoChange ELSE Change(tx)
           c == Append(chain, NextBlock(chain, x, cuts))
<1>1. PICK d \in {c} :
        /\ chain' = d
        /\ m_obligations_height' = ObligationsAfter(d, target)
        /\ \E M \in SUBSET {h \in Visited(d, target) \cap QuorumHeights : h < Len(d)} :
             \E V \in {OwnVotes(d, M)} :
               /\ m_obligations_pool' =
                    remove_used_votes(remove_expired_votes(m_obligations_pool \cup V, Len(d)), x)
               /\ pool_txs' = on_blockchain_inc(AfterOwnVotes(pool_txs \ {tx}, d, V), d)
               /\ signed' = signed \cup {[vote |-> v, node |-> Worker(d, v)] : v \in V}
        /\ peak' = Max({peak, Len(d)})
  BY Zenon DEF BlockAdded
<1>2. d = c
  BY <1>1, Zenon
<1>3. Len(chain) <= MaxHeight /\ Mineable(chain, x) /\ UNCHANGED <<inflight, cuts, deepest>>
  BY Zenon DEF BlockAdded
<1> HIDE DEF x
<1>4. d = Append(chain, NextBlock(chain, x, cuts))
  BY <1>2, Zenon
<1> HIDE DEF c
<1>5. PICK M \in SUBSET {h \in Visited(d, target) \cap QuorumHeights : h < Len(d)} :
        \E V \in {OwnVotes(d, M)} :
          /\ m_obligations_pool' =
               remove_used_votes(remove_expired_votes(m_obligations_pool \cup V, Len(d)), x)
          /\ pool_txs' = on_blockchain_inc(AfterOwnVotes(pool_txs \ {tx}, d, V), d)
          /\ signed' = signed \cup {[vote |-> v, node |-> Worker(d, v)] : v \in V}
  BY <1>1, Zenon
<1>6. PICK V \in {OwnVotes(d, M)} :
          /\ m_obligations_pool' =
               remove_used_votes(remove_expired_votes(m_obligations_pool \cup V, Len(d)), x)
          /\ pool_txs' = on_blockchain_inc(AfterOwnVotes(pool_txs \ {tx}, d, V), d)
          /\ signed' = signed \cup {[vote |-> v, node |-> Worker(d, v)] : v \in V}
  BY <1>5, Zenon
<1>7. V = OwnVotes(d, M)
  BY <1>6, Zenon
<1>8. x = IF tx = NoChange THEN NoChange ELSE Change(tx)
  BY DEF x
<1>9. Adds(x, d, V, tx, target)
  BY <1>1, <1>3, <1>4, <1>6, <1>7, <1>8, Zenon DEF Adds
<1> QED BY <1>9, Zenon

\* What the votes and the transaction of a new block are.
LEMMA AddsFacts ==
  ASSUME ChainInv, NEW tx \in pool_txs \cup {NoChange}, NEW target \in Targets,
         NEW x, NEW c, NEW V, Adds(x, c, V, tx, target)
  PROVE  /\ x = NoChange \/ x \in ChangeType
         /\ ChainOK(c) /\ Agree(chain, c, Len(chain)) /\ Len(c) = Len(chain) + 1
         /\ Stepped(Infos(c), Infos(chain), chain, x)
         /\ \A v \in V : /\ v \in VoteType /\ v.height \in Nat /\ v.height < Len(c) /\ v.voter = Me
                         /\ v.state = "recommission" /\ Resolves(c, v) /\ Worker(c, v) \in FramePix
<1>1. x = NoChange \/ x \in ChangeType
  BY Zenon DEF Adds, ChainInv, TypeOK
<1>2. /\ ChainOK(chain) /\ Len(chain) <= MaxHeight /\ Mineable(chain, x)
      /\ cuts \in 0 .. MaxCuts /\ c = Append(chain, NextBlock(chain, x, cuts))
  BY Zenon DEF Adds, ChainInv, TypeOK
<1>3. /\ ChainOK(c) /\ Agree(chain, c, Len(chain)) /\ Len(c) = Len(chain) + 1
      /\ Stepped(Infos(c), Infos(chain), chain, x)
  BY <1>1, <1>2, NextChain
<1>4. PICK M \in SUBSET {h \in Visited(c, target) \cap QuorumHeights : h < Len(c)} :
        V = OwnVotes(c, M)
  BY Zenon DEF Adds
<1>5. M \in SUBSET Nat /\ \A h \in M : h < Len(c)
  <2>1. Visited(c, target) \subseteq Nat
    BY <1>3, HeightsTyped, Zenon DEF ChainOK, ChainInv, TypeOK
  <2> QED BY <1>4, <2>1
<1>6. ASSUME NEW v \in V
      PROVE  /\ v \in VoteType /\ v.height \in Nat /\ v.height < Len(c) /\ v.voter = Me
             /\ v.state = "recommission" /\ Resolves(c, v) /\ Worker(c, v) \in FramePix
  BY <1>3, <1>4, <1>5, OwnVotesFacts
<1> QED BY <1>1, <1>3, <1>6

\* A block added: the change was checked against the state it changes.
LEMMA BlockAddedChain ==
  ASSUME ChainInv, NEW tx \in pool_txs \cup {NoChange}, NEW target \in Targets,
         BlockAdded(tx, target)
  PROVE  ChainInv'
<1>1. PICK x, c, V : Adds(x, c, V, tx, target)
  BY BlockAdds
<1>2. /\ x = NoChange \/ x \in ChangeType
      /\ ChainOK(c) /\ Len(c) = Len(chain) + 1
      /\ \A v \in V : v \in VoteType /\ Worker(c, v) \in FramePix
  BY <1>1, AddsFacts
<1>3. chain' = c /\ inflight' = inflight /\ cuts' = cuts /\ deepest' = deepest
  BY <1>1, Zenon DEF Adds
<1>4. m_obligations_height' = ObligationsAfter(c, target)
  BY <1>1, Zenon DEF Adds
<1>5. m_obligations_pool' = remove_used_votes(remove_expired_votes(m_obligations_pool \cup V, Len(c)), x)
  BY <1>1, Zenon DEF Adds
<1>6. pool_txs' = on_blockchain_inc(AfterOwnVotes(pool_txs \ {tx}, c, V), c)
  BY <1>1, Zenon DEF Adds
<1>7. signed' = signed \cup {[vote |-> v, node |-> Worker(c, v)] : v \in V}
  BY <1>1, Zenon DEF Adds
<1>8. /\ peak' = Max({peak, Len(c)}) /\ peak \in 1 .. MaxHeight + 1
      /\ m_obligations_height \in 0 .. UINT64_RANGE
  BY <1>1, Zenon DEF Adds, ChainInv, TypeOK
<1>9. Len(c) \in 1 .. MaxHeight + 1 /\ DOMAIN c = 1 .. Len(c)
  BY <1>2, ChainFacts, Zenon DEF ChainOK
<1>10. \A i \in DOMAIN chain' : chain'[i].change \in ChangeType \cup {NoChange}
                               /\ chain'[i].state.height = i - 1
  BY <1>2, <1>3, <1>9, Zenon DEF ChainOK, BlockOK, ChangeOK
<1>11. m_obligations_height' \in 0 .. UINT64_RANGE
  BY <1>4, <1>8, <1>9, HeightsTyped, Zenon
<1>12. m_obligations_pool' \subseteq VoteType
  BY <1>2, <1>5, Zenon DEF remove_used_votes, remove_expired_votes, ChainInv, TypeOK
<1>13. ASSUME NEW t \in pool_txs'
      PROVE  Change(t) \in ChangeType /\ t.kept_by_block \in BOOLEAN
  <2>1. t \in AfterOwnVotes(pool_txs \ {tx}, c, V)
    BY <1>6 DEF on_blockchain_inc
  <2>2. CASE t \in pool_txs
    BY <2>2, Zenon DEF ChainInv, TypeOK
  <2>3. CASE t \notin pool_txs
    <3>1. PICK v \in Offered(pool_txs \ {tx}, c, V) : t = Queued(v)
      BY <2>1, <2>3 DEF AfterOwnVotes
    <3>2. v \in VoteType
      BY <1>2, <3>1 DEF Offered
    <3>3. t.kept_by_block = FALSE
      BY <3>1, Zenon DEF Queued
    <3> QED BY <3>1, <3>2, <3>3, ChangeTypes, Zenon
  <2> QED BY <2>2, <2>3
<1>14. \A s \in signed' : s.vote \in VoteType /\ s.node \in FramePix
  <2>1. \A s \in signed : s.vote \in VoteType /\ s.node \in FramePix
    BY Zenon DEF ChainInv, TypeOK
  <2> QED BY <1>2, <1>7, <2>1
<1>15. peak' \in 1 .. MaxHeight + 1 /\ Len(chain') <= peak'
  <2>1. peak \in Nat /\ Len(c) \in Nat /\ peak \in 1 .. MaxHeight + 1
    BY <1>8, <1>9, ConstantTypes
  <2>2. peak' \in {peak, Len(c)} /\ peak' >= Len(c)
    BY <1>8, <2>1, MaxOfTwo
  <2> QED BY <1>3, <1>9, <2>1, <2>2, Zenon
<1>16. /\ \A t \in inflight' : t.vote \in VoteType /\ t.node \in FramePix /\ t.step \in {"verified", "pooled"}
       /\ cuts' \in 0 .. MaxCuts /\ deepest' \in 0 .. MaxHeight
  BY <1>3, Zenon DEF ChainInv, TypeOK
<1>17. Len(chain') \in 1 .. MaxHeight + 1
  BY <1>3, <1>9, Zenon
<1>18. TypeOK'
  BY <1>10, <1>11, <1>12, <1>13, <1>14, <1>15, <1>16, <1>17, Zenon DEF TypeOK
<1>19. ChainOK(chain')
  BY <1>2, <1>3, Zenon
<1> QED BY <1>15, <1>18, <1>19 DEF ChainInv

\* A cut: the changes of the popped blocks return to the pool.
LEMMA DetachedChain ==
  ASSUME ChainInv, NEW height, BlockchainDetached(height)
  PROVE  ChainInv'
<1>1. /\ height \in LowestHeight .. Len(chain) - 1 /\ chain' = SubSeq(chain, 1, height)
      /\ m_obligations_height' = ObligationsAfterDetach(height)
      /\ m_obligations_pool' = remove_expired_votes(m_obligations_pool, height)
      /\ pool_txs' = pool_txs \cup Returned(height)
      /\ cuts < MaxCuts /\ cuts' = cuts + 1 /\ deepest' = Max({deepest, peak - height})
      /\ inflight' = inflight /\ signed' = signed /\ peak' = peak
  BY DEF BlockchainDetached
<1>2. /\ ChainOK(chain) /\ Len(chain) \in 1 .. MaxHeight + 1 /\ Len(chain) <= peak
      /\ peak \in 1 .. MaxHeight + 1 /\ deepest \in 0 .. MaxHeight /\ cuts \in 0 .. MaxCuts
      /\ m_obligations_height \in 0 .. UINT64_RANGE
  BY Zenon DEF ChainInv, TypeOK
<1>3. height \in 1 .. Len(chain) /\ height < Len(chain) /\ height \in 1 .. MaxHeight
  BY <1>1, <1>2, ConstantTypes
<1>4. ChainOK(chain') /\ Len(chain') = height
  BY <1>1, <1>2, <1>3, CutOK
<1>5. DOMAIN chain' = 1 .. height /\ DOMAIN chain = 1 .. Len(chain)
  BY <1>2, <1>4, ChainFacts, ZenonT(30) DEF ChainOK
<1>6. \A i \in DOMAIN chain' : chain'[i].change \in ChangeType \cup {NoChange}
                               /\ chain'[i].state.height = i - 1
  BY <1>4, <1>5 DEF ChainOK, BlockOK, ChangeOK
<1>7. m_obligations_height' \in 0 .. UINT64_RANGE
  BY <1>1, <1>2, <1>3, ConstantTypes DEF ObligationsAfterDetach
<1>8. m_obligations_pool' \subseteq VoteType
  BY <1>1 DEF remove_expired_votes, ChainInv, TypeOK
<1>9. ASSUME NEW t \in pool_txs'
      PROVE  Change(t) \in ChangeType /\ t.kept_by_block \in BOOLEAN
  <2>1. CASE t \in pool_txs
    BY <2>1 DEF ChainInv, TypeOK
  <2>2. CASE t \in Returned(height)
    <3>1. PICK i \in height + 1 .. Len(chain) : chain[i].change # NoChange /\ t = Kept(chain[i].change)
      BY <2>2 DEF Returned
    <3>2. i \in 1 .. Len(chain)
      BY <1>3, <3>1
    <3>3. chain[i].change \in ChangeType
      BY <1>2, <3>1, <3>2, Zenon DEF ChainOK, ChangeOK
    <3>4. t.kept_by_block = TRUE
      BY <3>1 DEF Kept
    <3> QED BY <3>1, <3>3, <3>4, ChangeTypes, Zenon
  <2> QED BY <1>1, <2>1, <2>2, Zenon
<1>10. deepest' \in 0 .. MaxHeight
  <2>1. deepest \in Nat /\ peak - height \in Nat /\ peak - height <= MaxHeight
    BY <1>2, <1>3, ConstantTypes
  <2>2. deepest' \in {deepest, peak - height}
    BY <1>1, <2>1, MaxOfTwo, Zenon
  <2> QED BY <1>2, <2>1, <2>2, ConstantTypes
<1>11. /\ \A t \in inflight' : t.vote \in VoteType /\ t.node \in FramePix /\ t.step \in {"verified", "pooled"}
       /\ \A s \in signed' : s.vote \in VoteType /\ s.node \in FramePix
       /\ peak' \in 1 .. MaxHeight + 1
  BY <1>1, Zenon DEF ChainInv, TypeOK
<1>12. Len(chain') \in 1 .. MaxHeight + 1 /\ Len(chain') <= peak' /\ cuts' \in 0 .. MaxCuts
  BY <1>1, <1>2, <1>3, <1>4, ConstantTypes
<1>13. TypeOK'
  BY <1>6, <1>7, <1>8, <1>9, <1>10, <1>11, <1>12, Zenon DEF TypeOK
<1> QED BY <1>4, <1>12, <1>13 DEF ChainInv

\* A network thread leaves the chain alone.
LEMMA ThreadChain ==
  ASSUME ChainInv,
         \/ \E v \in Votes \cup OwnSigned : VerifyVote(v)
         \/ \E t \in inflight : AddPoolVoteIfUnique(t) \/ HandleObligationsVote(t)
  PROVE  ChainInv'
<1>1. /\ TypeOK /\ ChainOK(chain) /\ Len(chain) <= peak
  BY DEF ChainInv
<1>2. ASSUME NEW v \in Votes \cup OwnSigned, VerifyVote(v) PROVE ChainInv'
  <2>1. v \in VoteType /\ v.height \in Nat
    <3>1. OwnSigned \subseteq VoteType
      BY <1>1 DEF OwnSigned, TypeOK
    <3>2. v \in VoteType
      BY <1>2, <3>1, ConstantTypes, Zenon
    <3> QED BY <3>2 DEF VoteType
  <2>2. Worker(chain, v) \in FramePix
    BY <1>1, <1>2, <2>1, ResolvesFacts, Zenon DEF VerifyVote
  <2>3. inflight' = inflight \cup {[vote |-> v, node |-> Worker(chain, v), step |-> "verified"]}
    BY <1>2 DEF VerifyVote
  <2>4. \A t \in inflight' : t.vote \in VoteType /\ t.node \in FramePix /\ t.step \in {"verified", "pooled"}
    BY <1>1, <2>1, <2>2, <2>3 DEF TypeOK
  <2>5. UNCHANGED <<chain, m_obligations_height, m_obligations_pool, pool_txs, cuts, signed, peak, deepest>>
    BY <1>2 DEF VerifyVote
  <2>6. TypeOK'
    BY <1>1, <2>4, <2>5, Zenon DEF TypeOK
  <2> QED BY <1>1, <2>5, <2>6, Zenon DEF ChainInv
<1>3. ASSUME NEW t \in inflight, AddPoolVoteIfUnique(t) PROVE ChainInv'
  <2>1. /\ m_obligations_pool' = m_obligations_pool \cup {t.vote}
        /\ inflight' \subseteq inflight \cup {[t EXCEPT !.step = "pooled"]}
        /\ UNCHANGED <<chain, m_obligations_height, pool_txs, cuts, signed, peak, deepest>>
    BY <1>3 DEF AddPoolVoteIfUnique
  <2>2. t.vote \in VoteType /\ t.node \in FramePix /\ t.step = "verified"
    BY <1>1, <1>3 DEF TypeOK, AddPoolVoteIfUnique
  <2> DEFINE u == [t EXCEPT !.step = "pooled"]
  <2>3. u.vote = t.vote /\ u.node = t.node /\ u.step \in {"verified", "pooled"}
    BY <2>2
  <2> HIDE DEF u
  <2>4. \A r \in inflight' : r.vote \in VoteType /\ r.node \in FramePix /\ r.step \in {"verified", "pooled"}
    BY <1>1, <2>1, <2>2, <2>3, Zenon DEF TypeOK, u
  <2>5. TypeOK'
    BY <1>1, <2>1, <2>2, <2>4 DEF TypeOK
  <2> QED BY <1>1, <2>1, <2>5 DEF ChainInv
<1>4. ASSUME NEW t \in inflight, HandleObligationsVote(t) PROVE ChainInv'
  <2>1. /\ pool_txs' \subseteq pool_txs \cup {Queued(t.vote)}
        /\ inflight' \subseteq inflight
        /\ UNCHANGED <<chain, m_obligations_height, m_obligations_pool, cuts, signed, peak, deepest>>
    BY <1>4 DEF HandleObligationsVote, handle_obligations_vote
  <2>2. Change(Queued(t.vote)) \in ChangeType /\ Queued(t.vote).kept_by_block \in BOOLEAN
    <3>1. t.vote \in VoteType
      BY <1>1 DEF TypeOK
    <3>2. Queued(t.vote).kept_by_block = FALSE
      BY Zenon DEF Queued
    <3> QED BY <3>1, <3>2, ChangeTypes, Zenon
  <2>3. TypeOK'
    BY <1>1, <2>1, <2>2, Zenon DEF TypeOK
  <2> QED BY <1>1, <2>1, <2>3 DEF ChainInv
<1> QED BY <1>2, <1>3, <1>4

\* ChainInv /\ [Next]_vars => ChainInv'.
LEMMA NextChainInv ==
  ASSUME ChainInv, [Next]_vars
  PROVE  ChainInv'
<1>1. CASE UNCHANGED vars
  BY <1>1 DEF vars, ChainInv, TypeOK
<1>2. CASE \/ \E v \in Votes \cup OwnSigned : VerifyVote(v)
           \/ \E t \in inflight : AddPoolVoteIfUnique(t) \/ HandleObligationsVote(t)
  BY <1>2, ThreadChain
<1>3. CASE \E tx \in pool_txs \cup {NoChange}, target \in Targets : BlockAdded(tx, target)
  BY <1>3, BlockAddedChain
<1>4. CASE \E height \in LowestHeight .. MaxHeight : BlockchainDetached(height)
  BY <1>4, DetachedChain, Zenon
<1>5. CASE Restart
  <2>1. 0 \in 0 .. UINT64_RANGE
    BY ConstantTypes
  <2> QED BY <1>5, <2>1 DEF Restart, ChainInv, TypeOK
<1> QED BY <1>1, <1>2, <1>3, <1>4, <1>5, ZenonT(30) DEF Next

\* The tables of the chain record its changes in every state: update_from_block,
\* detach and restart leave a chain that update_from_block could have built.
THEOREM ObligationChainInvariance == Spec => []ChainInv
<1>1. Init => ChainInv
  BY InitChainInv
<1>2. ChainInv /\ [Next]_vars => ChainInv'
  BY NextChainInv
<1> QED BY <1>1, <1>2, PTL DEF Spec

\* The state of the vote handling is well typed in every state.
THEOREM ObligationTypes == Spec => []TypeOK
<1>1. ChainInv => TypeOK
  BY Zenon DEF ChainInv
<1> QED BY <1>1, ObligationChainInvariance, PTL

\* A change on the chain was voted for after every earlier change of its node (an
\* IP change penalty bars only later IP change penalties): can_transition_to_state
\* never lets votes from before a change apply after it.
THEOREM OldChangesStayOut == Spec => []OldChangesNeverApply
<1>1. ChainInv => OldChangesNeverApply
  <2> SUFFICES ASSUME ChainInv, NEW i \in DOMAIN chain, NEW j \in DOMAIN chain, i < j,
                      chain[i].change # NoChange, chain[j].change # NoChange,
                      Worker(chain, chain[i].change) = Worker(chain, chain[j].change),
                      chain[i].change.state = "ip_change_penalty"
                        => chain[j].change.state = "ip_change_penalty"
               PROVE  chain[j].change.height > i - 1
    BY DEF OldChangesNeverApply
  <2> QED BY ChainBars, Zenon DEF ChainInv
<1> QED BY <1>1, ObligationChainInvariance, PTL
============================================================================
