-------------------------- MODULE FramePixHistory --------------------------
(***************************************************************************)
(* What the list of frame pixs promises to the rest of the node: for every *)
(* main chain, the state its blocks lead to and the quorums of the recent  *)
(* heights, as if every state since the first block were remembered.       *)
(* FramePixList, which keeps a window of states, archives some and saves   *)
(* few, is shown to implement this specification.                          *)
(***************************************************************************)
EXTENDS FramePixState, SequencesExt

VARIABLES
  chain,    \* the main chain: block h is chain[h + 1]
  states,   \* states[h + 1]: the state after block h, all of them
  durable,  \* the chain and the states that a crash goes back to
  m_state,  \* the current state, as the users of the list see it
  served    \* the quorums of the recent heights, as the users of the list see them

hvars == <<chain, states, durable, m_state, served>>

\* The heights whose quorums a vote, a state change or a blink may still name.
Recent(c) == {h \in 0 .. Len(c) - 1 : h + VOTE_LIFETIME >= Len(c) - 1}

\* Blink quorums are no part of the promise: they are not saved.
View(s) == [s EXCEPT !.quorums.blink = FALSE]

Shown ==
  /\ m_state' = View(Last(states'))
  /\ served' = [h \in Recent(chain') |-> {View(states'[h + 1]).quorums}]

HInit(first) ==
  /\ chain = first
  /\ Len(states) = Len(first)
  /\ states[1] = NullState
  /\ \A i \in 2 .. Len(first) :
        states[i] = update_from_block(states[i - 1], ToSet(SubSeq(states, 1, i - 1)), {}, first[i])
  /\ durable = [chain |-> chain, states |-> states]
  /\ m_state = View(Last(states))
  /\ served = [h \in Recent(chain) |-> {View(states[h + 1]).quorums}]

\* A block joins the main chain: its transactions meet every quorum there ever was.
Extend ==
  /\ Len(chain') = Len(chain) + 1 /\ Front(chain') = chain
  /\ states' = Append(states, update_from_block(Last(states), ToSet(states), {}, Last(chain')))
  /\ UNCHANGED durable
  /\ Shown

\* Blocks leave the main chain: the list is back where it was before them.
Cut ==
  /\ Len(chain') < Len(chain) /\ chain' = SubSeq(chain, 1, Len(chain'))
  /\ states' = SubSeq(states, 1, Len(chain'))
  /\ UNCHANGED durable
  /\ Shown

Commit ==
  /\ durable' = [chain |-> chain, states |-> states]
  /\ UNCHANGED <<chain, states>>
  /\ Shown

Recover ==
  /\ chain' = durable.chain /\ states' = durable.states
  /\ UNCHANGED durable
  /\ Shown

HNext == Extend \/ Cut \/ Commit \/ Recover
=============================================================================
