-------------------------- MODULE BlinkQuorumProofs --------------------------
(***************************************************************************)
(* The theorems about BlinkQuorum, for any nodes, blinks, quorums, limits  *)
(* and number of restarts.                                                 *)
(***************************************************************************)
EXTENDS BlinkQuorum, FiniteSetTheorems, TLAPS

\* The signatures of `sigs' are among those made for the blink.
Made(made, b, sigs) == \A g \in sigs : <<g.node, b, g.approval>> \in made

\* What is stored for the blink has been signed.
Stored(made, s, b) ==
  \A v \in Nodes : /\ s[v] = "approved" => <<v, b, TRUE>> \in made
                   /\ s[v] = "rejected" => <<v, b, FALSE>> \in made

(* The inductive invariant: every signature at rest, at work or on its way    *)
(* was made by the member it names; a member that approved a blink has it in  *)
(* its pool until the pool drops it, and no pool holds two blinks that        *)
(* conflict; an answer that says "good" rests on enough signatures.           *)
SignaturesMade ==
  /\ \A m \in sent : Made(signed, m.b, {m.sig})
  /\ \A t \in threads : Made(signed, t.b, t.sigs)
  /\ \A n \in Nodes, b \in Blinks : Made(signed, b, pending_sigs[n][b])
  /\ \A n \in Nodes, b \in Blinks : Stored(signed, signatures[n][b], b)

PoolsHold ==
  /\ \A n \in Nodes, b \in Blinks :
       <<n, b, TRUE>> \in signed => b \in pool[n] \/ <<n, b>> \in dropped
  /\ \A n \in Nodes : \A b, c \in pool[n] : <<b, c>> \notin Conflicts

AnswersSigned ==
  /\ \A a \in answers : a.kind = "good" => EnoughSigned(signed, a.b)
  /\ \A b \in Blinks : result[b] = "accepted" => EnoughSigned(signed, b)

IInv == TypeOK /\ SignaturesMade /\ PoolsHold /\ AnswersSigned

-----------------------------------------------------------------------------
(* Quorums. *)

\* A subquorum is a finite set of at most BLINK_SUBQUORUM_SIZE nodes.
LEMMA ValidatorsFact ==
  ASSUME NEW b \in Blinks, NEW q \in Subquorums
  PROVE  /\ validators(b, q) \subseteq Nodes
         /\ IsFiniteSet(validators(b, q))
         /\ Cardinality(validators(b, q)) \in Nat
         /\ Cardinality(validators(b, q)) <= BLINK_SUBQUORUM_SIZE
<1> DEFINE f == Validators[b][q]
           V == validators(b, q)
<1>1. f \in Seq(Nodes) /\ Len(f) <= BLINK_SUBQUORUM_SIZE
  BY QuorumAssumption DEF Subquorums
<1>2. DOMAIN f = 1 .. Len(f) /\ Len(f) \in Nat /\ f \in [1 .. Len(f) -> Nodes]
  BY <1>1
<1>3. V = {f[i] : i \in 1 .. Len(f)}
  BY <1>2 DEF validators
<1>4. V \subseteq Nodes
  BY <1>2, <1>3
<1> HIDE DEF V, f
<1>5. f \in [1 .. Len(f) -> V] /\ \A v \in V : \E i \in 1 .. Len(f) : f[i] = v
  BY <1>2, <1>3
<1>6. f \in Surjection(1 .. Len(f), V)
  BY <1>5 DEF Surjection
<1>7. IsFiniteSet(1 .. Len(f)) /\ Cardinality(1 .. Len(f)) = Len(f)
  <2> DEFINE n == Len(f)
             size == IF 1 > n THEN 0 ELSE n - 1 + 1
  <2>1. n \in Nat /\ n \in Int /\ 1 \in Int
    BY <1>2
  <2> HIDE DEF n
  <2>2. IsFiniteSet(1 .. n) /\ Cardinality(1 .. n) = size
    BY <2>1, FS_Interval, Zenon
  <2>3. size = n
    BY <2>1
  <2> HIDE DEF size
  <2> QED BY <2>2, <2>3, Zenon DEF n
<1>8. IsFiniteSet(V) /\ Cardinality(V) <= Len(f)
  BY <1>6, <1>7, FS_Surjection
<1>9. Cardinality(V) \in Nat
  BY <1>8, FS_CardinalityType
<1>10. Cardinality(V) <= BLINK_SUBQUORUM_SIZE
  BY <1>1, <1>2, <1>8, <1>9, QuorumAssumption
<1> QED
  BY <1>4, <1>8, <1>9, <1>10 DEF V

\* Two sets of members that together outnumber a subquorum share one.
LEMMA Overlap ==
  ASSUME NEW b \in Blinks, NEW q \in Subquorums,
         NEW A \in SUBSET validators(b, q), NEW B \in SUBSET validators(b, q),
         Cardinality(A) + Cardinality(B) > Cardinality(validators(b, q))
  PROVE  \E v \in Nodes : v \in A /\ v \in B
<1>1. A \cap B # {}
  BY ValidatorsFact, FS_MajoritiesIntersect
<1> QED
  BY <1>1, ValidatorsFact

\* The size of a set of members of a subquorum.
LEMMA SizeFact ==
  ASSUME NEW b \in Blinks, NEW q \in Subquorums, NEW A \in SUBSET validators(b, q)
  PROVE  Cardinality(A) \in Nat
  BY ValidatorsFact, FS_Subset, FS_CardinalityType

\* More signatures never make fewer signers.
LEMMA SignersGrow ==
  ASSUME NEW b \in Blinks, NEW q \in Subquorums, NEW A \in SUBSET validators(b, q),
         NEW B \in SUBSET validators(b, q), A \subseteq B, Cardinality(A) >= BLINK_MIN_VOTES
  PROVE  Cardinality(B) >= BLINK_MIN_VOTES
<1>1. IsFiniteSet(B)
  BY ValidatorsFact, FS_Subset
<1>2. Cardinality(A) <= Cardinality(B)
  BY <1>1, FS_Subset
<1>3. Cardinality(A) \in Nat /\ Cardinality(B) \in Nat
  BY SizeFact
<1>4. BLINK_MIN_VOTES \in Nat
  BY QuorumAssumption
<1> QED
  BY <1>2, <1>3, <1>4

\* A blink that is approved by what a node stores has enough signers.
LEMMA ApprovedIsSigned ==
  ASSUME NEW b \in Blinks, NEW made, NEW s, Stored(made, s, b), approved(s, b)
  PROVE  EnoughSigned(made, b)
<1> SUFFICES ASSUME NEW q \in Subquorums
             PROVE  Cardinality(Signers(made, b, q)) >= BLINK_MIN_VOTES
  BY DEF EnoughSigned
<1>1. Marked(s, b, q, "approved") \subseteq Signers(made, b, q)
  BY ValidatorsFact, Zenon DEF Marked, Signers, Stored
<1>2. Signers(made, b, q) \subseteq validators(b, q)
  BY Zenon DEF Signers
<1>3. Cardinality(Marked(s, b, q, "approved")) >= BLINK_MIN_VOTES
  BY DEF approved
<1> QED
  BY <1>1, <1>2, <1>3, SignersGrow

-----------------------------------------------------------------------------
(* What the invariant implies. *)

\* Blinks that conflict and share a subquorum are not both approved, unless a
\* member signed both because its pool had dropped one.
LEMMA ConflictFact ==
  IInv => NoConflictingBlinks
<1> SUFFICES ASSUME IInv, NEW b \in Blinks, NEW c \in Blinks, <<b, c>> \in Conflicts,
                    ShareSubquorum(b, c), ApprovedSomewhere(b), ApprovedSomewhere(c)
             PROVE  \E v \in Nodes : /\ {<<v, b, TRUE>>, <<v, c, TRUE>>} \subseteq signed
                                     /\ <<v, b>> \in dropped \/ <<v, c>> \in dropped
  BY Zenon DEF NoConflictingBlinks
<1>1. PICK q \in Subquorums, r \in Subquorums : Validators[b][q] = Validators[c][r]
  BY DEF ShareSubquorum
<1>2. validators(b, q) = validators(c, r)
  BY <1>1 DEF validators
<1>3. EnoughSigned(signed, b) /\ EnoughSigned(signed, c)
  BY ApprovedIsSigned DEF ApprovedSomewhere, IInv, SignaturesMade
<1>4. Cardinality(Signers(signed, b, q)) >= BLINK_MIN_VOTES /\ Cardinality(Signers(signed, c, r)) >= BLINK_MIN_VOTES
  BY <1>3 DEF EnoughSigned
<1>5. Signers(signed, b, q) \subseteq validators(b, q) /\ Signers(signed, c, r) \subseteq validators(b, q)
  BY <1>2, Zenon DEF Signers
<1>6. Cardinality(Signers(signed, b, q)) \in Nat /\ Cardinality(Signers(signed, c, r)) \in Nat
  BY <1>5, SizeFact
<1>7. /\ Cardinality(validators(b, q)) \in Nat
      /\ Cardinality(validators(b, q)) <= BLINK_SUBQUORUM_SIZE
  BY ValidatorsFact
<1>8. /\ BLINK_MIN_VOTES \in Nat /\ BLINK_SUBQUORUM_SIZE \in Nat
      /\ 2 * BLINK_MIN_VOTES > BLINK_SUBQUORUM_SIZE
  BY QuorumAssumption
<1>9. Cardinality(Signers(signed, b, q)) + Cardinality(Signers(signed, c, r)) > Cardinality(validators(b, q))
  BY <1>4, <1>6, <1>7, <1>8
<1>10. PICK v \in Nodes : v \in Signers(signed, b, q) /\ v \in Signers(signed, c, r)
  BY <1>5, <1>9, Overlap
<1>11. <<v, b, TRUE>> \in signed /\ <<v, c, TRUE>> \in signed
  BY <1>10 DEF Signers
<1>12. <<v, b>> \in dropped \/ <<v, c>> \in dropped
  BY <1>11, Zenon DEF IInv, PoolsHold
<1> QED
  BY <1>11, <1>12, Zenon

\* Members that approve and members that reject outnumber the subquorum.
LEMMA VerdictsOverlap ==
  ASSUME NEW b \in Blinks, NEW s, NEW u, approved(s, b), rejected(u, b)
  PROVE  \E v \in Nodes : s[v] = "approved" /\ u[v] = "rejected"
<1>1. PICK q \in Subquorums :
        Cardinality(Marked(u, b, q, "rejected")) + (BLINK_SUBQUORUM_SIZE - Cardinality(validators(b, q)))
          > BLINK_SUBQUORUM_SIZE - BLINK_MIN_VOTES
  BY DEF rejected
<1> DEFINE A == Marked(s, b, q, "approved")
           R == Marked(u, b, q, "rejected")
<1>2. A \subseteq validators(b, q) /\ R \subseteq validators(b, q)
  BY DEF Marked
<1>3. Cardinality(A) >= BLINK_MIN_VOTES
  BY DEF approved
<1>4. Cardinality(A) \in Nat /\ Cardinality(R) \in Nat /\ Cardinality(validators(b, q)) \in Nat
  BY <1>2, SizeFact, ValidatorsFact
<1>5. BLINK_MIN_VOTES \in Nat /\ BLINK_SUBQUORUM_SIZE \in Nat
  BY QuorumAssumption
<1>6. Cardinality(A) + Cardinality(R) > Cardinality(validators(b, q))
  <2> HIDE DEF A
  <2> QED
    BY <1>1, <1>3, <1>4, <1>5
<1>7. PICK v \in Nodes : v \in A /\ v \in R
  BY <1>2, <1>6, Overlap
<1> QED
  BY <1>7 DEF Marked

\* The verdicts of two nodes differ only if a member signed both ways.
LEMMA VerdictFact ==
  IInv => OneVerdict
<1> SUFFICES ASSUME IInv, NEW b \in Blinks, NEW n \in Nodes, approved(signatures[n][b], b),
                    NEW m \in Nodes, rejected(signatures[m][b], b)
             PROVE  /\ ~approved(signatures[m][b], b)
                    /\ \E v \in Nodes : {<<v, b, TRUE>>, <<v, b, FALSE>>} \subseteq signed
  BY Zenon DEF OneVerdict, ApprovedSomewhere
<1>1. ~approved(signatures[m][b], b)
  BY VerdictsOverlap
<1>2. PICK v \in Nodes : signatures[n][b][v] = "approved" /\ signatures[m][b][v] = "rejected"
  BY VerdictsOverlap
<1>3. <<v, b, TRUE>> \in signed /\ <<v, b, FALSE>> \in signed
  BY <1>2, Zenon DEF IInv, SignaturesMade, Stored
<1> QED
  BY <1>1, <1>3, Zenon

-----------------------------------------------------------------------------
(* Peers. *)

\* The peers of a member are nodes.
LEMMA PeersFact ==
  ASSUME NEW n \in Nodes, NEW b \in Blinks, NEW exclude
  PROVE  /\ strong_peers(n, b, exclude) \subseteq Nodes
         /\ weak_peers(n, b, exclude) \subseteq Nodes
<1> DEFINE V(q) == Validators[b][q]
<1>1. \A q \in Subquorums : V(q) \in Seq(Nodes)
  BY QuorumAssumption DEF Subquorums
<1>2. \A q \in Subquorums : /\ Len(V(q)) \in Nat
                            /\ DOMAIN V(q) = 1 .. Len(V(q))
                            /\ \A i \in 1 .. Len(V(q)) : V(q)[i] \in Nodes
  BY <1>1
<1>3. \A q \in Subquorums : \A i \in DOMAIN V(q) : get_matrix(b, q)[i] \subseteq DOMAIN V(q)
  <2> TAKE q \in Subquorums
  <2> TAKE i \in DOMAIN V(q)
  <2>1. CASE Len(V(q)) \in DOMAIN Matrix
    <3>1. Matrix[Len(V(q))] \in [1 .. Len(V(q)) -> SUBSET (1 .. Len(V(q)))]
      BY <2>1, MatrixAssumption
    <3> QED
      BY <2>1, <3>1, <1>2 DEF get_matrix
  <2>2. CASE Len(V(q)) \notin DOMAIN Matrix
    BY <2>2 DEF get_matrix
  <2> QED
    BY <2>1, <2>2
<1>4. quorum_outgoing_conns(n, b) \subseteq Nodes
  <2>1. \A q \in Subquorums : my_position(n, b, q) \subseteq DOMAIN V(q)
    BY DEF my_position
  <2>2. quorum_outgoing_conns(n, b) =
          UNION {{V(q)[j] : j \in UNION {get_matrix(b, q)[i] : i \in my_position(n, b, q)}} :
                   q \in Subquorums}
    BY DEF quorum_outgoing_conns
  <2> SUFFICES ASSUME NEW q \in Subquorums, NEW i \in my_position(n, b, q),
                      NEW j \in get_matrix(b, q)[i]
               PROVE  V(q)[j] \in Nodes
    BY <2>2
  <2> QED
    BY <1>2, <1>3, <2>1
<1>5. quorum_incoming_conns(n, b) \subseteq Nodes
  BY DEF quorum_incoming_conns
<1>6. Across(n, b) \subseteq Nodes
  <2> DEFINE half == (IF Len(V(0)) < Len(V(1)) THEN Len(V(0)) ELSE Len(V(1))) \div 2
  <2>1. 0 \in Subquorums /\ 1 \in Subquorums
    BY DEF Subquorums
  <2>2. Len(V(0)) \in Nat /\ Len(V(1)) \in Nat
    BY <1>2, <2>1
  <2>3. half \in Nat /\ 2 * half <= Len(V(0)) /\ 2 * half <= Len(V(1))
    <3>1. \A k \in Nat : k \div 2 \in Nat /\ 2 * (k \div 2) <= k
      OBVIOUS
    <3>2. CASE Len(V(0)) < Len(V(1))
      <4>1. half = Len(V(0)) \div 2
        BY <3>2
      <4> HIDE DEF half, V
      <4> QED
        BY <2>2, <3>1, <3>2, <4>1
    <3>3. CASE ~(Len(V(0)) < Len(V(1)))
      <4>1. half = Len(V(1)) \div 2
        BY <3>3
      <4> HIDE DEF half, V
      <4> QED
        BY <2>2, <3>1, <3>3, <4>1
    <3> QED
      BY <3>2, <3>3, Zenon
  <2> HIDE DEF half
  <2>4. \A i \in half + 1 .. 2 * half : i - half \in 1 .. Len(V(1))
    BY <2>2, <2>3
  <2>5. \A i \in 1 .. half : half + i \in 1 .. Len(V(0))
    BY <2>2, <2>3
  <2>6. {V(1)[i - half] : i \in my_position(n, b, 0) \cap (half + 1 .. 2 * half)} \subseteq Nodes
    BY <1>2, <2>1, <2>4
  <2>7. {V(0)[half + i] : i \in my_position(n, b, 1) \cap (1 .. half)} \subseteq Nodes
    BY <1>2, <2>1, <2>5
  <2> QED
    BY <2>6, <2>7, Zenon DEF Across, half
<1> QED
  BY <1>4, <1>5, <1>6 DEF strong_peers, weak_peers

-----------------------------------------------------------------------------
(* The steps. *)

\* A blink with enough signers keeps them.
LEMMA EnoughGrows ==
  ASSUME NEW b \in Blinks, NEW made, NEW more, made \subseteq more, EnoughSigned(made, b)
  PROVE  EnoughSigned(more, b)
<1> SUFFICES ASSUME NEW q \in Subquorums
             PROVE  Cardinality(Signers(more, b, q)) >= BLINK_MIN_VOTES
  BY DEF EnoughSigned
<1>1. Signers(made, b, q) \subseteq Signers(more, b, q)
  BY Zenon DEF Signers
<1>2. Signers(made, b, q) \subseteq validators(b, q) /\ Signers(more, b, q) \subseteq validators(b, q)
  BY Zenon DEF Signers
<1>3. Cardinality(Signers(made, b, q)) >= BLINK_MIN_VOTES
  BY DEF EnoughSigned
<1> QED
  BY <1>1, <1>2, <1>3, SignersGrow

\* The first states satisfy the invariant.
LEMMA InitFact ==
  Init => IInv
<1> SUFFICES ASSUME Init PROVE IInv
  OBVIOUS
<1> USE DEF Init, NoBlinks, NoSignatures
<1>1. TypeOK
  BY DEF TypeOK, Statuses, Signature, Results
<1>2. SignaturesMade
  BY DEF SignaturesMade, Made, Stored
<1>3. PoolsHold
  BY DEF PoolsHold
<1>4. AnswersSigned
  BY DEF AnswersSigned
<1> QED
  BY <1>1, <1>2, <1>3, <1>4 DEF IInv

\* send_blink
LEMMA SendStep ==
  ASSUME IInv, NEW b \in Blinks, send_blink(b)
  PROVE  IInv'
<1>1. PICK unexpired \in SUBSET {c \in Blinks : result[c] = "pending"} :
        LET kept == [c \in Blinks |-> IF c \in unexpired THEN "timeout" ELSE result[c]]
            busy == Cardinality({c \in Blinks : kept[c] = "pending"}) >= MAX_ACTIVE_PROMISES
        IN  /\ result' = [kept EXCEPT ![b] = IF busy THEN "rejected" ELSE "pending"]
            /\ msgs' = IF busy THEN msgs
                       ELSE msgs \cup {[b |-> b, from |-> Submitter, to |-> n] : n \in Remotes[b]}
  BY Zenon DEF send_blink
<1>2. UNCHANGED <<known, signatures, pending_sigs, reply, pool, m_blinks, threads,
                  sent, answers, nostart, failed, signed, dropped, faults>>
  BY DEF send_blink
<1>3. /\ result' \in [Blinks -> Results]
      /\ \A c \in Blinks : result'[c] = "accepted" => result[c] = "accepted"
  BY <1>1 DEF IInv, TypeOK, Results
<1>4. msgs' \subseteq BlinkMessage
  <2>1. Remotes[b] \subseteq Nodes
    BY BlinkAssumption
  <2>2. msgs \subseteq BlinkMessage
    BY DEF IInv, TypeOK
  <2> QED
    BY <1>1, <2>1, <2>2 DEF BlinkMessage
<1>5. TypeOK'
  BY <1>2, <1>3, <1>4 DEF IInv, TypeOK
<1>6. SignaturesMade' /\ PoolsHold'
  BY <1>2, Zenon DEF IInv, SignaturesMade, PoolsHold
<1>7. AnswersSigned'
  BY <1>2, <1>3 DEF IInv, AnswersSigned
<1> QED
  BY <1>5, <1>6, <1>7 DEF IInv

\* common_blink_response, called by the three handlers of the answers
LEMMA RespondStep ==
  ASSUME IInv, NEW a \in answers, Respond(a)
  PROVE  IInv'
<1>1. a \in AnswerMessage /\ a.from \in Nodes /\ a.b \in Blinks
  BY DEF IInv, TypeOK, AnswerMessage
<1>2. PICK counted : /\ counted = IF a.kind = "nostart" THEN nostart[a.b] \cup {a.from} ELSE nostart[a.b]
                     /\ nostart' = [nostart EXCEPT ![a.b] = counted]
                     /\ result' = [result EXCEPT ![a.b] = common_blink_response(@, a.b, a, counted)]
  BY Zenon DEF Respond
<1>3. /\ answers' = answers \ {a}
      /\ UNCHANGED <<known, signatures, pending_sigs, reply, pool, m_blinks, threads,
                     msgs, sent, failed, signed, dropped, faults>>
  BY DEF Respond
<1>4. nostart' \in [Blinks -> SUBSET Nodes]
  BY <1>1, <1>2 DEF IInv, TypeOK
<1>5. result' \in [Blinks -> Results]
  BY <1>1, <1>2 DEF IInv, TypeOK, Results, common_blink_response
<1>6. \A c \in Blinks : result'[c] = "accepted" =>
        result[c] = "accepted" \/ (c = a.b /\ a.kind = "good")
  BY <1>1, <1>2 DEF IInv, TypeOK, common_blink_response
<1>7. TypeOK'
  BY <1>3, <1>4, <1>5 DEF IInv, TypeOK
<1>8. SignaturesMade' /\ PoolsHold'
  BY <1>3, Zenon DEF IInv, SignaturesMade, PoolsHold
<1>9. AnswersSigned'
  BY <1>3, <1>6 DEF IInv, AnswersSigned
<1> QED
  BY <1>7, <1>8, <1>9 DEF IInv

\* handle_blink up to the unique lock
LEMMA HandleBlinkStep ==
  ASSUME IInv, NEW m \in msgs, handle_blink(m)
  PROVE  IInv'
<1> DEFINE n == m.to
           b == m.b
           tag == m.from = Submitter
           outcome == Outcome(n, b, m.from)
<1>1. n \in Nodes /\ b \in Blinks /\ m.from \in Nodes \cup {Submitter}
  BY DEF IInv, TypeOK, BlinkMessage
<1>2. /\ msgs' = Delivered(m)
      /\ answers' = IF tag /\ outcome \in {"nostart", "good", "bad"}
                      THEN answers \cup {Answer(n, b, outcome)} ELSE answers
      /\ reply' = IF outcome = "stash" THEN [reply EXCEPT ![n] = @ \cup {b}] ELSE reply
      /\ threads' = IF outcome = "store"
                      THEN threads \cup {Thread(n, b, m.from, "store", {}, tag)} ELSE threads
      /\ failed' = IF outcome = "fail" THEN failed \cup {n} ELSE failed
      /\ UNCHANGED <<known, signatures, pending_sigs, pool, m_blinks, sent, result, nostart,
                     signed, dropped, faults>>
  BY DEF handle_blink
<1>3. outcome = "good" => approved(signatures[n][b], b)
  BY Zenon DEF Outcome
<1> HIDE DEF outcome, tag
<1>4. TypeOK'
  <2>1. msgs' \subseteq msgs
    BY <1>2 DEF Delivered
  <2>2. answers' \subseteq AnswerMessage
    <3>1. \A k \in {"nostart", "good", "bad"} : Answer(n, b, k) \in AnswerMessage
      BY <1>1 DEF Answer, AnswerMessage
    <3>2. answers \subseteq AnswerMessage
      BY DEF IInv, TypeOK
    <3> QED
      BY <1>2, <3>1, <3>2
  <2>3. reply' \in [Nodes -> SUBSET Blinks]
    BY <1>1, <1>2 DEF IInv, TypeOK
  <2>4. threads' \subseteq ThreadRecord
    <3>1. tag \in BOOLEAN
      BY DEF tag
    <3>2. Thread(n, b, m.from, "store", {}, tag) \in ThreadRecord
      BY <1>1, <3>1 DEF Thread, ThreadRecord
    <3>3. threads \subseteq ThreadRecord
      BY DEF IInv, TypeOK
    <3> QED
      BY <1>2, <3>2, <3>3
  <2>5. failed' \subseteq Nodes
    BY <1>1, <1>2 DEF IInv, TypeOK
  <2> QED
    BY <1>2, <2>1, <2>2, <2>3, <2>4, <2>5 DEF IInv, TypeOK
<1>5. SignaturesMade'
  <2>1. \A t \in threads' : t \in threads \/ t.sigs = {}
    BY <1>2 DEF Thread
  <2> QED
    BY <1>2, <2>1 DEF IInv, SignaturesMade, Made
<1>6. PoolsHold'
  BY <1>2, Zenon DEF IInv, PoolsHold
<1>7. AnswersSigned'
  <2>1. \A a \in answers' : a.kind = "good" => a \in answers \/ (a.b = b /\ outcome = "good")
    BY <1>2 DEF Answer
  <2>2. outcome = "good" => EnoughSigned(signed, b)
    BY <1>1, <1>3, ApprovedIsSigned DEF IInv, SignaturesMade
  <2> QED
    BY <1>2, <2>1, <2>2 DEF IInv, AnswersSigned
<1> QED
  BY <1>4, <1>5, <1>6, <1>7 DEF IInv

\* handle_blink under the unique lock
LEMMA StoreStep ==
  ASSUME IInv, NEW t \in threads, Store(t)
  PROVE  IInv'
<1> DEFINE n == t.node
           b == t.b
<1>1. /\ n \in Nodes /\ b \in Blinks /\ t.from \in Nodes \cup {Submitter}
      /\ t \in ThreadRecord
  BY DEF IInv, TypeOK, ThreadRecord
<1>2. UNCHANGED <<pool, m_blinks, sent, answers, result, nostart, failed, signed, dropped, faults>>
  BY DEF Store
<1>3. PoolsHold' /\ AnswersSigned'
  BY <1>2, Zenon DEF IInv, PoolsHold, AnswersSigned
<1>4. CASE b \in known[n]
  <2>1. threads' = threads \ {t} /\ UNCHANGED <<known, signatures, pending_sigs, reply, msgs>>
    BY <1>4 DEF Store
  <2>2. TypeOK'
    BY <1>2, <2>1 DEF IInv, TypeOK
  <2>3. SignaturesMade'
    BY <1>2, <2>1, Zenon DEF IInv, SignaturesMade
  <2> QED
    BY <1>3, <2>2, <2>3 DEF IInv
<1>5. CASE b \notin known[n]
  <2> DEFINE new == [t EXCEPT !.pc = "verify", !.from = Submitter, !.sigs = pending_sigs[n][b]]
  <2>1. /\ known' = [known EXCEPT ![n] = @ \cup {b}]
        /\ signatures' = [signatures EXCEPT ![n][b] = [v \in Nodes |-> "none"]]
        /\ pending_sigs' = [pending_sigs EXCEPT ![n][b] = {}]
        /\ reply' = IF t.tag THEN [reply EXCEPT ![n] = @ \cup {b}] ELSE reply
        /\ threads' = (threads \ {t}) \cup {new}
        /\ \E connected \in SUBSET weak_peers(n, b, {t.from}) :
             msgs' = msgs \cup relay_to_peers(n, b, {t.from}, connected)
    BY <1>5, Zenon DEF Store
  <2>2. pending_sigs[n][b] \subseteq Signature
    BY <1>1 DEF IInv, TypeOK
  <2>3. /\ new \in ThreadRecord
        /\ new.b = b /\ new.sigs = pending_sigs[n][b]
    BY <1>1, <2>2, Zenon DEF ThreadRecord
  <2> HIDE DEF new
  <2>4. signatures' \in [Nodes -> [Blinks -> [Nodes -> Statuses]]]
    BY <1>1, <2>1 DEF IInv, TypeOK, Statuses
  <2>5. pending_sigs' \in [Nodes -> [Blinks -> SUBSET Signature]]
    BY <1>1, <2>1 DEF IInv, TypeOK
  <2>6. known' \in [Nodes -> SUBSET Blinks] /\ reply' \in [Nodes -> SUBSET Blinks]
    BY <1>1, <2>1 DEF IInv, TypeOK
  <2>7. msgs' \subseteq BlinkMessage
    <3>1. PICK connected \in SUBSET weak_peers(n, b, {t.from}) :
            msgs' = msgs \cup relay_to_peers(n, b, {t.from}, connected)
      BY <2>1, Zenon
    <3>2. strong_peers(n, b, {t.from}) \cup connected \subseteq Nodes
      BY <1>1, PeersFact
    <3>3. relay_to_peers(n, b, {t.from}, connected) \subseteq BlinkMessage
      <4>1. \A p \in Nodes : [b |-> b, from |-> n, to |-> p] \in BlinkMessage
        BY <1>1 DEF BlinkMessage
      <4> QED
        BY <3>2, <4>1 DEF relay_to_peers
    <3>4. msgs \subseteq BlinkMessage
      BY DEF IInv, TypeOK
    <3> QED
      BY <3>1, <3>3, <3>4
  <2>8. TypeOK'
    BY <1>2, <2>1, <2>3, <2>4, <2>5, <2>6, <2>7, Zenon DEF IInv, TypeOK
  <2>9. SignaturesMade'
    <3>1. \A u \in threads' : Made(signed, u.b, u.sigs)
      BY <1>1, <2>1, <2>3, Zenon DEF IInv, SignaturesMade
    <3>2. \A k \in Nodes, c \in Blinks : Made(signed, c, pending_sigs'[k][c])
      <4> SUFFICES ASSUME NEW k \in Nodes, NEW c \in Blinks
                   PROVE  Made(signed, c, pending_sigs'[k][c])
        OBVIOUS
      <4>1. pending_sigs'[k][c] = pending_sigs[k][c] \/ pending_sigs'[k][c] = {}
        BY <1>1, <2>1 DEF IInv, TypeOK
      <4> QED
        BY <4>1 DEF IInv, SignaturesMade, Made
    <3>3. \A k \in Nodes, c \in Blinks : Stored(signed, signatures'[k][c], c)
      <4> SUFFICES ASSUME NEW k \in Nodes, NEW c \in Blinks
                   PROVE  Stored(signed, signatures'[k][c], c)
        BY Zenon
      <4>1. signatures'[k][c] = signatures[k][c] \/ signatures'[k][c] = [v \in Nodes |-> "none"]
        BY <1>1, <2>1 DEF IInv, TypeOK
      <4> QED
        BY <4>1, Zenon DEF IInv, SignaturesMade, Stored
    <3> QED
      BY <1>2, <3>1, <3>2, <3>3, Zenon DEF IInv, SignaturesMade
  <2> QED
    BY <1>3, <2>8, <2>9 DEF IInv
<1> QED
  BY <1>4, <1>5

\* process_blink_signatures, after its member has added to the signatures made
LEMMA ProcessFact ==
  ASSUME IInv, NEW n \in Nodes, NEW b \in Blinks, NEW sigs \in SUBSET Signature, NEW tag \in BOOLEAN,
         process_blink_signatures(n, b, sigs, tag),
         signed \subseteq signed', Made(signed', b, sigs)
  PROVE  /\ signatures' \in [Nodes -> [Blinks -> [Nodes -> Statuses]]]
         /\ m_blinks' \in [Nodes -> SUBSET Blinks]
         /\ sent' \subseteq SignMessage
         /\ answers' \subseteq AnswerMessage
         /\ \A m \in sent' : Made(signed', m.b, {m.sig})
         /\ \A k \in Nodes, c \in Blinks : Stored(signed', signatures'[k][c], c)
         /\ \A a \in answers' : a.kind = "good" => EnoughSigned(signed', a.b)
<1> DEFINE s == signatures[n][b]
           after(f) == add_prechecked_signature(s, f)
           flips(f) == New(s, f) # {} /\ ~approved(s, b) /\ ~rejected(s, b)
<1>1. PICK first \in FirstOfEach(sigs) :
        /\ signatures' = [signatures EXCEPT ![n][b] = after(first)]
        /\ m_blinks' = IF flips(first) /\ approved(after(first), b)
                         THEN [m_blinks EXCEPT ![n] = @ \cup {b}] ELSE m_blinks
        /\ \E connected \in SUBSET weak_peers(n, b, {}) :
             sent' = sent \cup
                       {m \in [b : {b}, to : strong_peers(n, b, {}) \cup connected,
                               sig : New(s, first)] : ~Has(m.to, b, m.sig)}
        /\ \/ answers' = answers
           \/ answers' = answers \cup {Answer(n, b, "bad")}
           \/ approved(after(first), b) /\ answers' = answers \cup {Answer(n, b, "good")}
  BY Zenon DEF process_blink_signatures
<1>2. first \subseteq sigs
  BY DEF FirstOfEach
<1>3. s \in [Nodes -> Statuses]
  BY DEF IInv, TypeOK
<1>4. Stored(signed', s, b)
  BY ZenonT(30) DEF IInv, SignaturesMade, Stored
<1>5. after(first) \in [Nodes -> Statuses]
  BY <1>3, ZenonT(30) DEF add_prechecked_signature, Statuses
<1>6. Stored(signed', after(first), b)
  <2> SUFFICES ASSUME NEW v \in Nodes
               PROVE  /\ after(first)[v] = "approved" => <<v, b, TRUE>> \in signed'
                      /\ after(first)[v] = "rejected" => <<v, b, FALSE>> \in signed'
    BY Zenon DEF Stored
  <2>1. CASE s[v] # "none"
    BY <1>4, <2>1, Zenon DEF add_prechecked_signature, Stored
  <2>2. CASE s[v] = "none"
    <3>1. /\ after(first)[v] = "approved" => [node |-> v, approval |-> TRUE] \in sigs
          /\ after(first)[v] = "rejected" => [node |-> v, approval |-> FALSE] \in sigs
      BY <1>2, <2>2, Zenon DEF add_prechecked_signature
    <3> QED
      BY <3>1, ZenonT(30) DEF Made
  <2> QED
    BY <2>1, <2>2, Zenon
<1> HIDE DEF after, s
<1>7. signatures' \in [Nodes -> [Blinks -> [Nodes -> Statuses]]]
  BY <1>1, <1>5, Zenon DEF IInv, TypeOK
<1>8. m_blinks' \in [Nodes -> SUBSET Blinks]
  BY <1>1 DEF IInv, TypeOK
<1>9. PICK connected \in SUBSET weak_peers(n, b, {}) :
        sent' = sent \cup {m \in [b : {b}, to : strong_peers(n, b, {}) \cup connected,
                                  sig : New(s, first)] : ~Has(m.to, b, m.sig)}
  BY <1>1
<1>10. strong_peers(n, b, {}) \cup connected \subseteq Nodes
  BY PeersFact
<1>11. New(s, first) \subseteq sigs /\ New(s, first) \subseteq Signature
  BY <1>2, Zenon DEF New
<1>12. sent' \subseteq SignMessage
  <2>1. sent \subseteq SignMessage
    BY DEF IInv, TypeOK
  <2> QED
    BY <1>9, <1>10, <1>11, <2>1 DEF SignMessage
<1>13. \A m \in sent' : Made(signed', m.b, {m.sig})
  <2> SUFFICES ASSUME NEW m \in sent' PROVE Made(signed', m.b, {m.sig})
    BY Zenon
  <2>1. CASE m \in sent
    BY <2>1 DEF IInv, SignaturesMade, Made
  <2>2. CASE m \notin sent
    <3>1. m.b = b /\ m.sig \in sigs
      BY <1>9, <1>11, <2>2
    <3> QED
      BY <3>1 DEF Made
  <2> QED
    BY <2>1, <2>2
<1>14. \A k \in Nodes, c \in Blinks : Stored(signed', signatures'[k][c], c)
  <2> SUFFICES ASSUME NEW k \in Nodes, NEW c \in Blinks
               PROVE  Stored(signed', signatures'[k][c], c)
    OBVIOUS
  <2>1. CASE k = n /\ c = b
    <3>1. signatures'[k][c] = after(first)
      BY <1>1, <2>1 DEF IInv, TypeOK
    <3> QED
      BY <1>6, <2>1, <3>1, Zenon
  <2>2. CASE ~(k = n /\ c = b)
    <3>1. signatures'[k][c] = signatures[k][c]
      BY <1>1, <2>2 DEF IInv, TypeOK
    <3> QED
      BY <3>1, Zenon DEF IInv, SignaturesMade, Stored
  <2> QED
    BY <2>1, <2>2
<1>15. answers' \subseteq AnswerMessage
  <2>1. Answer(n, b, "bad") \in AnswerMessage /\ Answer(n, b, "good") \in AnswerMessage
    BY DEF Answer, AnswerMessage
  <2>2. answers \subseteq AnswerMessage
    BY DEF IInv, TypeOK
  <2> QED
    BY <1>1, <2>1, <2>2
<1>16. \A a \in answers' : a.kind = "good" => EnoughSigned(signed', a.b)
  <2> SUFFICES ASSUME NEW a \in answers', a.kind = "good" PROVE EnoughSigned(signed', a.b)
    OBVIOUS
  <2>1. CASE a \in answers
    <3>1. a.b \in Blinks /\ EnoughSigned(signed, a.b)
      BY <2>1 DEF IInv, TypeOK, AnswersSigned, AnswerMessage
    <3> QED
      BY <3>1, EnoughGrows
  <2>2. CASE a \notin answers
    <3>1. a.b = b /\ approved(after(first), b)
      BY <1>1, <2>2 DEF Answer
    <3> QED
      BY <1>6, <3>1, ApprovedIsSigned
  <2> QED
    BY <2>1, <2>2
<1> QED
  BY <1>7, <1>8, <1>12, <1>13, <1>14, <1>15, <1>16, Zenon

\* handle_blink's verification and its signature
LEMMA VerifyStep ==
  ASSUME IInv, NEW t \in threads, Verify(t)
  PROVE  IInv'
<1> DEFINE n == t.node
           b == t.b
<1>1. n \in Nodes /\ b \in Blinks /\ t.sigs \subseteq Signature /\ t.tag \in BOOLEAN
  BY DEF IInv, TypeOK, ThreadRecord
<1>2. /\ threads' = threads \ {t}
      /\ UNCHANGED <<known, pending_sigs, reply, msgs, result, nostart, failed, dropped, faults>>
  BY DEF Verify
<1>3. PICK ok \in BOOLEAN :
        /\ ok => add_new_blink(n, b)
        /\ pool' = IF ok THEN [pool EXCEPT ![n] = @ \cup {b}] ELSE pool
        /\ signed' = signed \cup {<<n, b, ok>>}
        /\ process_blink_signatures(n, b, t.sigs \cup {[node |-> n, approval |-> ok]}, t.tag)
  <2>1. PICK good \in BOOLEAN :
          LET ok == good /\ add_new_blink(n, b) IN
          /\ pool' = IF ok THEN [pool EXCEPT ![n] = @ \cup {b}] ELSE pool
          /\ signed' = signed \cup {<<n, b, ok>>}
          /\ process_blink_signatures(n, b, t.sigs \cup {[node |-> n, approval |-> ok]}, t.tag)
    <3>1. PICK good \in IF b \in Doubts[n] THEN BOOLEAN ELSE {TRUE} :
            LET ok == good /\ add_new_blink(n, b) IN
            /\ pool' = IF ok THEN [pool EXCEPT ![n] = @ \cup {b}] ELSE pool
            /\ signed' = signed \cup {<<n, b, ok>>}
            /\ process_blink_signatures(n, b, t.sigs \cup {[node |-> n, approval |-> ok]}, t.tag)
      BY Zenon DEF Verify
    <3>2. good \in BOOLEAN
      BY <3>1, Zenon
    <3> QED
      BY <3>1, <3>2, Zenon
  <2> DEFINE k == good /\ add_new_blink(n, b)
  <2>2. k \in BOOLEAN /\ (k => add_new_blink(n, b))
    OBVIOUS
  <2> HIDE DEF k
  <2>3. /\ pool' = IF k THEN [pool EXCEPT ![n] = @ \cup {b}] ELSE pool
        /\ signed' = signed \cup {<<n, b, k>>}
        /\ process_blink_signatures(n, b, t.sigs \cup {[node |-> n, approval |-> k]}, t.tag)
    BY <2>1 DEF k
  <2> QED
    BY <2>2, <2>3, Zenon
<1> DEFINE sigs == t.sigs \cup {[node |-> n, approval |-> ok]}
<1>4. sigs \in SUBSET Signature
  BY <1>1 DEF Signature
<1>5. signed \subseteq signed' /\ Made(signed', b, sigs)
  <2>1. Made(signed, b, t.sigs)
    BY DEF IInv, SignaturesMade
  <2>2. signed' = signed \cup {<<n, b, ok>>}
    BY <1>3
  <2>3. <<n, b, ok>> \in signed' /\ signed \subseteq signed'
    BY <2>2
  <2>4. \A g \in sigs : g \in t.sigs \/ (g.node = n /\ g.approval = ok)
    OBVIOUS
  <2> QED
    BY <2>1, <2>3, <2>4, Zenon DEF Made
<1>6. process_blink_signatures(n, b, sigs, t.tag)
  BY <1>3
<1> HIDE DEF sigs
<1>7. /\ signatures' \in [Nodes -> [Blinks -> [Nodes -> Statuses]]]
      /\ m_blinks' \in [Nodes -> SUBSET Blinks]
      /\ sent' \subseteq SignMessage
      /\ answers' \subseteq AnswerMessage
      /\ \A m \in sent' : Made(signed', m.b, {m.sig})
      /\ \A k \in Nodes, c \in Blinks : Stored(signed', signatures'[k][c], c)
      /\ \A a \in answers' : a.kind = "good" => EnoughSigned(signed', a.b)
  BY <1>1, <1>4, <1>5, <1>6, ProcessFact, Zenon
<1>8. TypeOK'
  <2>1. pool' \in [Nodes -> SUBSET Blinks]
    BY <1>1, <1>3, Zenon DEF IInv, TypeOK
  <2>2. signed' \subseteq Nodes \X Blinks \X BOOLEAN
    <3>1. signed \subseteq Nodes \X Blinks \X BOOLEAN
      BY Zenon DEF IInv, TypeOK
    <3>2. <<n, b, ok>> \in Nodes \X Blinks \X BOOLEAN
      BY <1>1, <1>3, Zenon
    <3>3. signed' = signed \cup {<<n, b, ok>>}
      BY <1>3
    <3> QED
      BY <3>1, <3>2, <3>3
  <2> QED
    BY <1>2, <1>7, <2>1, <2>2 DEF IInv, TypeOK
<1>9. SignaturesMade'
  <2>1. \A u \in threads' : Made(signed', u.b, u.sigs)
    BY <1>2, <1>5, Zenon DEF IInv, SignaturesMade, Made
  <2>2. \A k \in Nodes, c \in Blinks : Made(signed', c, pending_sigs'[k][c])
    BY <1>2, <1>5, Zenon DEF IInv, SignaturesMade, Made
  <2> QED
    BY <1>7, <2>1, <2>2, Zenon DEF SignaturesMade
<1>10. PoolsHold'
  <2>1. \A k \in Nodes : pool[k] \subseteq pool'[k]
    BY <1>1, <1>3, Zenon DEF IInv, TypeOK
  <2>2. \A k \in Nodes, c \in Blinks :
          <<k, c, TRUE>> \in signed' => c \in pool'[k] \/ <<k, c>> \in dropped'
    <3> SUFFICES ASSUME NEW k \in Nodes, NEW c \in Blinks, <<k, c, TRUE>> \in signed'
                 PROVE  c \in pool'[k] \/ <<k, c>> \in dropped'
      BY Zenon
    <3>1. CASE <<k, c, TRUE>> \in signed
      BY <1>2, <2>1, <3>1, Zenon DEF IInv, PoolsHold
    <3>2. CASE <<k, c, TRUE>> \notin signed
      <4>1. k = n /\ c = b /\ ok
        BY <1>3, <3>2, Zenon
      <4> QED
        BY <1>1, <1>3, <4>1, Zenon DEF IInv, TypeOK
    <3> QED
      BY <3>1, <3>2
  <2>3. \A k \in Nodes : \A c, d \in pool'[k] : <<c, d>> \notin Conflicts
    <3> SUFFICES ASSUME NEW k \in Nodes, NEW c \in pool'[k], NEW d \in pool'[k]
                 PROVE  <<c, d>> \notin Conflicts
      BY Zenon
    <3>1. CASE c \in pool[k] /\ d \in pool[k]
      BY <3>1 DEF IInv, PoolsHold
    <3>2. CASE ~(c \in pool[k] /\ d \in pool[k])
      <4>1. k = n /\ ok /\ pool'[k] = pool[k] \cup {b}
        BY <1>1, <1>3, <3>2, ZenonT(30) DEF IInv, TypeOK
      <4>2. \A e \in pool[n] : e # b /\ <<b, e>> \notin Conflicts
        BY <1>3, <4>1 DEF add_new_blink
      <4>3. c \in Blinks /\ d \in Blinks
        BY <1>8, Zenon DEF TypeOK
      <4>4. (c = b /\ d = b) \/ (c = b /\ d \in pool[n]) \/ (d = b /\ c \in pool[n])
        BY <3>2, <4>1
      <4> QED
        BY <4>2, <4>3, <4>4, BlinkAssumption, ZenonT(30)
    <3> QED
      BY <3>1, <3>2
  <2> QED
    BY <2>2, <2>3, Zenon DEF PoolsHold
<1>11. AnswersSigned'
  BY <1>2, <1>5, <1>7, EnoughGrows, ZenonT(30) DEF IInv, AnswersSigned
<1> QED
  BY <1>8, <1>9, <1>10, <1>11 DEF IInv

\* handle_blink_signature
LEMMA HandleSignatureStep ==
  ASSUME IInv, NEW m \in sent, handle_blink_signature(m)
  PROVE  IInv'
<1> DEFINE n == m.to
           b == m.b
<1>1. n \in Nodes /\ b \in Blinks /\ m.sig \in Signature
  BY DEF IInv, TypeOK, SignMessage
<1>2. /\ sent' = sent \ {m}
      /\ UNCHANGED <<known, signatures, reply, pool, m_blinks, msgs, answers, result, nostart,
                     failed, signed, dropped, faults>>
  BY DEF handle_blink_signature
<1>3. Made(signed, b, {m.sig})
  BY Zenon DEF IInv, SignaturesMade
<1>4. PoolsHold' /\ AnswersSigned'
  BY <1>2, Zenon DEF IInv, PoolsHold, AnswersSigned
<1>5. CASE b \in known[n]
  <2> DEFINE new == Thread(n, b, Submitter, "process", {m.sig}, b \in reply[n])
  <2>1. threads' = threads \cup {new} /\ UNCHANGED pending_sigs
    BY <1>5, Zenon DEF handle_blink_signature
  <2>2. (b \in reply[n]) \in BOOLEAN
    OBVIOUS
  <2>3. /\ new \in ThreadRecord
        /\ new.b = b /\ new.sigs = {m.sig}
    BY <1>1, <2>2, ZenonT(30) DEF Thread, ThreadRecord
  <2> HIDE DEF new
  <2>4. TypeOK'
    BY <1>2, <2>1, <2>3, ZenonT(30) DEF IInv, TypeOK
  <2>5. SignaturesMade'
    BY <1>2, <1>3, <2>1, <2>3, Zenon DEF IInv, SignaturesMade
  <2> QED
    BY <1>4, <2>4, <2>5 DEF IInv
<1>6. CASE b \notin known[n]
  <2>1. /\ pending_sigs' = [pending_sigs EXCEPT ![n][b] = @ \cup {m.sig}]
        /\ UNCHANGED threads
    BY <1>6, Zenon DEF handle_blink_signature, Stash
  <2>2. TypeOK'
    <3>1. pending_sigs' \in [Nodes -> [Blinks -> SUBSET Signature]]
      <4>1. pending_sigs \in [Nodes -> [Blinks -> SUBSET Signature]]
        BY Zenon DEF IInv, TypeOK
      <4> QED
        BY <1>1, <2>1, <4>1
    <3> QED
      BY <1>2, <2>1, <3>1 DEF IInv, TypeOK
  <2>3. \A k \in Nodes, c \in Blinks : Made(signed, c, pending_sigs'[k][c])
    <3> SUFFICES ASSUME NEW k \in Nodes, NEW c \in Blinks
                 PROVE  Made(signed, c, pending_sigs'[k][c])
      OBVIOUS
    <3>1. \/ pending_sigs'[k][c] = pending_sigs[k][c]
          \/ c = b /\ pending_sigs'[k][c] = pending_sigs[k][c] \cup {m.sig}
      BY <1>1, <2>1 DEF IInv, TypeOK
    <3> QED
      BY <1>3, <3>1, Zenon DEF IInv, SignaturesMade, Made
  <2>4. SignaturesMade'
    BY <1>2, <2>1, <2>3, Zenon DEF IInv, SignaturesMade
  <2> QED
    BY <1>4, <2>2, <2>4 DEF IInv
<1> QED
  BY <1>5, <1>6

\* The end of handle_blink_signature
LEMMA ProcessStep ==
  ASSUME IInv, NEW t \in threads, Process(t)
  PROVE  IInv'
<1>1. t.node \in Nodes /\ t.b \in Blinks /\ t.sigs \in SUBSET Signature /\ t.tag \in BOOLEAN
  BY DEF IInv, TypeOK, ThreadRecord
<1>2. /\ threads' = threads \ {t}
      /\ UNCHANGED <<known, pending_sigs, reply, pool, msgs, result, nostart, failed, signed,
                     dropped, faults>>
      /\ process_blink_signatures(t.node, t.b, t.sigs, t.tag)
  BY Zenon DEF Process
<1>3. signed \subseteq signed' /\ Made(signed', t.b, t.sigs)
  BY <1>2 DEF IInv, SignaturesMade
<1>4. /\ signatures' \in [Nodes -> [Blinks -> [Nodes -> Statuses]]]
      /\ m_blinks' \in [Nodes -> SUBSET Blinks]
      /\ sent' \subseteq SignMessage
      /\ answers' \subseteq AnswerMessage
      /\ \A m \in sent' : Made(signed', m.b, {m.sig})
      /\ \A k \in Nodes, c \in Blinks : Stored(signed', signatures'[k][c], c)
      /\ \A a \in answers' : a.kind = "good" => EnoughSigned(signed', a.b)
  BY <1>1, <1>2, <1>3, ProcessFact, ZenonT(30)
<1>5. TypeOK'
  BY <1>2, <1>4 DEF IInv, TypeOK
<1>6. SignaturesMade'
  BY <1>2, <1>4, Zenon DEF IInv, SignaturesMade
<1>7. PoolsHold'
  BY <1>2, Zenon DEF IInv, PoolsHold
<1>8. AnswersSigned'
  BY <1>2, <1>4, Zenon DEF IInv, AnswersSigned
<1> QED
  BY <1>5, <1>6, <1>7, <1>8 DEF IInv

\* The pool drops a blink
LEMMA DropStep ==
  ASSUME IInv, NEW n \in Nodes, NEW b \in Blinks, PoolDrops(n, b)
  PROVE  IInv'
<1>1. /\ pool' = [pool EXCEPT ![n] = @ \ {b}]
      /\ dropped' = dropped \cup {<<n, b>>}
      /\ faults' = faults + 1
      /\ UNCHANGED <<known, signatures, pending_sigs, reply, m_blinks, threads, msgs, sent, answers,
                     result, nostart, failed, signed>>
  BY Zenon DEF PoolDrops
<1>2. TypeOK'
  <2>1. pool \in [Nodes -> SUBSET Blinks] /\ dropped \subseteq Nodes \X Blinks /\ faults \in Nat
    BY DEF IInv, TypeOK
  <2>2. /\ pool' \in [Nodes -> SUBSET Blinks]
        /\ dropped' \subseteq Nodes \X Blinks
        /\ faults' \in Nat
    BY <1>1, <2>1
  <2> QED
    BY <1>1, <2>2 DEF IInv, TypeOK
<1>3. SignaturesMade' /\ AnswersSigned'
  BY <1>1, Zenon DEF IInv, SignaturesMade, AnswersSigned
<1>4. PoolsHold'
  <2>1. \A k \in Nodes : pool'[k] \subseteq pool[k]
    BY <1>1, Zenon DEF IInv, TypeOK
  <2>2. \A k \in Nodes, c \in Blinks : c \in pool[k] => c \in pool'[k] \/ <<k, c>> \in dropped'
    BY <1>1 DEF IInv, TypeOK
  <2> QED
    BY <1>1, <2>1, <2>2, Zenon DEF IInv, PoolsHold
<1> QED
  BY <1>2, <1>3, <1>4, Zenon DEF IInv

\* A node restarts
LEMMA RestartStep ==
  ASSUME IInv, NEW n \in Nodes, Restart(n)
  PROVE  IInv'
<1>1. /\ known' = [known EXCEPT ![n] = {}]
      /\ signatures' = [signatures EXCEPT ![n] = NoSignatures]
      /\ pending_sigs' = [pending_sigs EXCEPT ![n] = NoBlinks]
      /\ reply' = [reply EXCEPT ![n] = {}]
      /\ m_blinks' = [m_blinks EXCEPT ![n] = {}]
      /\ threads' \subseteq threads /\ msgs' \subseteq msgs /\ sent' \subseteq sent
      /\ faults' = faults + 1
      /\ UNCHANGED <<pool, answers, result, nostart, failed, signed, dropped>>
  BY Zenon DEF Restart
<1>2. /\ NoSignatures \in [Blinks -> [Nodes -> Statuses]]
      /\ NoBlinks \in [Blinks -> SUBSET Signature]
  BY DEF NoSignatures, NoBlinks, Statuses
<1>3. TypeOK'
  <2>1. /\ known \in [Nodes -> SUBSET Blinks] /\ reply \in [Nodes -> SUBSET Blinks]
        /\ m_blinks \in [Nodes -> SUBSET Blinks]
        /\ signatures \in [Nodes -> [Blinks -> [Nodes -> Statuses]]]
        /\ pending_sigs \in [Nodes -> [Blinks -> SUBSET Signature]]
        /\ faults \in Nat
    BY DEF IInv, TypeOK
  <2>2. /\ known' \in [Nodes -> SUBSET Blinks] /\ reply' \in [Nodes -> SUBSET Blinks]
        /\ m_blinks' \in [Nodes -> SUBSET Blinks]
        /\ faults' \in Nat
    BY <1>1, <2>1
  <2>3. /\ signatures' \in [Nodes -> [Blinks -> [Nodes -> Statuses]]]
        /\ pending_sigs' \in [Nodes -> [Blinks -> SUBSET Signature]]
    BY <1>1, <1>2, <2>1, ZenonT(30)
  <2> QED
    BY <1>1, <2>2, <2>3, Zenon DEF IInv, TypeOK
<1>4. \A k \in Nodes, c \in Blinks : Made(signed, c, pending_sigs'[k][c])
  <2> SUFFICES ASSUME NEW k \in Nodes, NEW c \in Blinks
               PROVE  Made(signed, c, pending_sigs'[k][c])
    BY Zenon
  <2>1. pending_sigs'[k][c] = pending_sigs[k][c] \/ pending_sigs'[k][c] = {}
    BY <1>1 DEF IInv, TypeOK, NoBlinks
  <2> QED
    BY <2>1, ZenonT(30) DEF IInv, SignaturesMade, Made
<1>5. \A k \in Nodes, c \in Blinks : Stored(signed, signatures'[k][c], c)
  <2> SUFFICES ASSUME NEW k \in Nodes, NEW c \in Blinks
               PROVE  Stored(signed, signatures'[k][c], c)
    BY Zenon
  <2>1. signatures'[k][c] = signatures[k][c] \/ signatures'[k][c] = [v \in Nodes |-> "none"]
    BY <1>1 DEF IInv, TypeOK, NoSignatures
  <2> QED
    BY <2>1, Zenon DEF IInv, SignaturesMade, Stored
<1>6. SignaturesMade'
  BY <1>1, <1>4, <1>5, Zenon DEF IInv, SignaturesMade
<1>7. PoolsHold' /\ AnswersSigned'
  BY <1>1, Zenon DEF IInv, PoolsHold, AnswersSigned
<1> QED
  BY <1>3, <1>6, <1>7 DEF IInv

\* Every step keeps the invariant.
LEMMA NextFact ==
  IInv /\ [Next]_vars => IInv'
<1> SUFFICES ASSUME IInv, [Next]_vars PROVE IInv'
  OBVIOUS
<1>1. CASE \E b \in Blinks : send_blink(b)
  BY <1>1, SendStep
<1>2. CASE \E m \in msgs : handle_blink(m)
  BY <1>2, HandleBlinkStep
<1>3. CASE \E m \in sent : handle_blink_signature(m)
  BY <1>3, HandleSignatureStep
<1>4. CASE \E t \in threads : Store(t) \/ Verify(t) \/ Process(t)
  BY <1>4, StoreStep, VerifyStep, ProcessStep
<1>5. CASE \E a \in answers : Respond(a)
  BY <1>5, RespondStep
<1>6. CASE \E n \in Nodes, b \in Blinks : PoolDrops(n, b)
  BY <1>6, DropStep
<1>7. CASE \E n \in Nodes : Restart(n)
  BY <1>7, RestartStep
<1>8. CASE UNCHANGED vars
  BY <1>8, Zenon DEF vars, IInv, TypeOK, SignaturesMade, PoolsHold, AnswersSigned
<1> QED
  BY <1>1, <1>2, <1>3, <1>4, <1>5, <1>6, <1>7, <1>8 DEF Next, Step

\* The invariant holds throughout.
LEMMA IInvHolds ==
  Spec => []IInv
  BY InitFact, NextFact, PTL DEF Spec

-----------------------------------------------------------------------------
(* The theorems. *)

\* The handlers of blink messages, signatures and answers keep their state well
\* formed, for any quorums, connection matrices, threads and restarts.
THEOREM BlinkTypeCorrect ==
  Spec => []TypeOK
<1>1. IInv => TypeOK
  BY DEF IInv
<1> QED
  BY <1>1, IInvHolds, PTL

\* frame_pix_rules.h's static_assert does what it says: because a blink needs a
\* majority of a subquorum, blinks that spend the same key image and share a
\* subquorum are never both approved, unless a pool dropped one of them.
THEOREM ConflictsExcluded ==
  Spec => []NoConflictingBlinks
  BY ConflictFact, IInvHolds, PTL

\* blink_tx::approved and blink_tx::rejected never disagree, at one node or at
\* two, unless a member signed both ways.
THEOREM VerdictsAgree ==
  Spec => []OneVerdict
  BY VerdictFact, IInvHolds, PTL

\* A submitter whose promise is set to accepted has a blink that enough members
\* of both subquorums signed.
THEOREM AcceptanceIsSigned ==
  Spec => []AcceptedIsSigned
<1>1. IInv => AcceptedIsSigned
  BY DEF IInv, AnswersSigned, AcceptedIsSigned
<1> QED
  BY <1>1, IInvHolds, PTL
=============================================================================
