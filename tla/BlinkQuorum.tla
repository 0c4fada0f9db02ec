---------------------------- MODULE BlinkQuorum ----------------------------
(***************************************************************************)
(* Blink: how the members of a blink quorum sign a transaction, exchange   *)
(* their signatures over quorumnet and answer the node that submitted it.  *)
(* Source: cryptonote_protocol/quorumnet.cpp (handle_blink,                *)
(* handle_blink_signature, process_blink_signatures, peer_info, send_blink *)
(* and common_blink_response) and cryptonote_core/tx_blink.{h,cpp}.        *)
(*                                                                         *)
(* A blink is a transaction at an authorisation height; it has two         *)
(* subquorums, 0 (base) and 1 (future).  Positions count from 1.  The      *)
(* handlers run on several threads of a member: a record of `threads' is   *)
(* one of them between two of the locks it takes.  Every member signs      *)
(* honestly, so a signature that does not verify is never sent.            *)
(***************************************************************************)
EXTENDS Integers, Sequences, FiniteSets

CONSTANTS
  Nodes,                  \* the frame_pixs
  Blinks,                 \* the blink transactions
  Validators,             \* blink -> subquorum -> the sequence of its validators
  Conflicts,              \* the pairs of blinks that spend the same key image
  Starts,                 \* node -> blinks whose height is within 2 of its own
  Agrees,                 \* node -> blinks whose quorums have the same checksum there
  Doubts,                 \* node -> blinks whose other checks may fail there
  Remotes,                \* blink -> the members send_blink picks
  Submitter,              \* the node that submits them
  Matrix,                 \* quorum size -> position -> its outgoing positions
  BLINK_SUBQUORUM_SIZE, BLINK_MIN_VOTES, MAX_ACTIVE_PROMISES,
  MaxThreads,             \* node -> bound on the handlers at work in it
  Faulty,                 \* the nodes that may restart or lose a transaction
  MaxFaults               \* bound on how often they do

\* frame_pix_rules.h's static_asserts, and what get_blink_quorums verifies
ASSUME QuorumAssumption ==
  /\ BLINK_SUBQUORUM_SIZE \in Nat
  /\ BLINK_MIN_VOTES \in Nat
  /\ BLINK_MIN_VOTES <= BLINK_SUBQUORUM_SIZE
  /\ 2 * BLINK_MIN_VOTES > BLINK_SUBQUORUM_SIZE
  /\ Validators \in [Blinks -> [0 .. 1 -> Seq(Nodes)]]
  /\ \A b \in Blinks, q \in 0 .. 1 :
       Len(Validators[b][q]) \in BLINK_MIN_VOTES .. BLINK_SUBQUORUM_SIZE

ASSUME BlinkAssumption ==
  /\ Conflicts \subseteq Blinks \X Blinks
  /\ \A b, c \in Blinks : <<b, c>> \in Conflicts => b # c /\ <<c, b>> \in Conflicts
  /\ Starts \in [Nodes -> SUBSET Blinks]
  /\ Agrees \in [Nodes -> SUBSET Blinks]
  /\ Doubts \in [Nodes -> SUBSET Blinks]
  /\ Remotes \in [Blinks -> SUBSET Nodes]
  /\ IsFiniteSet(Nodes)
  /\ Submitter \notin Nodes

\* quorumnet_conn_matrix.h: a matrix of N rows and N columns
ASSUME MatrixAssumption ==
  \A N \in DOMAIN Matrix : Matrix[N] \in [1 .. N -> SUBSET (1 .. N)]

VARIABLES
  known,        \* node -> the blinks of SNNWrapper::blinks with a btxptr
  signatures,   \* node -> blink -> slot -> the status of the slot (blink_tx)
  pending_sigs, \* node -> blink -> signatures that came before the transaction
  reply,        \* node -> blinks with a reply_tag and reply_conn
  pool,         \* node -> blinks that are in its transaction pool (kept on disk)
  m_blinks,     \* node -> blinks its pool knows as approved
  threads,      \* the handlers at work
  msgs,         \* the blink messages on their way
  sent,         \* the blink_sign messages
  answers,      \* the bl_good, bl_bad and bl_nostart on their way to a submitter
  result,       \* blink -> what the promise of the submitter holds
  nostart,      \* blink -> the members whose bl_nostart was counted
  failed,       \* nodes whose handler threw or read outside the matrix
  signed,       \* history: <<node, blink, approval>> for every signature made
  dropped,      \* history: <<node, blink>> its pool had and dropped again
  faults

vars == <<known, signatures, pending_sigs, reply, pool, m_blinks, threads, msgs,
          sent, answers, result, nostart, failed, signed, dropped, faults>>

----------------------------------------------------------------------------
(* blink_tx *)

Subquorums == 0 .. 1
Statuses == {"none", "approved", "rejected"}

\* pending_signature: a member signs once, and its signature stands at its
\* position in each subquorum it is in
Signature == [node : Nodes, approval : BOOLEAN]

validators(b, q) == {Validators[b][q][i] : i \in DOMAIN Validators[b][q]}

Marked(s, b, q, status) == {v \in validators(b, q) : s[v] = status}

\* blink_tx::approved
approved(s, b) ==
  \A q \in Subquorums : Cardinality(Marked(s, b, q, "approved")) >= BLINK_MIN_VOTES

\* Mutant: a position without a signature counts as rejected.
RejectedUnlessApproved(s, b) ==
  \E q \in Subquorums :
    BLINK_SUBQUORUM_SIZE - Cardinality(Marked(s, b, q, "approved"))
      > BLINK_SUBQUORUM_SIZE - BLINK_MIN_VOTES

\* blink_tx::rejected, with the positions that limit_signatures has marked as
\* rejected because the subquorum is smaller than BLINK_SUBQUORUM_SIZE
rejected(s, b) ==
  \E q \in Subquorums :
    Cardinality(Marked(s, b, q, "rejected")) + (BLINK_SUBQUORUM_SIZE - Cardinality(validators(b, q)))
      > BLINK_SUBQUORUM_SIZE - BLINK_MIN_VOTES

\* Signatures in one list that are of the same member: the first one is stored.
FirstOfEach(sigs) ==
  {f \in SUBSET sigs : /\ \A g \in sigs : \E h \in f : h.node = g.node
                       /\ \A g, h \in f : h.node = g.node => g = h}

New(s, sigs) == {g \in sigs : s[g.node] = "none"}

\* blink_tx::add_prechecked_signature, for each of the signatures
add_prechecked_signature(s, sigs) ==
  [v \in Nodes |-> IF s[v] # "none" THEN s[v]
                   ELSE IF [node |-> v, approval |-> TRUE] \in sigs THEN "approved"
                   ELSE IF [node |-> v, approval |-> FALSE] \in sigs THEN "rejected"
                   ELSE "none"]

----------------------------------------------------------------------------
(* peer_info: whom a member relays to *)

my_position(n, b, q) == {i \in DOMAIN Validators[b][q] : Validators[b][q][i] = n}

Member(n, b) == \E q \in Subquorums : my_position(n, b, q) # {}

\* get_matrix has a matrix for each subquorum this node is in
Supported(n, b) ==
  \A q \in Subquorums :
    my_position(n, b, q) # {} => Len(Validators[b][q]) \in DOMAIN Matrix

\* The matrix of a subquorum, none for a size get_matrix does not have
get_matrix(b, q) ==
  IF Len(Validators[b][q]) \in DOMAIN Matrix THEN Matrix[Len(Validators[b][q])]
  ELSE [i \in DOMAIN Validators[b][q] |-> {}]

quorum_outgoing_conns(n, b) ==
  UNION {{Validators[b][q][j] : j \in UNION {get_matrix(b, q)[i] : i \in my_position(n, b, q)}} :
           q \in Subquorums}

quorum_incoming_conns(n, b) ==
  {m \in Nodes : \E q \in Subquorums : \E i \in my_position(n, b, q), j \in my_position(m, b, q) :
                   i \in get_matrix(b, q)[j]}

\* The connections between the second half of the base subquorum and the first
\* half of the future one, for a node that is in one of them only.
Across(n, b) ==
  LET V == Validators[b]
      half == (IF Len(V[0]) < Len(V[1]) THEN Len(V[0]) ELSE Len(V[1])) \div 2
  IN  IF my_position(n, b, 1) = {}
        THEN {V[1][i - half] : i \in my_position(n, b, 0) \cap (half + 1 .. 2 * half)}
        ELSE IF my_position(n, b, 0) = {}
          THEN {V[0][half + i] : i \in my_position(n, b, 1) \cap (1 .. half)}
          ELSE {}

\* compute_peers: the strong peers, and all of them.  A weak peer, one of the
\* incoming connections, gets the message only while it is connected.
strong_peers(n, b, exclude) ==
  (quorum_outgoing_conns(n, b) \cup Across(n, b)) \ ({n} \cup exclude)

weak_peers(n, b, exclude) ==
  quorum_incoming_conns(n, b) \ ({n} \cup exclude \cup strong_peers(n, b, exclude))

\* Mutant: the node it came from gets it back.
RelayToAll(n, b, exclude, connected) ==
  {[b |-> b, from |-> n, to |-> p] : p \in strong_peers(n, b, exclude) \cup connected \cup exclude}

\* relay_to_peers for the transaction, with the weak peers that are connected
relay_to_peers(n, b, exclude, connected) ==
  {[b |-> b, from |-> n, to |-> p] : p \in strong_peers(n, b, exclude) \cup connected}

----------------------------------------------------------------------------
(* The submitter *)

Results == {"none", "pending", "accepted", "rejected", "timeout"}

\* send_blink.  The loop over the pending results ends those that have not
\* expired yet (`expiry >= now') and keeps the others; which have expired is up
\* to the clock.
send_blink(b) ==
  /\ result[b] = "none"
  /\ \E unexpired \in SUBSET {c \in Blinks : result[c] = "pending"} :
       LET kept == [c \in Blinks |-> IF c \in unexpired THEN "timeout" ELSE result[c]]
           busy == Cardinality({c \in Blinks : kept[c] = "pending"}) >= MAX_ACTIVE_PROMISES
       IN  /\ result' = [kept EXCEPT ![b] = IF busy THEN "rejected" ELSE "pending"]
           /\ msgs' = IF busy THEN msgs
                      ELSE msgs \cup {[b |-> b, from |-> Submitter, to |-> n] :
                                        n \in Remotes[b]}
  /\ UNCHANGED <<known, signatures, pending_sigs, reply, pool, m_blinks, threads,
                 sent, answers, nostart, failed, signed, dropped, faults>>

\* Mutant: a failure is passed on as a success is.
FailureAccepted(r, b, a, counted) ==
  IF r = "pending" /\ a.kind # "nostart" THEN "accepted" ELSE r

\* common_blink_response: a bl_nostart counts towards a majority of the remotes
common_blink_response(r, b, a, counted) ==
  IF r # "pending" THEN r
  ELSE IF a.kind = "good" THEN "accepted"
  ELSE IF a.kind = "bad" \/ Cardinality(counted) > Cardinality(Remotes[b]) \div 2
    THEN "rejected" ELSE r

\* handle_blink_not_started, handle_blink_failure and handle_blink_success
Respond(a) ==
  LET counted == IF a.kind = "nostart" THEN nostart[a.b] \cup {a.from} ELSE nostart[a.b] IN
  /\ answers' = answers \ {a}
  /\ nostart' = [nostart EXCEPT ![a.b] = counted]
  /\ result' = [result EXCEPT ![a.b] = common_blink_response(@, a.b, a, counted)]
  /\ UNCHANGED <<known, signatures, pending_sigs, reply, pool, m_blinks, threads,
                 msgs, sent, failed, signed, dropped, faults>>

----------------------------------------------------------------------------
(* The members *)

Answer(n, b, kind) == [from |-> n, b |-> b, kind |-> kind]

Thread(n, b, from, pc, sigs, tag) ==
  [node |-> n, b |-> b, from |-> from, pc |-> pc, sigs |-> sigs, tag |-> tag]

\* Between members a message may be delivered again: the handlers ignore what
\* they know.
Delivered(m) == IF m.from = Submitter THEN msgs \ {m} ELSE msgs

Idle(n) == Cardinality({t \in threads : t.node = n}) < MaxThreads[n]

\* What handle_blink comes to by what it finds before and under the shared lock
Outcome(n, b, from) ==
  IF b \notin Starts[n] THEN "nostart"
  ELSE IF b \in known[n]
    THEN IF from # Submitter THEN "ignore"
         ELSE IF approved(signatures[n][b], b) THEN "good"
         ELSE IF rejected(signatures[n][b], b) THEN "bad" ELSE "stash"
  ELSE IF b \notin Agrees[n] THEN "nostart"
  ELSE IF ~Supported(n, b) THEN "fail"
  ELSE IF ~Member(n, b) \/ strong_peers(n, b, {from}) = {} THEN "nostart" ELSE "store"

\* handle_blink up to the unique lock, which it takes to store the blink.  (A
\* relayed message that does not get there changes nothing.)
handle_blink(m) ==
  LET n == m.to
      b == m.b
      tag == m.from = Submitter
      outcome == Outcome(n, b, m.from)
  IN
  /\ Idle(n)
  /\ UNCHANGED <<known, signatures, pending_sigs, pool, m_blinks, sent, result, nostart,
                 signed, dropped, faults>>
  /\ tag \/ outcome \in {"store", "fail"}
  /\ msgs' = Delivered(m)
  /\ answers' = IF tag /\ outcome \in {"nostart", "good", "bad"}
                  THEN answers \cup {Answer(n, b, outcome)} ELSE answers
  /\ reply' = IF outcome = "stash" THEN [reply EXCEPT ![n] = @ \cup {b}] ELSE reply
  /\ threads' = IF outcome = "store"
                  THEN threads \cup {Thread(n, b, m.from, "store", {}, tag)} ELSE threads
  /\ failed' = IF outcome = "fail" THEN failed \cup {n} ELSE failed

\* handle_blink under the unique lock, and the relay of the transaction
Store(t) ==
  LET n == t.node
      b == t.b
  IN
  /\ t.pc = "store"
  /\ IF b \in known[n]
       THEN /\ threads' = threads \ {t}
            /\ UNCHANGED <<known, signatures, pending_sigs, reply, msgs>>
       ELSE /\ known' = [known EXCEPT ![n] = @ \cup {b}]
            /\ signatures' = [signatures EXCEPT ![n][b] = [v \in Nodes |-> "none"]]
            /\ pending_sigs' = [pending_sigs EXCEPT ![n][b] = {}]
            /\ reply' = IF t.tag THEN [reply EXCEPT ![n] = @ \cup {b}] ELSE reply
            /\ threads' = (threads \ {t}) \cup
                            {[t EXCEPT !.pc = "verify", !.from = Submitter,
                                     !.sigs = pending_sigs[n][b]]}
            /\ \E connected \in SUBSET weak_peers(n, b, {t.from}) :
                 msgs' = msgs \cup relay_to_peers(n, b, {t.from}, connected)
  /\ UNCHANGED <<pool, m_blinks, sent, answers, result, nostart, failed, signed, dropped,
                 faults>>

\* Mutant: only the blinks the pool knows as approved stand in the way.
AddBesideApproved(n, b) ==
  \A c \in m_blinks[n] : c # b /\ <<b, c>> \notin Conflicts

\* tx_memory_pool::add_new_blink, if the transaction is good otherwise: false for
\* a key image that the pool has as spent, by this very transaction too
add_new_blink(n, b) ==
  /\ b \notin m_blinks[n]
  /\ \A c \in pool[n] : c # b /\ <<b, c>> \notin Conflicts

\* A member that has the signature ignores it, or is the one it came from: what
\* is sent to it is left out.
Has(p, b, g) ==
  \/ g \in pending_sigs[p][b]
  \/ signatures[p][b][g.node] # "none"
  \/ \E t \in threads : t.node = p /\ t.b = b /\ g \in t.sigs

\* process_blink_signatures: the signatures are stored under the lock of the
\* blink; the new ones are relayed, one at a time, and a verdict is answered if
\* this call reached it and has a tag.
process_blink_signatures(n, b, sigs, tag) ==
  LET s == signatures[n][b] IN
  \E first \in FirstOfEach(sigs) :
    LET new == New(s, first)
        after == add_prechecked_signature(s, first)
        open == ~approved(s, b) /\ ~rejected(s, b)
        became_approved == new # {} /\ open /\ approved(after, b)
        became_rejected == new # {} /\ open /\ ~approved(after, b) /\ rejected(after, b)
    IN
    /\ signatures' = [signatures EXCEPT ![n][b] = after]
    /\ m_blinks' = IF became_approved THEN [m_blinks EXCEPT ![n] = @ \cup {b}] ELSE m_blinks
    /\ \E connected \in SUBSET weak_peers(n, b, {}) :
         sent' = sent \cup
                   {m \in [b : {b}, to : strong_peers(n, b, {}) \cup connected, sig : new] :
                      ~Has(m.to, b, m.sig)}
    /\ answers' = IF tag /\ became_approved THEN answers \cup {Answer(n, b, "good")}
                  ELSE IF tag /\ became_rejected THEN answers \cup {Answer(n, b, "bad")}
                  ELSE answers

\* handle_blink's verification: the member's own signature joins the ones that
\* were waiting for the transaction
Verify(t) ==
  LET n == t.node
      b == t.b
  IN
  /\ t.pc = "verify"
  /\ threads' = threads \ {t}
  /\ UNCHANGED <<known, pending_sigs, reply, msgs, result, nostart, failed, dropped, faults>>
  /\ \E good \in IF b \in Doubts[n] THEN BOOLEAN ELSE {TRUE} :
       LET ok == good /\ add_new_blink(n, b) IN
       /\ pool' = IF ok THEN [pool EXCEPT ![n] = @ \cup {b}] ELSE pool
       /\ signed' = signed \cup {<<n, b, ok>>}
       /\ process_blink_signatures(n, b, t.sigs \cup {[node |-> n, approval |-> ok]}, t.tag)

\* Mutant: a signature that comes before the transaction is not kept.
IgnoredUntilKnown(p, g) == p

\* The stash of a blink whose transaction has not come yet
Stash(p, g) == p \cup {g}

\* handle_blink_signature: stash the signature, or go on to process it with the
\* reply tag read now.  A signature the member has stored is ignored, and one for
\* quorums it does not agree on.
handle_blink_signature(m) ==
  LET n == m.to
      b == m.b
  IN
  /\ b \in Agrees[n]
  /\ Idle(n)
  /\ sent' = sent \ {m}
  /\ IF b \in known[n]
       THEN /\ New(signatures[n][b], {m.sig}) # {}
            /\ threads' = threads \cup
                            {Thread(n, b, Submitter, "process", {m.sig}, b \in reply[n])}
            /\ UNCHANGED pending_sigs
       ELSE /\ pending_sigs' = [pending_sigs EXCEPT ![n][b] = Stash(@, m.sig)]
            /\ UNCHANGED threads
  /\ UNCHANGED <<known, signatures, reply, pool, m_blinks, msgs, answers, result, nostart,
                 failed, signed, dropped, faults>>

Process(t) ==
  /\ t.pc = "process"
  /\ threads' = threads \ {t}
  /\ UNCHANGED <<known, pending_sigs, reply, pool, msgs, result, nostart, failed, signed,
                 dropped, faults>>
  /\ process_blink_signatures(t.node, t.b, t.sigs, t.tag)

\* External: the pool of a node drops a transaction it does not know as an
\* approved blink (prune, remove_stuck_transactions, flush_txes_from_pool)
PoolDrops(n, b) ==
  /\ n \in Faulty
  /\ faults < MaxFaults
  /\ b \in pool[n] \ m_blinks[n]
  /\ pool' = [pool EXCEPT ![n] = @ \ {b}]
  /\ dropped' = dropped \cup {<<n, b>>}
  /\ faults' = faults + 1
  /\ UNCHANGED <<known, signatures, pending_sigs, reply, m_blinks, threads, msgs, sent, answers,
                 result, nostart, failed, signed>>

NoBlinks == [b \in Blinks |-> {}]
NoSignatures == [b \in Blinks |-> [v \in Nodes |-> "none"]]

\* A node restarts: SNNWrapper and m_blinks are rebuilt empty, the pool is read
\* from disk, and what was on its way to the node is lost.
Restart(n) ==
  /\ n \in Faulty
  /\ faults < MaxFaults
  /\ known' = [known EXCEPT ![n] = {}]
  /\ signatures' = [signatures EXCEPT ![n] = NoSignatures]
  /\ pending_sigs' = [pending_sigs EXCEPT ![n] = NoBlinks]
  /\ reply' = [reply EXCEPT ![n] = {}]
  /\ m_blinks' = [m_blinks EXCEPT ![n] = {}]
  /\ threads' = {t \in threads : t.node # n}
  /\ msgs' = {m \in msgs : m.to # n}
  /\ sent' = {m \in sent : m.to # n}
  /\ faults' = faults + 1
  /\ UNCHANGED <<pool, answers, result, nostart, failed, signed, dropped>>

Init ==
  /\ known = [n \in Nodes |-> {}]
  /\ signatures = [n \in Nodes |-> NoSignatures]
  /\ pending_sigs = [n \in Nodes |-> NoBlinks]
  /\ reply = [n \in Nodes |-> {}]
  /\ pool = [n \in Nodes |-> {}]
  /\ m_blinks = [n \in Nodes |-> {}]
  /\ threads = {}
  /\ msgs = {}
  /\ sent = {}
  /\ answers = {}
  /\ result = [b \in Blinks |-> "none"]
  /\ nostart = NoBlinks
  /\ failed = {}
  /\ signed = {}
  /\ dropped = {}
  /\ faults = 0

Step ==
  \/ \E m \in msgs : handle_blink(m)
  \/ \E m \in sent : handle_blink_signature(m)
  \/ \E t \in threads : Store(t) \/ Verify(t) \/ Process(t)
  \/ \E a \in answers : Respond(a)

Next ==
  \/ \E b \in Blinks : send_blink(b)
  \/ Step
  \/ \E n \in Nodes, b \in Blinks : PoolDrops(n, b)
  \/ \E n \in Nodes : Restart(n)

Spec == Init /\ [][Next]_vars

----------------------------------------------------------------------------
(* Properties *)

ThreadRecord ==
  [node : Nodes, b : Blinks, from : Nodes \cup {Submitter}, pc : {"store", "verify", "process"},
   sigs : SUBSET Signature, tag : BOOLEAN]

BlinkMessage == [b : Blinks, from : Nodes \cup {Submitter}, to : Nodes]

SignMessage == [b : Blinks, to : Nodes, sig : Signature]

AnswerMessage == [from : Nodes, b : Blinks, kind : {"good", "bad", "nostart"}]

\* The threads, messages, signatures and answers of quorumnet are well formed.
TypeOK ==
  /\ known \in [Nodes -> SUBSET Blinks]
  /\ signatures \in [Nodes -> [Blinks -> [Nodes -> Statuses]]]
  /\ pending_sigs \in [Nodes -> [Blinks -> SUBSET Signature]]
  /\ reply \in [Nodes -> SUBSET Blinks]
  /\ pool \in [Nodes -> SUBSET Blinks]
  /\ m_blinks \in [Nodes -> SUBSET Blinks]
  /\ threads \subseteq ThreadRecord
  /\ msgs \subseteq BlinkMessage
  /\ sent \subseteq SignMessage
  /\ answers \subseteq AnswerMessage
  /\ result \in [Blinks -> Results]
  /\ nostart \in [Blinks -> SUBSET Nodes]
  /\ failed \subseteq Nodes
  /\ signed \subseteq Nodes \X Blinks \X BOOLEAN
  /\ dropped \subseteq Nodes \X Blinks
  /\ faults \in Nat

\* The blinks are authorised by quorums of which one is the same: their heights
\* are in the same interval of BLINK_QUORUM_INTERVAL blocks or in adjacent ones.
ShareSubquorum(b, c) ==
  \E q, r \in Subquorums : Validators[b][q] = Validators[c][r]

ApprovedSomewhere(b) == \E n \in Nodes : approved(signatures[n][b], b)

\* frame_pix_rules.h: "Blink approvals must require a majority of quorum members
\* to prevent conflicting, signed blinks".  Two blinks that spend the same key
\* image and share a subquorum are not both approved, at any two nodes and across
\* restarts, unless a member signed both because its pool had dropped one.
NoConflictingBlinks ==
  \A b, c \in Blinks :
    <<b, c>> \in Conflicts /\ ShareSubquorum(b, c) /\ ApprovedSomewhere(b) /\ ApprovedSomewhere(c) =>
      \E v \in Nodes : /\ {<<v, b, TRUE>>, <<v, c, TRUE>>} \subseteq signed
                       /\ <<v, b>> \in dropped \/ <<v, c>> \in dropped

\* A blink that has enough signatures to be rejected can no longer be approved
\* (tx_blink.h, rejected), and not at any other node either: the verdicts of two
\* nodes differ only if a member signed both ways, which one that restarts does.
OneVerdict ==
  \A b \in Blinks : ApprovedSomewhere(b) =>
    \A m \in Nodes : rejected(signatures[m][b], b) =>
      /\ ~approved(signatures[m][b], b)
      /\ \E v \in Nodes : {<<v, b, TRUE>>, <<v, b, FALSE>>} \subseteq signed

Signers(made, b, q) == {v \in validators(b, q) : <<v, b, TRUE>> \in made}

EnoughSigned(made, b) ==
  \A q \in Subquorums : Cardinality(Signers(made, b, q)) >= BLINK_MIN_VOTES

\* The submitter is told "accepted" only for a blink that enough members of both
\* subquorums have signed: bl_good is sent for what the signatures say, however
\* the relayed copy, the submitted one and the signatures were interleaved.
AcceptedIsSigned == \A b \in Blinks : result[b] = "accepted" => EnoughSigned(signed, b)

\* get_blink_quorums "verifies that they are of an acceptable size": no handler
\* of a quorum it accepts fails for want of a connection matrix.
QuorumsAcceptable == failed = {}

\* No handler is at work and every blink_sign message is one that its receiver
\* ignores.
Quiet ==
  /\ threads = {}
  /\ \A m \in sent :
       m.b \in Agrees[m.to] => m.b \in known[m.to] /\ New(signatures[m.to][m.b], {m.sig}) = {}

\* No signature is stranded: once the handlers have come to rest, every signature
\* made is stored by every member that has the blink, whether it came before the
\* transaction, with it or after it, as long as no node has lost its state.  So
\* members that all sign come to the same verdict.
SignaturesSpread ==
  Quiet /\ faults = 0 =>
    \A g \in signed, n \in Nodes :
      g[2] \in known[n] => signatures[n][g[2]][g[1]] # "none"
============================================================================
