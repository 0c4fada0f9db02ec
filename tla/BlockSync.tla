------------------------------ MODULE BlockSync ------------------------------
(***************************************************************************)
(* Downloading the chain: block_queue, the spans of blocks that the        *)
(* connections share, and the part of cryptonote_protocol_handler that     *)
(* drives it: the chain entries and blocks that peers answer with,         *)
(* request_missing_objects, try_add_next_blocks under the sync lock, the   *)
(* timers of on_idle, and connections that are dropped or closed.          *)
(*                                                                         *)
(* Every connection handles its messages and callbacks one after the other *)
(* (a strand), the connections run concurrently.  The queue is locked for  *)
(* one call at a time: a handler is one action where its calls to the      *)
(* queue only read and then change it once, and several where another      *)
(* connection can come between, namely the loop of try_add_next_blocks and *)
(* the pair get_next_span_if_scheduled, reset_next_span_time.              *)
(*                                                                         *)
(* Peers are not pruned (pruning seed 0) and hold chains that do not       *)
(* change; every block adds the same work.  The target height, which is    *)
(* only reported, is left out.                                             *)
(***************************************************************************)
EXTENDS Integers, Sequences, FiniteSetsExt, Functions

CONSTANTS
  Conns,        \* connections, open after the handshake
  Chain,        \* Chain[c]: the chain of the peer, genesis block first
  Invalid,      \* blocks that fail verification
  Slow,         \* connections that may answer late or never, or close
  Income,       \* incoming connections
  BLOCKS_IDS_SYNCHRONIZING_DEFAULT_COUNT,   \* hashes in one chain entry
  block_sync_size,                          \* blocks in one request
  BLOCK_QUEUE_NSPANS_THRESHOLD,
  BLOCK_QUEUE_SIZE_THRESHOLD,               \* in blocks
  BLOCK_QUEUE_FORCE_DOWNLOAD_NEAR_BLOCKS,
  MaxCallbacks,   \* bound: callbacks the timers leave pending on a connection
  MaxUnanswered   \* bound: requests that wait; those beyond it are never answered

Block == UNION {Range(Chain[c]) : c \in Conns}

PathTo(b) ==
  LET c == CHOOSE c \in Conns : b \in Range(Chain[c])
  IN  SubSeq(Chain[c], 1, CHOOSE i \in DOMAIN Chain[c] : Chain[c][i] = b)
Height(b) == Len(PathTo(b)) - 1
Parent(b) == PathTo(b)[Height(b)]
genesis == Head(Chain[CHOOSE c \in Conns : TRUE])

ASSUME SyncAssumption ==
  /\ Conns # {}
  /\ \A c \in Conns : Chain[c] # <<>> /\ Head(Chain[c]) = genesis
  /\ \A c, d \in Conns : \A i \in DOMAIN Chain[c], j \in DOMAIN Chain[d] :
       Chain[c][i] = Chain[d][j] => SubSeq(Chain[c], 1, i) = SubSeq(Chain[d], 1, j)
  /\ \A c \in Conns : Chain[c] \in Seq(Block)
  /\ block_sync_size \in Nat \ {0}
  /\ BLOCKS_IDS_SYNCHRONIZING_DEFAULT_COUNT \in Nat \ {0, 1}
  /\ MaxUnanswered \in Nat \ {0}

VARIABLES
  core,     \* what have_block finds: blocks on the main chain or beside it, invalid ones
  chain,    \* the main chain
  queue,    \* block_queue: [spans, requested, have]
  ctx,      \* ctx[c]: the connection context
  open,     \* connections that p2p knows
  thread,   \* thread[c]: where the handler of a connection is
  m_sync_lock  \* the connection whose thread holds it, as a set of at most one

vars == <<core, chain, queue, ctx, open, thread, m_sync_lock>>

EmptyQueue == [spans |-> [h \in {} |-> <<>>], requested |-> {}, have |-> {}]
MinOf(a, b) == IF a < b THEN a ELSE b
Last(s) == s[Len(s)]

\* The length of the longest prefix of s whose elements are all in S.
PrefixIn(s, S) ==
  CHOOSE n \in 0 .. Len(s) :
    /\ \A i \in 1 .. n : s[i] \in S
    /\ n = Len(s) \/ s[n + 1] \notin S

\* The elements of s outside S, in order.
Without(s, S) ==
  LET kept[i \in 0 .. Len(s)] ==
        IF i = 0 THEN <<>> ELSE IF s[i] \in S THEN kept[i - 1] ELSE Append(kept[i - 1], s[i])
  IN  kept[Len(s)]

-----------------------------------------------------------------------------
(* block_queue.  Spans are ordered by their start alone, so they are a     *)
(* function of it.                                                         *)

Filled(s) == s.blocks # <<>>
Starts(q) == DOMAIN q.spans
FilledStarts(q) == {h \in Starts(q) : Filled(q.spans[h])}
First(S) == CHOOSE h \in S : \A k \in S : h <= k

\* Mutant: the hashes stay requested when their span is erased.
EraseKeepsRequested(q, S) ==
  LET hashes == UNION {Range(q.spans[h].hashes) : h \in S}
  IN  [spans |-> [h \in Starts(q) \ S |-> q.spans[h]],
       requested |-> q.requested, have |-> q.have \ hashes]

\* erase_block, for every span of a set: the hashes are forgotten, even those
\* another span lists too.
EraseAll(q, S) ==
  LET hashes == UNION {Range(q.spans[h].hashes) : h \in S}
  IN  [spans |-> [h \in Starts(q) \ S |-> q.spans[h]],
       requested |-> q.requested \ hashes, have |-> q.have \ hashes]

flush_spans(q, c, all) ==
  EraseAll(q, {h \in Starts(q) : q.spans[h].conn = c /\ (all \/ ~Filled(q.spans[h]))})

flush_stale_spans(q, live) ==
  EraseAll(q, {h \in Starts(q) : ~Filled(q.spans[h]) /\ q.spans[h].conn \notin live})

remove_spans(q, c, start) ==
  EraseAll(q, {h \in Starts(q) : q.spans[h].conn = c /\ h <= start})

Put(q, start, span) == [h \in Starts(q) \cup {start} |-> IF h = start THEN span ELSE q.spans[h]]

\* add_blocks of downloaded blocks: they replace the span that starts there,
\* whosever it is, and take over its hashes.
add_blocks(q, start, blocks, c) ==
  LET hashes == IF start \in Starts(q) THEN q.spans[start].hashes ELSE <<>>
      span == [hashes |-> hashes, blocks |-> blocks, conn |-> c, nblocks |-> Len(blocks)]
  IN  [spans |-> Put(q, start, span),
       requested |-> q.requested \cup Range(hashes), have |-> q.have \cup Range(hashes)]

set_span_hashes(q, start, c, hashes) ==
  LET rest == EraseAll(q, {start})
  IN  IF start \in Starts(q) /\ q.spans[start].conn = c
      THEN [spans |-> Put(rest, start, [q.spans[start] EXCEPT !.hashes = hashes]),
            requested |-> rest.requested \cup Range(hashes), have |-> rest.have]
      ELSE q

\* reserve_span: [start, n, queue].  A span that starts where one does already is
\* returned, but not inserted.
reserve_span(q, last, c, hashes) ==
  LET skip == PrefixIn(hashes, q.requested)
      n == MinOf(block_sync_size, Len(hashes) - skip)
      start == last - Len(hashes) + 1 + skip
      span == [hashes |-> <<>>, blocks |-> <<>>, conn |-> c, nblocks |-> n]
      inserted == IF start \in Starts(q) THEN q
                  ELSE [spans |-> Put(q, start, span), requested |-> q.requested, have |-> q.have]
  IN  IF Len(hashes) > last \/ n = 0 THEN [start |-> 0, n |-> 0, queue |-> q]
      ELSE [start |-> start, n |-> n,
            queue |-> set_span_hashes(inserted, start, c, SubSeq(hashes, skip + 1, skip + n))]

\* get_next_span_if_scheduled, as a set of at most one span.
get_next_span_if_scheduled(q) ==
  {q.spans[h] : h \in {k \in Starts(q) : k = First(Starts(q)) /\ ~Filled(q.spans[k])}}

\* get_data_size, in blocks.
SumLengths(q) == MapThenSumSet(LAMBDA h : Len(q.spans[h].blocks), Starts(q))

\* has_next_span(height), and whether it is filled.
has_next_span(q, height) == Starts(q) # {} /\ First(Starts(q)) <= height
NextFilled(q) == Filled(q.spans[First(Starts(q))])

\* The spans from the height on are passed as long as they follow each other, the
\* first of them only if it is filled.
get_next_needed_height(q, height) ==
  LET End(h) == h + q.spans[h].nblocks
      live == {h \in Starts(q) : End(h) - 1 >= height}
      needed(S) == IF S = {} THEN height ELSE End(CHOOSE h \in S : \A k \in S : k <= h)
      Before(h) == {k \in live : k < h}
      stops == {h \in live : h # needed(Before(h)) \/ (Before(h) = {} /\ ~Filled(q.spans[h]))}
  IN  needed(IF stops = {} THEN live ELSE Before(First(stops)))

-----------------------------------------------------------------------------
(* request_missing_objects, which ends most handlers: the connection with  *)
(* context x goes on from the queue q.  A context holds the requests the   *)
(* peer has not answered, oldest first.                                    *)

Idle == [at |-> "idle", start |-> 0, blocks |-> <<>>, owner |-> {}]

Send(x, request) ==
  [x EXCEPT !.unanswered = IF Len(@) < MaxUnanswered THEN Append(@, request) ELSE @]

GetBlocks(hashes) == [kind |-> "blocks", hashes |-> hashes, split |-> 0]

\* NOTIFY_REQUEST_CHAIN with the last hash known to come from this peer and the
\* main chain: the peer finds the first of them that it has.
RequestChain(c, known) ==
  LET shared == {i \in DOMAIN chain : chain[i] \in Range(Chain[c])}
      top == CHOOSE i \in shared : \A j \in shared : j <= i
      from == {Height(b) : b \in known \cap Range(Chain[c])}
  IN  [kind |-> "chain", hashes |-> <<>>,
       split |-> IF from # {} THEN CHOOSE h \in from : TRUE ELSE top - 1]

Becomes(c, x, q, where) ==
  /\ thread' = [thread EXCEPT ![c] = where]
  /\ ctx' = [ctx EXCEPT ![c] = IF c \in open THEN x ELSE @]
  /\ queue' = q
  /\ UNCHANGED open

\* drop_connection and on_connection_close: the scheduled spans of the connection
\* are flushed, or all of them.
drop_connection(c, x, q, flush_all_spans) ==
  /\ queue' = flush_spans(q, c, flush_all_spans)
  /\ ctx' = [ctx EXCEPT ![c] = [x EXCEPT !.unanswered = <<>>, !.callbacks = 0]]
  /\ open' = open \ {c}

Drop(c, x, q) == drop_connection(c, x, q, FALSE) /\ thread' = [thread EXCEPT ![c] = Idle]

skip_unneeded_hashes(x, have) ==
  LET needed == SubSeq(x.needed, PrefixIn(x.needed, core \cup have) + 1, Len(x.needed))
  IN  [x EXCEPT !.needed = needed,
                !.known = IF x.needed # <<>> /\ needed = <<>> THEN {Last(x.needed)} ELSE @]

\* should_download_next_span, as the set of its outcomes: a next span that is
\* scheduled may have been so for long.
should_download_next_span(x, q) ==
  IF x.remote <= Len(chain) THEN {FALSE}
  ELSE IF ~has_next_span(q, Len(chain)) THEN {TRUE}
  ELSE IF NextFilled(q) THEN {FALSE} ELSE BOOLEAN

\* From the label skip on.  The call that looks for a filled span to add passes
\* FALSE for "filled", and get_next_span does not change it: nothing is added.
NoBlocks(c, x0, q) ==
  \E x \in {[x0 EXCEPT !.needed = <<>>]} :
    \/ /\ x.last < x.remote - 1
       /\ Becomes(c, Send([x EXCEPT !.waiting = TRUE], RequestChain(c, x.known)), q, Idle)
    \/ /\ x.last = x.remote - 1 /\ x.asked = {}
       /\ Becomes(c, [x EXCEPT !.state = "normal"], q, Idle)
    \/ /\ x.last > x.remote - 1 \/ (x.last = x.remote - 1 /\ x.asked # {})
       /\ Drop(c, x, q)

Ask(c, x, q, hashes, needed) ==
  Becomes(c, Send([x EXCEPT !.asked = @ \cup Range(hashes), !.needed = needed, !.waiting = TRUE],
                  GetBlocks(hashes)), q, Idle)

\* Mutant: a span that another connection was asked for is left to it.
ReserveOnly(c, x0, q, force) ==
  \E x \in {skip_unneeded_hashes(x0, {})} : \E r \in {reserve_span(q, x.last, c, x.needed)} :
    LET skip == r.start - (x.last - Len(x.needed) + 1)
    IN  \/ /\ r.n > 0
           /\ Ask(c, x, r.queue, SubSeq(x.needed, skip + 1, skip + r.n),
                  SubSeq(x.needed, skip + r.n + 1, Len(x.needed)))
        \/ r.n = 0 /\ NoBlocks(c, x, q)

\* A span is reserved; when none is left, the next span is asked for that another
\* connection has been asked for.
Reserve(c, x0, q, force) ==
  \E x \in {skip_unneeded_hashes(x0, {})} : \E r \in {reserve_span(q, x.last, c, x.needed)} :
    LET skip == r.start - (x.last - Len(x.needed) + 1)
        next == get_next_span_if_scheduled(q)
    IN  \/ /\ r.n > 0
           /\ Ask(c, x, r.queue, SubSeq(x.needed, skip + 1, skip + r.n),
                  SubSeq(x.needed, skip + r.n + 1, Len(x.needed)))
        \/ /\ r.n = 0 /\ ~force
           /\ \E span \in next :
                Ask(c, x, q, span.hashes, Without(x.needed, Range(span.hashes)))
        \/ /\ r.n = 0 /\ (force \/ next = {})
           /\ NoBlocks(c, x, q)

\* The next span is downloaded again if it is still scheduled.
Download(c, x, q, force) ==
  LET next == get_next_span_if_scheduled(q)
  IN  \/ /\ force
         /\ \E span \in next :
              Becomes(c, [x EXCEPT !.asked = @ \cup Range(span.hashes)], q,
                      [Idle EXCEPT !.at = "requesting", !.blocks = span.hashes])
      \/ (x.needed = <<>> /\ ~force) /\ NoBlocks(c, x, q)
      \/ /\ (force /\ next = {}) \/ (~force /\ x.needed # <<>>)
         /\ \/ x.last + 1 < Len(x.needed) /\ NoBlocks(c, [x EXCEPT !.last = 0], q)
            \/ x.last + 1 >= Len(x.needed) /\ Reserve(c, x, q, force)

\* The queue is full and the next block far: standby, or leave a sync that has
\* added nothing for long.
Wait(c, x, q, free) ==
  \E ready \in {has_next_span(q, Len(chain)) /\ NextFilled(q)} :
    \/ /\ free /\ ready
       /\ Becomes(c, [x EXCEPT !.state = "standby", !.callbacks = @ + 1], q, Idle)
    \/ /\ free /\ ~ready /\ c \notin Income
       /\ Drop(c, x, q)
    \/ /\ ~(free /\ ready)
       /\ Becomes(c, [x EXCEPT !.state = "standby"], q, Idle)

\* The next block this connection would download, or the next one needed, is near.
NearBlock(x, q) ==
  LET next_needed_height == get_next_needed_height(q, Len(chain))
      next_block_height ==
        IF x.needed = <<>> THEN next_needed_height ELSE x.last - Len(x.needed) + 1
  IN  MinOf(next_block_height, next_needed_height)
        < Len(chain) + BLOCK_QUEUE_FORCE_DOWNLOAD_NEAR_BLOCKS

QueueProceed(q) ==
  \/ Cardinality(FilledStarts(q)) < BLOCK_QUEUE_NSPANS_THRESHOLD
  \/ SumLengths(q) < BLOCK_QUEUE_SIZE_THRESHOLD

\* "free": no thread holds the sync lock.
request_missing_objects(c, x0, q0, force, free) ==
  \E q \in {flush_stale_spans(q0, open)} : \E x \in {skip_unneeded_hashes(x0, q.have)} :
    \/ force /\ Download(c, x0, q, TRUE)
    \/ /\ ~force
       /\ \E near \in {NearBlock(x, q)} :
            \/ /\ near \/ QueueProceed(q)
               /\ \E y \in {[x EXCEPT !.state = "synchronizing"]},
                     again \in IF near THEN should_download_next_span(x, q) ELSE {FALSE} :
                    Download(c, y, q, again)
            \/ ~near /\ ~QueueProceed(q) /\ Wait(c, x, q, free)

\* Mutant: if another thread adds blocks, the handler returns.
ReturnsIfLocked(c, x, q) ==
  \/ m_sync_lock # {} /\ Becomes(c, x, q, Idle) /\ UNCHANGED m_sync_lock
  \/ /\ m_sync_lock = {}
     /\ m_sync_lock' = {c}
     /\ Becomes(c, x, q, [Idle EXCEPT !.at = "adding"])

\* try_add_next_blocks: if another thread adds blocks, back to download.
try_add_next_blocks(c, x, q) ==
  \/ /\ m_sync_lock # {}
     /\ request_missing_objects(c, x, q, FALSE, FALSE)
     /\ UNCHANGED m_sync_lock
  \/ /\ m_sync_lock = {}
     /\ m_sync_lock' = {c}
     /\ Becomes(c, x, q, [Idle EXCEPT !.at = "adding"])

-----------------------------------------------------------------------------
(* Actions. *)

CanHandle(c) == c \in open /\ thread[c].at = "idle"

\* on_callback
OnCallback(c) ==
  /\ CanHandle(c)
  /\ ctx[c].callbacks > 0
  /\ \E x \in {[ctx[c] EXCEPT !.callbacks = @ - 1]} :
       \/ /\ x.state = "synchronizing"
          /\ ctx' = [ctx EXCEPT ![c] = Send([x EXCEPT !.needed = <<>>], RequestChain(c, {}))]
          /\ UNCHANGED <<queue, open, thread, m_sync_lock>>
       \/ /\ x.state = "standby"
          /\ \E y \in {[x EXCEPT !.state = "synchronizing"]} : try_add_next_blocks(c, y, queue)
       \/ /\ x.state = "normal"
          /\ ctx' = [ctx EXCEPT ![c] = x]
          /\ UNCHANGED <<queue, open, thread, m_sync_lock>>
  /\ UNCHANGED <<core, chain>>

\* The peer answers its oldest request.
Answers(c, kind) ==
  CanHandle(c) /\ ctx[c].unanswered # <<>> /\ Head(ctx[c].unanswered).kind = kind

\* handle_response_chain_entry
ChainEntry(c) ==
  LET split == Head(ctx[c].unanswered).split
      remote == Len(Chain[c])
  IN  /\ Answers(c, "chain")
      /\ \E ids \in {SubSeq(Chain[c], split + 1,
                            MinOf(split + BLOCKS_IDS_SYNCHRONIZING_DEFAULT_COUNT, remote))} :
         \E x \in {[ctx[c] EXCEPT !.unanswered = Tail(@), !.waiting = FALSE, !.remote = remote,
                                  !.needed = ids, !.last = split + Len(ids) - 1]} :
           request_missing_objects(c, x, queue, FALSE, m_sync_lock = {})
      /\ UNCHANGED <<core, chain, m_sync_lock>>

\* handle_response_get_blocks: the peer sends the blocks it has of those asked for,
\* the first ones, since they follow each other in one chain.
Blocks(c) ==
  LET hashes == Head(ctx[c].unanswered).hashes
  IN  /\ Answers(c, "blocks")
      /\ \E blocks \in {SubSeq(hashes, 1, PrefixIn(hashes, Range(Chain[c])))} :
         \E x \in {[ctx[c] EXCEPT !.unanswered = Tail(@), !.waiting = FALSE,
                                  !.remote = Len(Chain[c]), !.asked = @ \ Range(blocks)]} :
           \/ /\ Range(blocks) \subseteq ctx[c].asked /\ x.asked = {}
              /\ \E y \in {[x EXCEPT !.known = {Last(blocks)}]},
                    q \in {add_blocks(queue, Height(Head(blocks)), blocks, c)} :
                   try_add_next_blocks(c, y, q)
           \/ /\ ~(Range(blocks) \subseteq ctx[c].asked /\ x.asked = {})
              /\ Drop(c, x, queue) /\ UNCHANGED m_sync_lock
      /\ UNCHANGED <<core, chain>>

(* The loop of try_add_next_blocks, by the thread that holds the sync lock. *)

Adding(c) == thread[c].at = "adding"
NextStart == First(FilledStarts(queue))
NextSpan == queue.spans[NextStart]
ParentKnown == Parent(Head(NextSpan.blocks)) \in core
ParentRequested == Parent(Head(NextSpan.blocks)) \in queue.requested

\* Nothing to add, or a parent that will come: back to download.
StopAdding(c) ==
  /\ Adding(c)
  /\ \/ FilledStarts(queue) = {}
     \/ FilledStarts(queue) # {} /\ Last(NextSpan.blocks) \notin core /\ ~ParentKnown /\ ParentRequested
  /\ thread' = [thread EXCEPT ![c].at = "stopping"]
  /\ UNCHANGED <<core, chain, queue, ctx, open, m_sync_lock>>

\* Blocks we have already.
OldSpan(c) ==
  /\ Adding(c)
  /\ FilledStarts(queue) # {} /\ Last(NextSpan.blocks) \in core
  /\ queue' = remove_spans(queue, NextSpan.conn, NextStart)
  /\ UNCHANGED <<core, chain, ctx, open, thread, m_sync_lock>>

\* The parent is neither known nor requested: one that should be known has its
\* span removed and the hashes of this connection are asked for anew.
ParentMissing(c) ==
  /\ Adding(c)
  /\ FilledStarts(queue) # {} /\ Last(NextSpan.blocks) \notin core
  /\ ~ParentKnown /\ ~ParentRequested
  /\ m_sync_lock' = {}
  /\ \E above \in {NextStart > Len(chain)} :
     \E q \in {IF above THEN queue ELSE remove_spans(queue, NextSpan.conn, NextStart)},
        x \in {IF above THEN ctx[c] ELSE [ctx[c] EXCEPT !.needed = <<>>, !.last = 0]} :
       request_missing_objects(c, x, q, FALSE, TRUE)
  /\ UNCHANGED <<core, chain>>

TakeSpan(c) ==
  /\ Adding(c)
  /\ FilledStarts(queue) # {} /\ Last(NextSpan.blocks) \notin core /\ ParentKnown
  /\ thread' = [thread EXCEPT ![c] = [at |-> "processing", start |-> NextStart,
                                      blocks |-> NextSpan.blocks, owner |-> {NextSpan.conn}]]
  /\ UNCHANGED <<core, chain, queue, ctx, open, m_sync_lock>>

\* handle_incoming_block for the i-th block of a span fails: its verification, or
\* its parent is not a valid block.
Fails(blocks, i) ==
  LET known == core \cup {blocks[j] : j \in 1 .. i - 1}
  IN  blocks[i] \notin known /\ (blocks[i] \in Invalid \/ Parent(blocks[i]) \notin known \ Invalid)

\* The blocks that are handled, a failing one last; an invalid one is remembered.
Process(c) ==
  LET blocks == thread[c].blocks
      owner == CHOOSE d \in thread[c].owner : TRUE
      failing == {i \in DOMAIN blocks : Fails(blocks, i)}
      done == IF failing = {} THEN blocks ELSE SubSeq(blocks, 1, First(failing) - 1)
      bad == {blocks[i] : i \in {First(failing)}} \cap Invalid
      q == remove_spans(queue, owner, thread[c].start)
  IN  /\ thread[c].at = "processing"
      /\ core' = core \cup Range(done) \cup (IF failing = {} THEN {} ELSE bad)
      /\ chain' = IF done # <<>> /\ Height(Last(done)) >= Len(chain) THEN PathTo(Last(done)) ELSE chain
      /\ \/ /\ failing = {}
            /\ queue' = q
            /\ thread' = [thread EXCEPT ![c] = [Idle EXCEPT !.at = "adding"]]
            /\ UNCHANGED <<ctx, open, m_sync_lock>>
         \/ /\ failing # {}
            /\ thread' = [thread EXCEPT ![c] = [Idle EXCEPT !.blocks = blocks]]
            /\ m_sync_lock' = {}
            /\ \/ owner \in open /\ drop_connection(owner, ctx[owner], q, TRUE)
               \/ owner \notin open /\ queue' = q /\ UNCHANGED <<ctx, open>>

\* The loop is over: the lock is released and the download goes on.
GoBack(c) ==
  /\ thread[c].at = "stopping"
  /\ m_sync_lock' = {}
  /\ \E force \in should_download_next_span(ctx[c], queue) :
       request_missing_objects(c, ctx[c], queue, force, TRUE)
  /\ UNCHANGED <<core, chain>>

\* reset_next_span_time and the request of the next span, which it asserts to be
\* scheduled still; an exception ends the connection.
ResetNextSpan(c) ==
  LET scheduled == get_next_span_if_scheduled(queue) # {}
      x == [ctx[c] EXCEPT !.waiting = TRUE]
  IN  /\ thread[c].at = "requesting"
      /\ thread' = [thread EXCEPT ![c] = Idle]
      /\ \/ /\ scheduled
            /\ ctx' = [ctx EXCEPT ![c] = IF c \in open THEN Send(x, GetBlocks(thread[c].blocks)) ELSE @]
            /\ UNCHANGED <<queue, open>>
         \/ ~scheduled /\ drop_connection(c, ctx[c], queue, FALSE)
      /\ UNCHANGED <<core, chain, m_sync_lock>>

(* Timers and connections. *)

\* kick_idle_peers: a peer that has not answered for IDLE_PEER_KICK_TIME.
KickIdle(c) ==
  /\ c \in open \cap Slow
  /\ ctx[c].state = "synchronizing" /\ ctx[c].waiting
  /\ ctx' = [ctx EXCEPT ![c].waiting = FALSE, ![c].state = "standby", ![c].callbacks = @ + 1]
  /\ UNCHANGED <<core, chain, queue, open, thread, m_sync_lock>>

\* check_standby_peers
CheckStandby(c) ==
  /\ c \in open /\ ctx[c].state = "standby" /\ ctx[c].callbacks < MaxCallbacks
  /\ ctx' = [ctx EXCEPT ![c].callbacks = @ + 1]
  /\ UNCHANGED <<core, chain, queue, open, thread, m_sync_lock>>

\* process_payload_sync_data, at a timed sync: a peer whose top block we lack.
TimedSync(c) ==
  LET height == Len(Chain[c])
      wanted == Last(Chain[c]) \notin core
  IN  /\ CanHandle(c)
      /\ ctx[c].state # "synchronizing" /\ ctx[c].callbacks < MaxCallbacks
      /\ ctx' = [ctx EXCEPT ![c].remote = height,
                            ![c].state = IF wanted THEN "synchronizing" ELSE "normal",
                            ![c].callbacks = @ + IF wanted THEN 1 ELSE 0]
      /\ UNCHANGED <<core, chain, queue, open, thread, m_sync_lock>>

\* on_connection_close
Close(c) ==
  /\ c \in open \cap Slow
  /\ drop_connection(c, ctx[c], queue, FALSE)
  /\ UNCHANGED <<core, chain, thread, m_sync_lock>>

FirstContext(c) ==
  [state |-> "synchronizing", needed |-> <<>>, asked |-> {}, last |-> 0, remote |-> Len(Chain[c]),
   known |-> {}, waiting |-> FALSE, callbacks |-> 1, unanswered |-> <<>>]

Init ==
  /\ core = {genesis}
  /\ chain = <<genesis>>
  /\ queue = EmptyQueue
  /\ ctx = [c \in Conns |-> FirstContext(c)]
  /\ open = Conns
  /\ thread = [c \in Conns |-> Idle]
  /\ m_sync_lock = {}

\* A thread in a handler goes on.
Work(c) ==
  \/ StopAdding(c) \/ OldSpan(c) \/ TakeSpan(c) \/ Process(c) \/ ResetNextSpan(c)
  \/ ParentMissing(c) \/ GoBack(c)

\* A message of the peer.
Answer(c) == ChainEntry(c) \/ Blocks(c)

Next ==
  \E c \in Conns :
    \/ Work(c) \/ Answer(c) \/ OnCallback(c)
    \/ KickIdle(c) \/ CheckStandby(c) \/ TimedSync(c) \/ Close(c)

Spec == Init /\ [][Next]_vars

\* Threads run on, callbacks and timers fire, and the peers that are not slow
\* answer.
FairSpec ==
  /\ Spec
  /\ \A c \in Conns :
       WF_vars(Work(c)) /\ WF_vars(OnCallback(c)) /\ WF_vars(CheckStandby(c)) /\ WF_vars(KickIdle(c))
  /\ \A c \in Conns \ Slow : WF_vars(Answer(c)) /\ WF_vars(TimedSync(c))

-----------------------------------------------------------------------------
(* Properties. *)

SpanRecord ==
  [hashes : Seq(Block), blocks : Seq(Block), conn : Conns, nblocks : Nat \ {0}]

\* The spans, connections and threads of block_queue and request_missing_objects
\* are what the code takes them for.
TypeOK ==
  /\ core \subseteq Block /\ chain \in Seq(core \ Invalid)
  /\ queue.requested \subseteq Block /\ queue.have \subseteq Block
  /\ \A h \in Starts(queue) : h \in Nat \ {0} /\ queue.spans[h] \in SpanRecord
  /\ \A c \in Conns :
       /\ ctx[c].state \in {"synchronizing", "standby", "normal"}
       /\ ctx[c].needed \in Seq(Block) /\ ctx[c].asked \subseteq Block
       /\ ctx[c].last \in Nat /\ ctx[c].remote \in Nat /\ ctx[c].callbacks \in Nat
       /\ \A i \in DOMAIN ctx[c].unanswered :
            LET r == ctx[c].unanswered[i]
            IN  r.kind = "blocks" => r.hashes \in Seq(Block) /\ r.hashes # <<>>
  /\ open \subseteq Conns
  /\ m_sync_lock = {c \in Conns : thread[c].at \in {"adding", "processing", "stopping"}}

\* block_queue: a hash counts as requested, or as there, only while a span, or a
\* span with blocks, lists it: however spans are flushed, taken over and removed,
\* no block is skipped that nobody downloads.
HashesHaveSpans ==
  LET Listed(S) == UNION {Range(queue.spans[h].hashes) : h \in S}
  IN  /\ queue.requested \subseteq Listed(Starts(queue))
      /\ queue.have \subseteq Listed(FilledStarts(queue))

\* The handler met a block that fails, dropped the peer it came from and returned:
\* nothing is requested for the connection whose handler this was.
GaveUp(c) == thread[c].at = "idle" /\ thread[c].blocks # <<>>

\* A connection that synchronizes always waits for an answer or a callback, or
\* else nothing would ever make it go on, unless its handler gave up on a block
\* that another peer sent.
NeverWedged ==
  \A c \in open :
    (ctx[c].state = "synchronizing" /\ thread[c].at = "idle" /\ ~GaveUp(c))
      => ctx[c].unanswered # <<>> \/ ctx[c].callbacks > 0

\* reset_next_span_time asserts that the next span is scheduled, as the call of
\* get_next_span_if_scheduled before it found.
NextSpanScheduled ==
  \A c \in Conns : thread[c].at = "requesting" => get_next_span_if_scheduled(queue) # {}

\* A node downloads the chain of a peer that stays connected and answers, whatever
\* the other peers do, unless the handler of that peer gave up on a block.
ChainArrives ==
  \A c \in Conns \ Slow :
    <>(\/ c \notin open \/ GaveUp(c)
       \/ Range(Chain[c]) \subseteq core \cup UNION {Range(queue.spans[h].blocks) : h \in Starts(queue)})

\* ... and adds it: "if we can add blocks instead, do so", says the comment in
\* request_missing_objects on a connection that has nothing left to ask for.
ChainAdded ==
  \A c \in Conns \ Slow : <>(c \notin open \/ GaveUp(c) \/ Range(Chain[c]) \subseteq core)
=============================================================================
