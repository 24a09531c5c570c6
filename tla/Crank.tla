-------------------------------- MODULE Crank --------------------------------
(***************************************************************************)
(* The crank of a fixed-term market (libraries/rust/margin/src/fixed_term  *)
(* and util, run by tools/crank-service): an event consumer that copies    *)
(* the event queue and the margin users, builds a transaction for the next *)
(* events and sends it, and a settler that settles the margin accounts of  *)
(* the consumed events in batches of concurrent chunks, retrying the ones  *)
(* that fail.  The two tasks share a queue without duplicates.  The market *)
(* itself goes on changing underneath; of it the module keeps what the     *)
(* crank sees: the queue, the users' sequence numbers and whether an       *)
(* account has to be settled.                                              *)
(*                                                                         *)
(* Every await of the code ends a step.  A transaction that is confirmed   *)
(* has landed.  One that is reported as failed may have landed, may land   *)
(* later or never: the consumer forgets its accounts all the same, and the *)
(* settler, whose chunks may land in part, keeps a failed chunk whole.     *)
(***************************************************************************)
EXTENDS Naturals, FiniteSets, SequencesExt

CONSTANTS
  Accounts,             \* margin accounts with orders in the market
  Events,               \* the events the market produces
  MAX_EVENTS_PER_TX,
  batch_size, chunk_size,
  MaxEvents,            \* bound: events the market produces
  MaxTakes,             \* bound: sequence numbers used up by taker orders
  MaxFaults,            \* bound: calls of the RPC node that fail
  MaxTasks              \* bound: batches spawned that have not started

ASSUME CrankAssumption ==
  /\ \A e \in Events : e.opens \in BOOLEAN
  /\ MAX_EVENTS_PER_TX \in Nat \ {0, 1}
  /\ {batch_size, chunk_size, MaxTasks} \subseteq Nat \ {0}
  /\ {MaxEvents, MaxTakes, MaxFaults} \subseteq Nat

VARIABLES
  \* the market
  events,      \* its event queue
  seqno,       \* next sequence number of each margin user's term accounts
  unsettled,   \* margin accounts whose notes are behind their margin user
  late,        \* transactions reported as failed that may be executed yet
  missed,      \* accounts of events consumed by a transaction reported as failed, until
               \* they are settled or an event of theirs is consumed and confirmed
  \* the event consumer
  step,        \* where sync_and_consume_all stands
  queue,       \* MarketState.queue, the copy of the event queue
  users,       \* MarketState.users, the copy of the sequence numbers
  tx,          \* the transaction sent, with the account addresses it names
  to_settle,   \* margin_accounts_to_settle of consume_next
  \* the settler
  input_queue, retry_queue,
  main,        \* where process_all stands
  spawned,     \* batches spawned that have not taken their items yet
  chunks,      \* calls of the chunk processor under way
  \* bounds
  produced, taken, faults

market == <<events, seqno, unsettled, late, missed>>
consumer == <<step, queue, users, tx, to_settle>>
settler == <<input_queue, retry_queue, main, spawned, chunks>>
bounds == <<produced, taken, faults>>
vars == <<market, consumer, settler, bounds>>

-----------------------------------------------------------------------------
(* NoDupeQueue *)

EmptyQueue == [list |-> <<>>, set |-> {}]

push(q, item) ==
  IF item \in q.set THEN q
    ELSE [list |-> Append(q.list, item), set |-> q.set \cup {item}]

push_many(q, items) ==
  LET after[n \in 0 .. Len(items)] == IF n = 0 THEN q ELSE push(after[n - 1], items[n])
  IN  after[Len(items)]

FirstItems(q, max) == SubSeq(q.list, 1, IF max < Len(q.list) THEN max ELSE Len(q.list))

\* Slip: what was popped still counts as queued.
pop_many_remembers(q, max) ==
  [q EXCEPT !.list = SubSeq(@, Len(FirstItems(q, max)) + 1, Len(@))]

pop_many(q, max) ==
  [list |-> SubSeq(q.list, Len(FirstItems(q, max)) + 1, Len(q.list)),
   set  |-> q.set \ ToSet(FirstItems(q, max))]

-----------------------------------------------------------------------------
(* Events and transactions *)

\* An event has the account it is paid to: a margin account or, none of Accounts, one of a
\* wallet.  It opens a term account if it fills a margin user's loan or a staked deposit.

\* A wallet's deposit has an address of eight seed bytes that come with the transaction,
\* a margin user's one of its sequence number.
StakedFill(e) == e.opens /\ e.account \notin Accounts

\* events before the i-th that use up a sequence number of the same user
Earlier(s, i) == Cardinality({j \in 1..(i - 1) : s[j].opens /\ s[j].account = s[i].account})

\* sequence numbers of the users after the events s
Advanced(numbers, s) ==
  [a \in Accounts |-> numbers[a] + Cardinality({j \in DOMAIN s : s[j].opens /\ s[j].account = a})]

MarginAccountsOf(s) ==
  LET found[n \in 0 .. Len(s)] ==
        CASE n = 0 -> <<>>
          [] n > 0 /\ s[n].account \in Accounts -> Append(found[n - 1], s[n].account)
          [] OTHER -> found[n - 1]
  IN  found[Len(s)]

Init ==
  /\ events = <<>> /\ unsettled = {} /\ late = <<>> /\ missed = {} /\ seqno = [a \in Accounts |-> 0]
  /\ step = "sync_queues" /\ queue = <<>> /\ users = seqno /\ tx = <<>> /\ to_settle = <<>>
  /\ input_queue = EmptyQueue /\ retry_queue = EmptyQueue
  /\ main = "process_all" /\ spawned = 0 /\ chunks = <<>>
  /\ produced = 0 /\ taken = 0 /\ faults = 0

-----------------------------------------------------------------------------
(* The market's users *)

\* An order is matched or cancelled.
NewEvent ==
  /\ produced < MaxEvents
  /\ \E e \in Events : events' = Append(events, e)
  /\ produced' = produced + 1
  /\ UNCHANGED <<seqno, unsettled, late, missed, consumer, settler, taken, faults>>

\* A taker's order opens a term account at once.
Take ==
  /\ taken < MaxTakes
  /\ \E a \in Accounts : seqno' = [seqno EXCEPT ![a] = @ + 1]
  /\ taken' = taken + 1
  /\ UNCHANGED <<events, unsettled, late, missed, consumer, settler, produced, faults>>

-----------------------------------------------------------------------------
(* EventConsumer::sync_and_consume_all *)

sync_queues ==
  /\ step = "sync_queues"
  /\ queue' = events
  /\ step' = IF events = <<>> THEN "sync_queues" ELSE "sync_users"
  /\ UNCHANGED <<market, users, tx, to_settle, settler, bounds>>

sync_users ==
  /\ step = "sync_users"
  /\ users' = seqno
  /\ step' = "consume"
  /\ UNCHANGED <<market, queue, tx, to_settle, settler, bounds>>

\* the call fails, sync_and_consume_forever starts over
SyncFails ==
  /\ step \in {"sync_queues", "sync_users"} /\ faults < MaxFaults
  /\ faults' = faults + 1
  /\ step' = "sync_queues"
  /\ UNCHANGED <<market, queue, users, tx, to_settle, settler, produced, taken>>

\* events whose accounts are prepared; when the limit is reached the transaction with
\* the last of them is not kept
Prepared(q) == IF Len(q) < MAX_EVENTS_PER_TX THEN q ELSE SubSeq(q, 1, MAX_EVENTS_PER_TX)
Kept(q) == IF Len(q) < MAX_EVENTS_PER_TX THEN q ELSE SubSeq(q, 1, MAX_EVENTS_PER_TX - 1)

\* whether the address of a term account follows from a sequence number
Numbered(e) == e.opens /\ e.account \in Accounts

\* Slip: every event of the batch gets the user's first sequence number.
margin_fill_accounts_same(s, i) ==
  [event |-> s[i], seqno |-> IF Numbered(s[i]) THEN users[s[i].account] ELSE 0]

margin_fill_accounts(s, i) ==
  [event |-> s[i],
   seqno |-> IF Numbered(s[i]) THEN users[s[i].account] + Earlier(s, i) ELSE 0]

consume_next ==
  /\ step = "consume"
  /\ tx' = [i \in DOMAIN Kept(queue) |-> margin_fill_accounts(queue, i)]
  /\ to_settle' = MarginAccountsOf(Prepared(queue))
  /\ users' = Advanced(users, Prepared(queue))
  /\ queue' = SubSeq(queue, Len(Prepared(queue)) + 1, Len(queue))
  /\ step' = "send"
  /\ UNCHANGED <<market, settler, bounds>>

\* what a transaction finds of the events it was made for
Found(t) == SubSeq(events, 1, IF Len(t) <= Len(events) THEN Len(t) ELSE Len(events))

\* The market accepts a transaction that names the accounts of the events it finds, in
\* their order; what is left over at the end of the list does no harm.  No seed of the
\* consumer opens a wallet's deposit: sixteen random bytes do not fit, and the sequence
\* number of a later event is not the seed the address was made of.
Accepted(t) ==
  /\ Found(t) # <<>>
  /\ \A i \in DOMAIN Found(t) :
       /\ t[i].event.account = events[i].account
       /\ ~StakedFill(t[i].event) /\ ~StakedFill(events[i])
       /\ events[i].opens =>
            t[i].event.opens /\ t[i].seqno = seqno[events[i].account] + Earlier(events, i)
       /\ t[i].event.opens => events[i].opens \/ i = Len(Found(t))

Consumes(t) ==
  /\ seqno' = Advanced(seqno, Found(t))
  /\ unsettled' = unsettled \cup ToSet(MarginAccountsOf(Found(t)))
  /\ events' = SubSeq(events, Len(Found(t)) + 1, Len(events))

Lands ==
  /\ step = "send" /\ Accepted(tx) /\ Consumes(tx)
  /\ step' = "confirm"
  /\ UNCHANGED <<late, missed, queue, users, tx, to_settle, settler, bounds>>

\* the error is logged, the loop goes on with the next sync
Rejected ==
  /\ step = "send" /\ ~Accepted(tx)
  /\ step' = "sync_queues"
  /\ tx' = <<>> /\ to_settle' = <<>>
  /\ UNCHANGED <<market, queue, users, settler, bounds>>

\* the margin accounts a transaction is made for
TxAccounts(t) == {t[i].event.account : i \in DOMAIN t} \cap Accounts

\* Sending or confirming fails, whatever the network does with the transaction: the
\* accounts to settle are dropped.
SendFails ==
  /\ step \in {"send", "confirm"} /\ faults < MaxFaults
  /\ faults' = faults + 1
  /\ IF step = "send" THEN late' = Append(late, tx) /\ UNCHANGED missed
       ELSE missed' = missed \cup TxAccounts(tx) /\ UNCHANGED late
  /\ step' = "sync_queues"
  /\ tx' = <<>> /\ to_settle' = <<>>
  /\ UNCHANGED <<events, seqno, unsettled, queue, users, settler, produced, taken>>

\* Nobody waits for the transaction any more.
LandsLate ==
  /\ \E i \in DOMAIN late :
       /\ Accepted(late[i]) /\ Consumes(late[i])
       /\ missed' = missed \cup ToSet(MarginAccountsOf(Found(late[i])))
       /\ late' = RemoveAt(late, i)
  /\ UNCHANGED <<consumer, settler, bounds>>

Confirmed ==
  /\ step = "confirm"
  /\ input_queue' = push_many(input_queue, to_settle)
  /\ missed' = missed \ ToSet(to_settle)
  /\ step' = "sync_queues"
  /\ tx' = <<>> /\ to_settle' = <<>>
  /\ UNCHANGED <<events, seqno, unsettled, late, queue, users,
                 retry_queue, main, spawned, chunks, bounds>>

-----------------------------------------------------------------------------
(* QueueProcessor::process_forever around process_all, with try_settle *)

MoreToSpawn == IF input_queue.list = <<>> THEN "join" ELSE "spawn"

process_all ==
  /\ main = "process_all" /\ input_queue.list # <<>>
  /\ main' = "spawn"
  /\ UNCHANGED <<market, consumer, input_queue, retry_queue, spawned, chunks, bounds>>

\* the length of the queue is read again before the batch has taken its items
Spawn ==
  /\ main = "spawn" /\ spawned < MaxTasks
  /\ spawned' = spawned + 1
  /\ main' = MoreToSpawn
  /\ UNCHANGED <<market, consumer, input_queue, retry_queue, chunks, bounds>>

\* s cut into chunks
Chunked(s) ==
  [i \in 1..((Len(s) + chunk_size - 1) \div chunk_size) |->
     [items  |-> SubSeq(s, (i - 1) * chunk_size + 1,
                        IF i * chunk_size < Len(s) THEN i * chunk_size ELSE Len(s)),
      landed |-> FALSE]]

process_batch ==
  /\ spawned > 0
  /\ spawned' = spawned - 1
  /\ chunks' = chunks \o Chunked(FirstItems(input_queue, batch_size))
  /\ input_queue' = pop_many(input_queue, batch_size)
  /\ UNCHANGED <<market, consumer, retry_queue, main, bounds>>

\* the settle instructions of the chunk land
try_settle ==
  /\ \E i \in DOMAIN chunks :
       /\ ~chunks[i].landed
       /\ chunks' = [chunks EXCEPT ![i].landed = TRUE]
       /\ unsettled' = unsettled \ ToSet(chunks[i].items)
       /\ missed' = missed \ ToSet(chunks[i].items)
  /\ UNCHANGED <<events, seqno, late, consumer, input_queue, retry_queue, main, spawned, bounds>>

ChunkDone ==
  /\ \E i \in DOMAIN chunks : chunks[i].landed /\ chunks' = RemoveAt(chunks, i)
  /\ UNCHANGED <<market, consumer, input_queue, retry_queue, main, spawned, bounds>>

\* Slip: a failed chunk is reported and forgotten.
ForRetry_none(items) == <<>>

\* what of a failed chunk is kept for a later batch
ForRetry(items) == Reverse(items)

\* some of the chunk's transactions landed, one did not or was not confirmed
ChunkFails ==
  /\ faults < MaxFaults
  /\ \E i \in DOMAIN chunks : \E settled \in SUBSET ToSet(chunks[i].items) :
       /\ ~chunks[i].landed
       /\ unsettled' = unsettled \ settled /\ missed' = missed \ settled
       /\ retry_queue' = push_many(retry_queue, ForRetry(chunks[i].items))
       /\ chunks' = RemoveAt(chunks, i)
  /\ faults' = faults + 1
  /\ UNCHANGED <<events, seqno, late, consumer, input_queue, main, spawned, produced, taken>>

\* all batches are joined; one batch of retries goes back to the input
Join ==
  /\ main = "join" /\ spawned = 0 /\ chunks = <<>>
  /\ input_queue' = push_many(input_queue, FirstItems(retry_queue, batch_size))
  /\ retry_queue' = pop_many(retry_queue, batch_size)
  /\ main' = IF input_queue'.list = <<>> THEN "process_all" ELSE "spawn"
  /\ UNCHANGED <<market, consumer, spawned, chunks, bounds>>

-----------------------------------------------------------------------------
ConsumerNext == sync_queues \/ sync_users \/ consume_next \/ Lands \/ Rejected \/ Confirmed
SettlerNext == process_all \/ Spawn \/ Join

Next ==
  \/ NewEvent \/ Take
  \/ ConsumerNext \/ SyncFails \/ SendFails \/ LandsLate
  \/ SettlerNext \/ process_batch \/ try_settle \/ ChunkDone \/ ChunkFails

Spec == Init /\ [][Next]_vars

\* run_forever keeps the consumer and the settler in loops that never end, and the
\* runtime runs every task that is ready; nothing makes the network fail, or execute a
\* transaction it has not confirmed.
FairSpec ==
  /\ Spec
  /\ WF_vars(ConsumerNext) /\ WF_vars(SettlerNext)
  /\ WF_vars(process_batch) /\ WF_vars(try_settle) /\ WF_vars(ChunkDone)

-----------------------------------------------------------------------------
(* Properties *)

InFlight == UNION {ToSet(chunks[i].items) : i \in DOMAIN chunks}
Tracked == ToSet(input_queue.list) \cup ToSet(retry_queue.list) \cup InFlight \cup ToSet(to_settle)

\* Settler and consumer only know of an account what is in their queues
\* (event_consumer.rs:412-415, queue_processor.rs:134-138, 171-177).  An account that has
\* to be settled is always in one of them or in a call under way, whatever was pushed
\* while it was being settled, refused as a duplicate or put back for a retry.  The one
\* way to lose an account is a consume transaction that was executed and reported as
\* failed: its accounts are found again only with their next event.
PendingIsTracked == unsettled \subseteq Tracked \cup missed

\* The wallet's staked fill that holds up the transactions of the consumer, with the events
\* before it in the batch.
Blocked ==
  \E i \in DOMAIN events : i < MAX_EVENTS_PER_TX /\ StakedFill(events[i])

\* The consumer guesses the addresses of the accounts the next events create from copied
\* sequence numbers (event_consumer.rs:420-487).  Taker orders move the numbers under
\* it, transactions fail, land late or on a queue that has moved on, and the batch holds
\* one event less than was prepared: the event queue is emptied all the same, unless a
\* staked deposit of a wallet comes up, which the consumer has no seed for
\* (event_consumer.rs:525-532, queue_iterator.rs:108-114, 138-141) and never gets past.
EventsAreConsumed == (events # <<>>) ~> (events = <<>> \/ Blocked)

\* Every margin account with a consumed event is settled in the end (fixed_term/mod.rs:
\* run_forever), although chunks fail in part and are retried one batch at a time, and
\* new events arrive for accounts whose settlement is under way; unless the transaction
\* was reported as failed, which leaves the account until its next confirmed event.
ConsumedIsSettled == \A a \in Accounts : (a \in unsettled) ~> (a \notin unsettled \/ a \in missed)

=============================================================================
