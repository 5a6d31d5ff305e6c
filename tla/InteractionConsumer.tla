------------------------ MODULE InteractionConsumer ------------------------
(***************************************************************************)
(* app/workers/interaction_consumer.py and app/services/interaction_service  *)
(* .py: producers append events to a Redis stream, workers of one consumer   *)
(* group read them, insert rows and acknowledge.                             *)
(*                                                                           *)
(* The stream is append-only; an entry's number is its ID.  A worker's page  *)
(* is the answer of its last read, handled in the order of the IDs.  Workers *)
(* with the same consumer name share one list of pending entries.            *)
(***************************************************************************)
EXTENDS Integers, FiniteSets

CONSTANTS
    Events,
    Local,         \* events of create_interaction; others come from elsewhere
    Malformed,     \* payloads _parse_event rejects
    Workers,
    Names,         \* consumer names ...
    Name,          \* ... INTERACTIONS_CONSUMER_NAME of each worker
    NoEvent,
    ReadCount, DrainCount,
    MaxLen,        \* INTERACTIONS_MAXLEN
    MaxEntries,    \* bound on the entries published
    MaxStops,      \* bound on shutdowns and crashes
    MaxFailures    \* bound on failed commits and lost answers

ASSUME InteractionAssumption ==
    /\ Local \subseteq Events /\ Malformed \subseteq Events \ Local
    /\ NoEvent \notin Events
    /\ Name \in [Workers -> Names]
    /\ {ReadCount, DrainCount, MaxLen} \subseteq Nat \ {0}
    /\ {MaxEntries, MaxStops, MaxFailures} \subseteq Nat

VARIABLES
    api,        \* where create_interaction is, for each local event
    offered,    \* events that exist
    log,        \* the stream's entries, trimmed ones included
    last,       \* ID of the last entry
    trimmed,    \* IDs up to this one are no longer in the stream
    delivered,  \* entries the group has handed out
    pending,    \* pending entries list of each consumer name
    rows,       \* events with a row in interactions
    worker,     \* what each worker process is doing
    stops, failures,
    parked      \* history: entries a failure left pending, not yet read again

stream == <<log, last, trimmed>>
group == <<delivered, pending>>
vars == <<api, offered, stream, group, rows, worker, stops, failures, parked>>

Entries == 1..MaxEntries

\* blank: entries of the page that came without fields.
Worker == [mode : {"down", "drain", "run"}, page : SUBSET Entries, blank : SUBSET Entries,
           cursor : 0..MaxEntries, stored : BOOLEAN]
Idle(mode) == [mode |-> mode, page |-> {}, blank |-> {}, cursor |-> 0, stored |-> FALSE]
Down == Idle("down")

First(n, ids) == {i \in ids : Cardinality({j \in ids : j < i}) < n}

---------------------------------------------------------------------------
(* Producers                                                               *)

\* XADD with an approximate MAXLEN: at least MaxLen entries stay.
Add(e) ==
    /\ last < MaxEntries
    /\ last' = last + 1
    /\ log' = [log EXCEPT ![last + 1] = e]
    /\ trimmed' \in {trimmed} \cup {i \in Entries : trimmed < i /\ i <= last + 1 - MaxLen}

\* create_interaction: build once, ...
LocalBuild(e) ==
    /\ api[e] = "idle"
    /\ api' = [api EXCEPT ![e] = "persist"]
    /\ offered' = offered \cup {e}
    /\ UNCHANGED <<stream, group, rows, worker, stops, failures, parked>>

\* ... persist_interaction, which swallows a failed commit, ...
LocalPersist(e) ==
    /\ api[e] = "persist"
    /\ api' = [api EXCEPT ![e] = "publish"]
    /\ rows' \in {rows, rows \cup {e}}
    /\ UNCHANGED <<offered, stream, group, worker, stops, failures, parked>>

\* ... publish_interaction, which swallows an unreachable Redis.
LocalPublish(e) ==
    /\ api[e] = "publish"
    /\ api' = [api EXCEPT ![e] = "done"]
    /\ Add(e) \/ UNCHANGED stream
    /\ UNCHANGED <<offered, group, rows, worker, stops, failures, parked>>

\* A producer of its own (RAG) adds its entry, again when it is not sure.
RemotePublish(e) ==
    /\ Add(e)
    /\ offered' = offered \cup {e}
    /\ UNCHANGED <<api, group, rows, worker, stops, failures, parked>>

---------------------------------------------------------------------------
(* The worker                                                              *)

Update(w, state) == worker' = [worker EXCEPT ![w] = state]
Pending(w) == pending[Name[w]]

\* Mutant of Start: straight to new entries.
StartWithoutDrain(w) ==
    /\ worker[w].mode = "down"
    /\ Update(w, Idle("run"))
    /\ UNCHANGED <<api, offered, stream, group, rows, stops, failures, parked>>

\* ensure_group, and on to _drain_own_pending.
Start(w) ==
    /\ worker[w].mode = "down"
    /\ Update(w, Idle("drain"))
    /\ UNCHANGED <<api, offered, stream, group, rows, stops, failures, parked>>

\* Mutant of Unseen: every page starts from "0".
UnseenFromZero(w) == Pending(w)

\* read_own_pending(start): pending entries after the cursor.
Unseen(w) == {i \in Pending(w) : i > worker[w].cursor}

\* One page of _drain_own_pending.  Entries trimmed from the stream are still
\* pending, and come without fields.
DrainRead(w) ==
    LET page == First(DrainCount, Unseen(w))
    IN  /\ worker[w].mode = "drain" /\ worker[w].page = {}
        /\ Unseen(w) # {}
        /\ \E i \in page :
              /\ \A j \in page : j <= i
              /\ Update(w, [worker[w] EXCEPT !.page = page, !.cursor = i,
                              !.blank = {j \in page : j <= trimmed}])
        /\ parked' = parked \ page
        /\ UNCHANGED <<api, offered, stream, group, rows, stops, failures>>

DrainDone(w) ==
    /\ worker[w].mode = "drain" /\ worker[w].page = {}
    /\ Unseen(w) = {}
    /\ Update(w, Idle("run"))
    /\ UNCHANGED <<api, offered, stream, group, rows, stops, failures, parked>>

\* What XREADGROUP ">" hands out next.
New == First(ReadCount, {i \in Entries : trimmed < i /\ i <= last /\ \A j \in delivered : j < i})

Reading(w) == worker[w].mode = "run" /\ worker[w].page = {}

Deliver(w) ==
    /\ New # {}
    /\ delivered' = delivered \cup New
    /\ pending' = [pending EXCEPT ![Name[w]] = @ \cup New]

ReadNew(w) ==
    /\ Reading(w)
    /\ Deliver(w)
    /\ Update(w, [Idle("run") EXCEPT !.page = New])
    /\ UNCHANGED <<api, offered, stream, rows, stops, failures, parked>>

\* Redis answered, the worker's socket timed out or broke: run() takes it for
\* an empty answer and goes on.
ReadLost(w) ==
    /\ Reading(w)
    /\ failures < MaxFailures
    /\ failures' = failures + 1
    /\ Deliver(w)
    /\ parked' = parked \cup New
    /\ UNCHANGED <<api, offered, stream, rows, worker, stops>>

\* An idle stream, or a read that failed before it was answered.
ReadEmpty(w) ==
    /\ Reading(w)
    /\ UNCHANGED vars

\* handle_message, for the first entry of the page that is not dealt with.
Handles(w, i) ==
    /\ worker[w].mode # "down"
    /\ i \in worker[w].page /\ \A j \in worker[w].page : i <= j

\* Mutant of Parses: what is not blank is taken as it comes.
ParsesUnchecked(w, i) == i \notin worker[w].blank

Parses(w, i) == i \notin worker[w].blank /\ log[i] \notin Malformed

\* Mutant of Handled: the outcome is carried over to the next message.
HandledKeepsFlag(w, i) == Update(w, [worker[w] EXCEPT !.page = @ \ {i}])

Handled(w, i) == Update(w, [worker[w] EXCEPT !.page = @ \ {i}, !.stored = FALSE])

\* KeyError, JSONDecodeError, ValidationError: logged, left pending.
ParseFails(w, i) ==
    /\ Handles(w, i) /\ ~Parses(w, i)
    /\ Handled(w, i)
    /\ UNCHANGED <<api, offered, stream, group, rows, stops, failures, parked>>

\* persist_interaction returns the new row, or the one that was there.
Persist(w, i) ==
    /\ Handles(w, i) /\ Parses(w, i) /\ ~worker[w].stored
    /\ rows' = rows \cup {log[i]}
    /\ Update(w, [worker[w] EXCEPT !.stored = TRUE])
    /\ UNCHANGED <<api, offered, stream, group, stops, failures, parked>>

\* Mutant of PersistFails: a failed write is acknowledged like any other.
PersistFailsAcks(w, i) ==
    /\ Handles(w, i) /\ Parses(w, i) /\ ~worker[w].stored
    /\ failures < MaxFailures
    /\ failures' = failures + 1
    /\ Update(w, [worker[w] EXCEPT !.stored = TRUE])
    /\ UNCHANGED <<api, offered, stream, group, rows, stops, parked>>

\* persist_interaction returns None; the commit may have happened all the same.
PersistFails(w, i) ==
    /\ Handles(w, i) /\ Parses(w, i) /\ ~worker[w].stored
    /\ failures < MaxFailures
    /\ failures' = failures + 1
    /\ rows' \in {rows, rows \cup {log[i]}}
    /\ parked' = parked \cup {i}
    /\ Handled(w, i)
    /\ UNCHANGED <<api, offered, stream, group, stops>>

\* XACK, which does nothing to an entry that another process acknowledged.
Ack(w, i) ==
    /\ Handles(w, i) /\ worker[w].stored
    /\ pending' = [pending EXCEPT ![Name[w]] = @ \ {i}]
    /\ Handled(w, i)
    /\ UNCHANGED <<api, offered, stream, delivered, rows, stops, failures, parked>>

\* SIGTERM: the flag is looked at between two reads.
Shutdown(w) ==
    /\ Reading(w)
    /\ stops < MaxStops
    /\ stops' = stops + 1
    /\ Update(w, Down)
    /\ UNCHANGED <<api, offered, stream, group, rows, failures, parked>>

\* The process is killed, or an exception run() does not catch ends it.
Crash(w) ==
    /\ worker[w].mode # "down"
    /\ stops < MaxStops
    /\ stops' = stops + 1
    /\ Update(w, Down)
    /\ UNCHANGED <<api, offered, stream, group, rows, failures, parked>>

---------------------------------------------------------------------------
Init ==
    /\ api = [e \in Local |-> "idle"]
    /\ offered = {}
    /\ log = [i \in Entries |-> NoEvent]
    /\ last = 0 /\ trimmed = 0
    /\ delivered = {}
    /\ pending = [n \in Names |-> {}]
    /\ rows = {}
    /\ worker = [w \in Workers |-> Down]
    /\ stops = 0 /\ failures = 0
    /\ parked = {}

\* What a live worker does by itself.
Work(w) ==
    \/ Start(w) \/ DrainRead(w) \/ DrainDone(w) \/ ReadNew(w)
    \/ \E i \in Entries : ParseFails(w, i) \/ Persist(w, i) \/ Ack(w, i)

Next ==
    \/ \E e \in Local : LocalBuild(e) \/ LocalPersist(e) \/ LocalPublish(e)
    \/ \E e \in Events \ Local : RemotePublish(e)
    \/ \E w \in Workers :
          \/ Work(w)
          \/ ReadLost(w) \/ ReadEmpty(w) \/ Shutdown(w) \/ Crash(w)
          \/ \E i \in Entries : PersistFails(w, i)

Spec == Init /\ [][Next]_vars

\* A worker that runs takes its next step, and one that stopped is started
\* again (by the container platform).
FairSpec == Spec /\ \A w \in Workers : WF_vars(Work(w))

---------------------------------------------------------------------------
(* Properties                                                              *)

\* The stream, the group, the ledger and the workers have their types, and a
\* worker with an outcome to act on has the message it belongs to.
TypeOK ==
    /\ api \in [Local -> {"idle", "persist", "publish", "done"}]
    /\ offered \subseteq Events /\ rows \subseteq Events
    /\ log \in [Entries -> Events \cup {NoEvent}]
    /\ last \in 0..MaxEntries /\ trimmed \in 0..MaxEntries
    /\ delivered \subseteq Entries /\ parked \subseteq Entries
    /\ pending \in [Names -> SUBSET Entries]
    /\ worker \in [Workers -> Worker]
    /\ \A w \in Workers : worker[w].stored => worker[w].page # {}
    /\ stops \in 0..MaxStops /\ failures \in 0..MaxFailures

\* handle_message: "never dropped".  An entry that was handed out is pending
\* for some consumer until its event has a row, whichever worker died where.
NothingDropped ==
    \A i \in delivered : log[i] \in rows \/ \E n \in Names : i \in pending[n]

\* The entries no reader of the group will see again.
Settled == {i \in delivered : \A n \in Names : i \notin pending[n]}

Ledger == INSTANCE InteractionLedger WITH
    Valid <- Events \ Malformed, ledger <- rows, settled <- {log[i] : i \in Settled}

\* Producers, stream and workers together implement the ledger: only events
\* that were made and are well formed get a row, none loses it, and no entry
\* is acknowledged before its row is there.
ImplementsLedger == Ledger!Spec

\* _drain_own_pending ends, also when entries stay pending after they were
\* tried: the worker gets to new entries (or dies).
DrainEnds == \A w \in Workers : worker[w].mode = "drain" ~> worker[w].mode # "drain"

\* A well-formed entry gets its row, through crashes and restarts, unless the
\* stream was trimmed past it or a failed commit or lost answer parked it in
\* the pending list, where only the next start looks.
PublishedIsStored ==
    \A i \in Entries :
        (i <= last /\ log[i] \notin Malformed)
            ~> (log[i] \in rows \/ i <= trimmed \/ i \in parked)

=============================================================================
