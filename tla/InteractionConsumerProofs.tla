--------------------- MODULE InteractionConsumerProofs ---------------------
(***************************************************************************)
(* For any producers, workers, names and bounds: the types, that nothing is  *)
(* dropped, and that the pipeline implements the ledger.                     *)
(***************************************************************************)
EXTENDS InteractionConsumer, TLAPS

\* What is in the stream, and what the API is about to write, exists.
OfferedInv ==
    /\ \A i \in Entries : i <= last => log[i] \in offered
    /\ \A e \in Local : api[e] # "idle" => e \in offered

\* Pending and read entries were delivered, and delivered ones published.
GroupInv ==
    /\ \A i \in delivered : i <= last
    /\ \A n \in Names : pending[n] \subseteq delivered
    /\ \A w \in Workers : worker[w].page \subseteq delivered

\* A worker about to acknowledge has the row.
StoredInv ==
    \A w \in Workers, i \in Entries :
        Handles(w, i) /\ worker[w].stored => log[i] \in rows

Inv == TypeOK /\ OfferedInv /\ GroupInv /\ StoredInv /\ NothingDropped

---------------------------------------------------------------------------
\* The first entries of a set are entries of the set (COUNT of a read).
LEMMA FirstSubset ==
    ASSUME NEW n, NEW ids
    PROVE  First(n, ids) \subseteq ids
BY DEF First

\* XREADGROUP ">" hands out published entries that were never handed out.
LEMMA NewIsNew ==
    /\ New \subseteq Entries
    /\ \A i \in New : i <= last /\ (\A j \in delivered : j < i)
BY FirstSubset DEF New

\* The bounds are numbers, and IDs are among the cursors.
LEMMA Bounds ==
    /\ MaxEntries \in Nat /\ MaxStops \in Nat /\ MaxFailures \in Nat
    /\ 0 \in 0..MaxEntries /\ 0 \in 0..MaxStops /\ 0 \in 0..MaxFailures
    /\ \A i \in Entries : i \in 0..MaxEntries
<1>1. MaxEntries \in Nat /\ MaxStops \in Nat /\ MaxFailures \in Nat
  BY InteractionAssumption
<1> QED
  BY <1>1 DEF Entries

\* A worker without a page is one.
LEMMA IdleTyped ==
    ASSUME NEW m \in {"down", "drain", "run"}
    PROVE  /\ Idle(m) \in Worker
           /\ Idle(m).page = {} /\ Idle(m).stored = FALSE
BY InteractionAssumption DEF Idle, Worker, Entries

\* The empty system satisfies the invariant.
LEMMA InitInv == Init => Inv
<1> SUFFICES ASSUME Init PROVE Inv
  OBVIOUS
<1> USE InteractionAssumption
<1>1. worker \in [Workers -> Worker] /\ \A w \in Workers : worker[w] = Down
  BY IdleTyped DEF Init, Down
<1>2. TypeOK
  BY <1>1, IdleTyped, Bounds DEF Init, TypeOK, Down
<1>3. OfferedInv
  BY DEF Init, OfferedInv, Entries
<1>4. GroupInv
  BY <1>1, IdleTyped DEF Init, GroupInv, Down
<1>5. StoredInv
  BY <1>1, IdleTyped DEF StoredInv, Down
<1>6. NothingDropped
  BY DEF Init, NothingDropped
<1> QED
  BY <1>2, <1>3, <1>4, <1>5, <1>6 DEF Inv

\* XADD changes nothing of the entries that are there.
LEMMA AddKeeps ==
    ASSUME TypeOK, NEW e \in Events, Add(e)
    PROVE  /\ log' \in [Entries -> Events \cup {NoEvent}]
           /\ last' \in 0..MaxEntries /\ trimmed' \in 0..MaxEntries
           /\ last' = last + 1 /\ last + 1 \in Entries /\ log'[last + 1] = e
           /\ \A i \in Entries : i <= last => log'[i] = log[i]
BY InteractionAssumption DEF TypeOK, Add, Entries

\* The producers keep the invariant.
LEMMA ProducerInv ==
    ASSUME Inv,
           \/ \E e \in Local : LocalBuild(e) \/ LocalPersist(e) \/ LocalPublish(e)
           \/ \E e \in Events \ Local : RemotePublish(e)
    PROVE  Inv'
<1> USE InteractionAssumption
<1>1. ASSUME NEW e \in Local, LocalBuild(e) PROVE Inv'
  <2> USE <1>1 DEF LocalBuild, stream, group, Inv
  <2>1. TypeOK'
    BY DEF TypeOK
  <2>2. OfferedInv'
    BY DEF OfferedInv, TypeOK
  <2>3. GroupInv' /\ StoredInv' /\ NothingDropped'
    BY DEF GroupInv, StoredInv, NothingDropped, Handles
  <2> QED
    BY <2>1, <2>2, <2>3
<1>2. ASSUME NEW e \in Local, LocalPersist(e) PROVE Inv'
  <2> USE <1>2 DEF LocalPersist, stream, group, Inv
  <2>1. TypeOK'
    BY DEF TypeOK
  <2>2. OfferedInv'
    BY DEF OfferedInv, TypeOK
  <2>3. GroupInv' /\ StoredInv' /\ NothingDropped'
    BY DEF GroupInv, StoredInv, NothingDropped, Handles
  <2> QED
    BY <2>1, <2>2, <2>3
<1>3. ASSUME NEW e \in Local, LocalPublish(e) PROVE Inv'
  <2> USE DEF Inv
  <2>1. CASE Add(e)
    <3> USE <1>3, <2>1, AddKeeps DEF LocalPublish, group
    <3>1. TypeOK'
      BY DEF TypeOK
    <3>2. OfferedInv'
      <4>1. \A i \in Entries : i <= last + 1 => i <= last \/ i = last + 1
        BY DEF TypeOK, Entries
      <4>2. e \in offered
        BY DEF OfferedInv
      <4> QED
        BY <4>1, <4>2 DEF OfferedInv, TypeOK
    <3>3. GroupInv'
      <4>1. \A i \in delivered : i <= last + 1
        BY DEF GroupInv, TypeOK, Entries
      <4> QED
        BY <4>1 DEF GroupInv
    <3>4. StoredInv'
      BY DEF StoredInv, Handles, GroupInv
    <3>5. NothingDropped'
      BY DEF NothingDropped, GroupInv, TypeOK
    <3> QED
      BY <3>1, <3>2, <3>3, <3>4, <3>5
  <2>2. CASE UNCHANGED stream
    <3> USE <1>3, <2>2 DEF LocalPublish, stream, group
    <3>1. TypeOK'
      BY DEF TypeOK
    <3>2. OfferedInv'
      BY DEF OfferedInv, TypeOK
    <3>3. GroupInv' /\ StoredInv' /\ NothingDropped'
      BY DEF GroupInv, StoredInv, NothingDropped, Handles
    <3> QED
      BY <3>1, <3>2, <3>3
  <2> QED
    BY <1>3, <2>1, <2>2 DEF LocalPublish
<1>4. ASSUME NEW e \in Events \ Local, RemotePublish(e) PROVE Inv'
  <2> USE <1>4, AddKeeps DEF RemotePublish, group, Inv
  <2>1. TypeOK'
    BY DEF TypeOK
  <2>2. OfferedInv'
    <3>1. \A i \in Entries : i <= last + 1 => i <= last \/ i = last + 1
      BY DEF TypeOK, Entries
    <3> QED
      BY <3>1 DEF OfferedInv, TypeOK
  <2>3. GroupInv'
    <3>1. \A i \in delivered : i <= last + 1
      BY DEF GroupInv, TypeOK, Entries
    <3> QED
      BY <3>1 DEF GroupInv
  <2>4. StoredInv'
    BY DEF StoredInv, Handles, GroupInv
  <2>5. NothingDropped'
    BY DEF NothingDropped, GroupInv, TypeOK
  <2> QED
    BY <2>1, <2>2, <2>3, <2>4, <2>5
<1> QED
  BY <1>1, <1>2, <1>3, <1>4

---------------------------------------------------------------------------
(* A step that leaves stream and producers alone keeps OfferedInv; one that  *)
(* changes only what workers do keeps more.                                  *)

\* Starting, stopping, dying and draining: only a worker's page changes, to
\* entries that were delivered, and nothing is about to be acknowledged.
LEMMA PageInv ==
    ASSUME Inv, NEW w \in Workers, NEW s \in Worker, Update(w, s),
           s.page \subseteq delivered, s.stored = FALSE,
           UNCHANGED <<api, offered, stream, group, rows>>,
           stops' \in 0..MaxStops, failures' \in 0..MaxFailures, parked' \subseteq Entries
    PROVE  Inv'
<1> USE InteractionAssumption DEF Inv, Update, stream, group
<1>1. \A v \in Workers : worker'[v] = IF v = w THEN s ELSE worker[v]
  BY DEF TypeOK
<1>2. TypeOK'
  BY <1>1 DEF TypeOK
<1>3. OfferedInv' /\ NothingDropped'
  BY DEF OfferedInv, NothingDropped
<1>4. GroupInv'
  BY <1>1 DEF GroupInv
<1>5. StoredInv'
  BY <1>1 DEF StoredInv, Handles
<1> QED
  BY <1>2, <1>3, <1>4, <1>5

\* Start, drain, shutdown and crash keep the invariant.
LEMMA LifeInv ==
    ASSUME Inv, NEW w \in Workers,
           Start(w) \/ DrainRead(w) \/ DrainDone(w) \/ Shutdown(w) \/ Crash(w)
    PROVE  Inv'
<1> USE InteractionAssumption DEF Inv
<1>1. CASE Start(w)
  BY <1>1, IdleTyped, PageInv DEF Start, TypeOK
<1>2. CASE DrainRead(w)
  <2> DEFINE page == First(DrainCount, Unseen(w))
  <2>1. page \subseteq delivered /\ page \subseteq Entries
    BY FirstSubset DEF Unseen, Pending, GroupInv, TypeOK
  <2> HIDE DEF page
  <2>2. PICK i \in page : Update(w, [worker[w] EXCEPT !.page = page, !.cursor = i,
                                        !.blank = {j \in page : j <= trimmed}])
    BY <1>2 DEF DrainRead, page
  <2>3. ~worker[w].stored
    BY <1>2 DEF DrainRead, TypeOK
  <2> DEFINE s == [worker[w] EXCEPT !.page = page, !.cursor = i,
                                    !.blank = {j \in page : j <= trimmed}]
  <2>4. s \in Worker /\ s.page = page /\ s.stored = FALSE
    <3>1. worker[w] \in Worker
      BY DEF TypeOK
    <3>2. i \in 0..MaxEntries
      BY <2>1, <2>2, Bounds
    <3>3. {j \in page : j <= trimmed} \in SUBSET Entries
      BY <2>1
    <3> QED
      BY <2>1, <2>3, <3>1, <3>2, <3>3 DEF Worker
  <2> HIDE DEF s
  <2>5. Update(w, s)
    BY <2>2 DEF s
  <2>6. /\ UNCHANGED <<api, offered, stream, group, rows>>
        /\ stops' \in 0..MaxStops /\ failures' \in 0..MaxFailures /\ parked' \subseteq Entries
    BY <1>2 DEF DrainRead, TypeOK
  <2> QED
    BY <2>1, <2>4, <2>5, <2>6, PageInv
<1>3. CASE DrainDone(w)
  BY <1>3, IdleTyped, PageInv DEF DrainDone, TypeOK
<1>4. CASE Shutdown(w)
  <2>1. stops' \in 0..MaxStops
    BY <1>4 DEF Shutdown, TypeOK
  <2> QED
    BY <1>4, <2>1, IdleTyped, PageInv DEF Shutdown, Down, TypeOK
<1>5. CASE Crash(w)
  <2>1. stops' \in 0..MaxStops
    BY <1>5 DEF Crash, TypeOK
  <2> QED
    BY <1>5, <2>1, IdleTyped, PageInv DEF Crash, Down, TypeOK
<1> QED
  BY <1>1, <1>2, <1>3, <1>4, <1>5

\* What XREADGROUP delivers is pending.
LEMMA DeliverKeeps ==
    ASSUME Inv, NEW w \in Workers, Deliver(w)
    PROVE  /\ New \subseteq Entries
           /\ delivered' = delivered \cup New
           /\ delivered' \subseteq Entries /\ pending' \in [Names -> SUBSET Entries]
           /\ \A i \in delivered' : i <= last
           /\ \A n \in Names : pending[n] \subseteq pending'[n] /\ pending'[n] \subseteq delivered'
           /\ \A i \in New : i \in pending'[Name[w]]
           /\ Name[w] \in Names
BY NewIsNew, InteractionAssumption DEF Inv, TypeOK, GroupInv, Deliver

\* Reads of new entries, answered or lost, keep the invariant.
LEMMA ReadInv ==
    ASSUME Inv, NEW w \in Workers, ReadNew(w) \/ ReadLost(w)
    PROVE  Inv'
<1> USE InteractionAssumption, DeliverKeeps DEF Inv
<1>1. Deliver(w) /\ UNCHANGED <<api, offered, stream, rows>>
  BY DEF ReadNew, ReadLost
<1>2. OfferedInv'
  BY <1>1 DEF OfferedInv, stream
<1>3. NothingDropped'
  BY <1>1 DEF NothingDropped, stream
<1>4. CASE ReadNew(w)
  <2> DEFINE s == [Idle("run") EXCEPT !.page = New]
  <2>1. s \in Worker /\ s.page = New /\ s.stored = FALSE
    BY <1>1, Bounds DEF Idle, Worker
  <2> HIDE DEF s
  <2>2. \A v \in Workers : worker'[v] = IF v = w THEN s ELSE worker[v]
    BY <1>4 DEF ReadNew, Update, TypeOK, s
  <2>3. worker' \in [Workers -> Worker]
    BY <1>4, <2>1 DEF ReadNew, Update, TypeOK, s
  <2>4. TypeOK'
    BY <1>1, <1>4, <2>1, <2>2, <2>3 DEF TypeOK, ReadNew, stream
  <2>5. GroupInv'
    BY <1>1, <2>1, <2>2 DEF GroupInv, stream
  <2>6. StoredInv'
    BY <1>1, <2>1, <2>2 DEF StoredInv, Handles, stream
  <2> QED
    BY <1>2, <1>3, <2>4, <2>5, <2>6
<1>5. CASE ReadLost(w)
  <2>1. TypeOK'
    BY <1>1, <1>5 DEF TypeOK, ReadLost, stream
  <2>2. GroupInv'
    BY <1>1, <1>5 DEF GroupInv, ReadLost, stream
  <2>3. StoredInv'
    BY <1>1, <1>5 DEF StoredInv, Handles, ReadLost, stream
  <2> QED
    BY <1>2, <1>3, <2>1, <2>2, <2>3
<1> QED
  BY <1>4, <1>5

\* The end of handle_message, whatever the outcome.
LEMMA HandledKeeps ==
    ASSUME Inv, NEW w \in Workers, NEW i \in Entries, Handled(w, i)
    PROVE  /\ worker' \in [Workers -> Worker]
           /\ worker'[w].page \subseteq worker[w].page
           /\ worker'[w].stored = FALSE
           /\ \A v \in Workers \ {w} : worker'[v] = worker[v]
<1> DEFINE s == [worker[w] EXCEPT !.page = @ \ {i}, !.stored = FALSE]
<1>1. s \in Worker /\ s.page \subseteq worker[w].page /\ s.stored = FALSE
  BY DEF Inv, TypeOK, Worker
<1>2. worker' = [worker EXCEPT ![w] = s]
  BY DEF Handled, Update
<1> HIDE DEF s
<1> QED
  BY <1>1, <1>2 DEF Inv, TypeOK

\* An entry of a page is one that was published.
LEMMA PageIsPublished ==
    ASSUME Inv, NEW w \in Workers, NEW i \in Entries, i \in worker[w].page
    PROVE  i \in delivered /\ i <= last /\ log[i] \in offered /\ log[i] \in Events
BY DEF Inv, GroupInv, OfferedInv, TypeOK

\* The outcomes of handle_message keep the invariant.
LEMMA HandleInv ==
    ASSUME Inv, NEW w \in Workers, NEW i \in Entries,
           ParseFails(w, i) \/ Persist(w, i) \/ PersistFails(w, i) \/ Ack(w, i)
    PROVE  Inv'
<1> USE InteractionAssumption DEF Inv
<1>0. i \in worker[w].page /\ i \in delivered /\ log[i] \in Events
  BY PageIsPublished DEF ParseFails, Persist, PersistFails, Ack, Handles
<1>1. CASE ParseFails(w, i)
  <2> USE <1>1, HandledKeeps DEF ParseFails, stream, group
  <2>1. TypeOK'
    BY DEF TypeOK
  <2>2. OfferedInv' /\ NothingDropped'
    BY DEF OfferedInv, NothingDropped
  <2>3. GroupInv'
    BY DEF GroupInv
  <2>4. StoredInv'
    BY DEF StoredInv, Handles
  <2> QED
    BY <2>1, <2>2, <2>3, <2>4
<1>2. CASE Persist(w, i)
  <2> DEFINE s == [worker[w] EXCEPT !.stored = TRUE]
  <2>1. s \in Worker /\ s.page = worker[w].page /\ s.mode = worker[w].mode
    BY DEF TypeOK, Worker
  <2>2. worker' = [worker EXCEPT ![w] = s]
    BY <1>2 DEF Persist, Update
  <2> HIDE DEF s
  <2>3. /\ worker' \in [Workers -> Worker]
        /\ \A v \in Workers : worker'[v].page = worker[v].page
        /\ \A v \in Workers : worker'[v].mode = worker[v].mode
        /\ \A v \in Workers \ {w} : worker'[v] = worker[v]
    BY <2>1, <2>2 DEF TypeOK
  <2> USE <1>2, <2>3 DEF Persist, stream, group
  <2>4. TypeOK'
    BY <1>0 DEF TypeOK
  <2>5. OfferedInv' /\ NothingDropped'
    BY DEF OfferedInv, NothingDropped
  <2>6. GroupInv'
    BY DEF GroupInv
  <2>7. StoredInv'
    <3> SUFFICES ASSUME NEW v \in Workers, NEW k \in Entries,
                        Handles(v, k)', worker'[v].stored
                 PROVE  log[k] \in rows'
      BY DEF StoredInv
    <3>1. CASE v = w
      <4>1. k <= i /\ i <= k
        BY <1>0, <3>1 DEF Handles
      <4> QED
        BY <4>1 DEF Entries
    <3>2. CASE v # w
      BY <3>2 DEF StoredInv, Handles
    <3> QED
      BY <3>1, <3>2
  <2> QED
    BY <2>4, <2>5, <2>6, <2>7
<1>3. CASE PersistFails(w, i)
  <2> USE <1>3, HandledKeeps DEF PersistFails, stream, group
  <2>1. TypeOK'
    <3>1. failures' \in 0..MaxFailures
      BY Bounds DEF TypeOK
    <3>2. rows' \subseteq Events /\ parked' \subseteq Entries
      BY <1>0 DEF TypeOK
    <3> QED
      BY <3>1, <3>2 DEF TypeOK
  <2>2. OfferedInv' /\ NothingDropped'
    BY DEF OfferedInv, NothingDropped
  <2>3. GroupInv'
    BY DEF GroupInv
  <2>4. StoredInv'
    BY DEF StoredInv, Handles
  <2> QED
    BY <2>1, <2>2, <2>3, <2>4
<1>4. CASE Ack(w, i)
  <2> USE <1>4, HandledKeeps DEF Ack, stream
  <2>1. log[i] \in rows
    BY DEF StoredInv
  <2>2. /\ pending' \in [Names -> SUBSET Entries]
        /\ \A n \in Names : pending'[n] \subseteq pending[n] /\ pending[n] \subseteq pending'[n] \cup {i}
    BY DEF TypeOK
  <2>3. TypeOK'
    BY <2>2 DEF TypeOK
  <2>4. OfferedInv'
    BY DEF OfferedInv
  <2>5. NothingDropped'
    BY <2>1, <2>2 DEF NothingDropped
  <2>6. GroupInv'
    BY <2>2 DEF GroupInv
  <2>7. StoredInv'
    BY DEF StoredInv, Handles
  <2> QED
    BY <2>3, <2>4, <2>5, <2>6, <2>7
<1> QED
  BY <1>1, <1>2, <1>3, <1>4

\* Inv is inductive.
LEMMA NextInv == Inv /\ [Next]_vars => Inv'
<1> SUFFICES ASSUME Inv, [Next]_vars PROVE Inv'
  OBVIOUS
<1>1. CASE UNCHANGED vars
  BY <1>1 DEF Inv, TypeOK, OfferedInv, GroupInv, StoredInv, NothingDropped, Handles,
              vars, stream, group
<1>2. ASSUME NEW w \in Workers, ReadEmpty(w) PROVE Inv'
  BY <1>1, <1>2 DEF ReadEmpty
<1> QED
  BY <1>1, <1>2, ProducerInv, LifeInv, ReadInv, HandleInv DEF Next, Work

\* The invariant holds in every reachable state.
LEMMA InvHolds == Spec => []Inv
BY InitInv, NextInv, PTL DEF Spec

\* Streams, pending lists, workers and ledger keep their types.
THEOREM ConsumerTypeCorrect == Spec => []TypeOK
BY InvHolds, PTL DEF Inv

\* handle_message never drops an entry: it is pending until its event has a
\* row, for any number of workers, whatever their names, and any crashes.
THEOREM NothingIsDropped == Spec => []NothingDropped
BY InvHolds, PTL DEF Inv

---------------------------------------------------------------------------
(* The refinement                                                          *)

SettledEvents == {log[i] : i \in Settled}

\* A step that changes neither events, rows nor acknowledgements stutters.
LEMMA Stutter ==
    ASSUME UNCHANGED <<offered, rows, SettledEvents>>
    PROVE  UNCHANGED Ledger!ledgerVars
BY DEF Ledger!ledgerVars, SettledEvents

\* A producer's step offers or records an event, or is invisible.
LEMMA ProducerRefines ==
    ASSUME Inv,
           \/ \E e \in Local : LocalBuild(e) \/ LocalPersist(e) \/ LocalPublish(e)
           \/ \E e \in Events \ Local : RemotePublish(e)
    PROVE  [Ledger!Next]_(Ledger!ledgerVars)
<1> USE InteractionAssumption
<1>1. SettledEvents' = SettledEvents
  <2>1. \A e \in Events : Add(e) => \A i \in delivered : log'[i] = log[i]
    BY AddKeeps DEF Inv, GroupInv, TypeOK
  <2>2. \A i \in delivered : log'[i] = log[i]
    BY <2>1 DEF LocalBuild, LocalPersist, LocalPublish, RemotePublish, stream
  <2>3. UNCHANGED group
    BY DEF LocalBuild, LocalPersist, LocalPublish, RemotePublish
  <2> QED
    BY <2>2, <2>3 DEF SettledEvents, Settled, group
<1>2. ASSUME NEW e \in Local, LocalBuild(e) PROVE Ledger!Next
  BY <1>1, <1>2 DEF LocalBuild, Ledger!Next, Ledger!Offer, SettledEvents
<1>3. ASSUME NEW e \in Local, LocalPersist(e) PROVE [Ledger!Next]_(Ledger!ledgerVars)
  <2>1. CASE rows' = rows
    BY <1>1, <1>3, <2>1, Stutter DEF LocalPersist
  <2>2. CASE rows' = rows \cup {e}
    <3>1. e \in offered \cap (Events \ Malformed)
      BY <1>3 DEF LocalPersist, Inv, OfferedInv
    <3> QED
      BY <1>1, <1>3, <2>2, <3>1 DEF LocalPersist, Ledger!Next, Ledger!Record, SettledEvents
  <2> QED
    BY <1>3, <2>1, <2>2 DEF LocalPersist
<1>4. ASSUME NEW e \in Local, LocalPublish(e) PROVE [Ledger!Next]_(Ledger!ledgerVars)
  BY <1>1, <1>4, Stutter DEF LocalPublish
<1>5. ASSUME NEW e \in Events \ Local, RemotePublish(e) PROVE Ledger!Next
  BY <1>1, <1>5 DEF RemotePublish, Ledger!Next, Ledger!Offer, SettledEvents
<1> QED
  BY <1>2, <1>3, <1>4, <1>5

\* Reading and the life of a worker are invisible.
LEMMA WorkerStutters ==
    ASSUME Inv, NEW w \in Workers,
           \/ Start(w) \/ DrainRead(w) \/ DrainDone(w) \/ Shutdown(w) \/ Crash(w)
           \/ ReadNew(w) \/ ReadLost(w) \/ ReadEmpty(w)
    PROVE  UNCHANGED <<offered, rows, SettledEvents>>
<1>1. UNCHANGED <<offered, rows, stream>>
  BY DEF Start, DrainRead, DrainDone, Shutdown, Crash, ReadNew, ReadLost, ReadEmpty, vars
<1>2. Settled' = Settled
  <2>1. CASE UNCHANGED group
    BY <2>1 DEF Settled, group
  <2>2. CASE Deliver(w)
    <3>1. \A i \in New : i \notin delivered
      BY NewIsNew DEF Inv, TypeOK, Entries
    <3>2. \A n \in Names, i \in delivered : i \in pending'[n] <=> i \in pending[n]
      BY <2>2, <3>1 DEF Deliver, Inv, TypeOK
    <3> QED
      BY <2>2, <3>1, <3>2, DeliverKeeps DEF Settled
  <2> QED
    BY <2>1, <2>2 DEF Start, DrainRead, DrainDone, Shutdown, Crash, ReadNew, ReadLost,
                      ReadEmpty, vars, group
<1> QED
  BY <1>1, <1>2 DEF SettledEvents, stream

\* A step of handle_message records an event, settles it, or is invisible.
LEMMA HandleRefines ==
    ASSUME Inv, NEW w \in Workers, NEW i \in Entries,
           ParseFails(w, i) \/ Persist(w, i) \/ PersistFails(w, i) \/ Ack(w, i)
    PROVE  [Ledger!Next]_(Ledger!ledgerVars)
<1>0. i \in delivered /\ log[i] \in offered /\ log[i] \in Events
  BY PageIsPublished DEF ParseFails, Persist, PersistFails, Ack, Handles
<1>1. ASSUME UNCHANGED <<stream, group>> PROVE SettledEvents' = SettledEvents
  BY <1>1 DEF SettledEvents, Settled, stream, group
<1>2. ASSUME UNCHANGED <<offered, stream, group>>, Parses(w, i), rows' = rows \cup {log[i]}
      PROVE  Ledger!Next
  <2>1. log[i] \in offered \cap (Events \ Malformed)
    BY <1>0, <1>2 DEF Parses
  <2> QED
    BY <1>0, <1>1, <1>2, <2>1 DEF Ledger!Next, Ledger!Record, SettledEvents
<1>3. CASE ParseFails(w, i)
  BY <1>1, <1>3, Stutter DEF ParseFails
<1>4. CASE Persist(w, i)
  BY <1>2, <1>4 DEF Persist
<1>5. CASE PersistFails(w, i)
  <2>1. CASE rows' = rows
    BY <1>1, <1>5, <2>1, Stutter DEF PersistFails
  <2> QED
    BY <1>2, <1>5, <2>1 DEF PersistFails
<1>6. CASE Ack(w, i)
  <2>1. log[i] \in rows
    BY <1>6 DEF Ack, Inv, StoredInv
  <2>2. \A n \in Names : pending'[n] = IF n = Name[w] THEN pending[n] \ {i} ELSE pending[n]
    BY <1>6 DEF Ack, Inv, TypeOK
  <2>3. Settled' = Settled \/ Settled' = Settled \cup {i}
    BY <1>0, <1>6, <2>2 DEF Settled, Ack
  <2>4. SettledEvents' = SettledEvents \/ SettledEvents' = SettledEvents \cup {log[i]}
    BY <1>6, <2>3 DEF SettledEvents, Ack, stream
  <2>5. CASE SettledEvents' = SettledEvents
    BY <1>6, <2>5, Stutter DEF Ack
  <2>6. CASE SettledEvents' = SettledEvents \cup {log[i]}
    BY <1>0, <1>6, <2>1, <2>6 DEF Ack, Ledger!Next, Ledger!Settle, SettledEvents
  <2> QED
    BY <2>4, <2>5, <2>6
<1> QED
  BY <1>3, <1>4, <1>5, <1>6

\* Producers, stream and workers implement the ledger: a row is never lost,
\* none is made of an event that does not exist or is malformed, and XACK
\* never comes before the row.
THEOREM ConsumerImplementsLedger == Spec => ImplementsLedger
<1>1. Init => Ledger!Init
  BY DEF Init, Ledger!Init, Settled
<1>2. Inv /\ [Next]_vars => [Ledger!Next]_(Ledger!ledgerVars)
  <2> SUFFICES ASSUME Inv, [Next]_vars PROVE [Ledger!Next]_(Ledger!ledgerVars)
    OBVIOUS
  <2>1. CASE UNCHANGED vars
    BY <2>1, Stutter DEF vars, stream, group, SettledEvents, Settled
  <2> QED
    BY <2>1, Stutter, ProducerRefines, WorkerStutters, HandleRefines DEF Next, Work
<1> QED
  BY <1>1, <1>2, InvHolds, PTL DEF Spec, ImplementsLedger, Ledger!Spec

=============================================================================
