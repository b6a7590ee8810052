------------------------------- MODULE RwLock -------------------------------
(***************************************************************************)
(* The reader/writer lock the language server is built on                  *)
(* (tokio::sync::RwLock, not part of the repository).  It is fair: waiters *)
(* queue in arrival order, and a reader that arrives behind a queued       *)
(* writer waits for it.  A lock is a value, and the operators below return *)
(* the next value, so that one action can move several locks.              *)
(***************************************************************************)
EXTENDS Naturals, Sequences

LOCAL INSTANCE SequencesExt

CONSTANT Slots   \* the handler futures that may hold or await a lock

Mode == {"read", "write"}

Waiter == [slot : Slots, mode : Mode]

Lock == [readers : SUBSET Slots, writers : SUBSET Slots, queue : Seq(Waiter)]

Unlocked == [readers |-> {}, writers |-> {}, queue |-> << >>]

\* `lock.read()` / `lock.write()` is polled for the first time.
Await(l, s, m) ==
    [l EXCEPT !.queue = Append(@, [slot |-> s, mode |-> m])]

\* The future at the head of the queue may complete.
Granted(l, s, m) ==
    /\ l.queue # << >>
    /\ Head(l.queue) = [slot |-> s, mode |-> m]
    /\ l.writers = {}
    /\ m = "write" => l.readers = {}

\* The guard is taken and kept across a suspension of the handler.
Hold(l, s, m) ==
    IF m = "read"
    THEN [l EXCEPT !.queue = Tail(@), !.readers = @ \union {s}]
    ELSE [l EXCEPT !.queue = Tail(@), !.writers = @ \union {s}]

\* The guard is taken and dropped before the handler suspends again.
Pass(l) == [l EXCEPT !.queue = Tail(@)]

Release(l, s) == [l EXCEPT !.readers = @ \ {s}, !.writers = @ \ {s}]

\* The future that holds or awaits the lock is dropped; it waits at most once.
Forget(l, s) ==
    IF \E i \in 1..Len(l.queue) : l.queue[i].slot = s
    THEN LET i == CHOOSE j \in 1..Len(l.queue) : l.queue[j].slot = s
         IN [Release(l, s) EXCEPT !.queue = RemoveAt(@, i)]
    ELSE Release(l, s)

Exclusive(l) ==
    \A s, t \in l.readers \union l.writers :
        s \in l.writers => s = t
=============================================================================
