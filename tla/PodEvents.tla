------------------------------ MODULE PodEvents ------------------------------
(***************************************************************************)
(* The Pod Event Dispatcher of pkg/cluster/cluster.go.  The informer calls *)
(* ReceivePodEvent, which adds the event to c.podEventsQueue, a client-go  *)
(* cache.FIFO keyed by "<pod>-<resourceVersion>".  The goroutine started   *)
(* by Run loops in processPodEventQueue: it checks the stop channel, then  *)
(* Pops the oldest event; Pop runs processPodEvent while it still holds    *)
(* the FIFO's lock, and processPodEvent looks the pod's subscriber up      *)
(* under podSubscribersMu and sends on its unbuffered channel.             *)
(*                                                                         *)
(* The FIFO and the subscribers are not in this repository: Add, Pop and   *)
(* the cond.Wait/Broadcast of an empty queue follow client-go's cache.FIFO *)
(* of the vendored version (which has no Close); a subscriber is a waiter  *)
(* that registers a fresh channel for one pod, receives on it while        *)
(* registered, and may unregister (done or timed out) at any time, as      *)
(* spec.md 4.4 and 5 describe.                                             *)
(***************************************************************************)
EXTENDS Naturals, Sequences, SequencesExt

CONSTANTS
    Pods,        \* pod names
    Versions,    \* resource versions, numbers that grow per pod
    MaxEvents,   \* the number of events the informer delivers
    MaxChans,    \* the number of subscriber registrations
    NoValue

ASSUME PodEventsAssumption ==
    /\ Versions \subseteq Nat
    /\ MaxEvents \in Nat /\ MaxChans \in Nat
    /\ NoValue \notin Nat

\* A spec.PodEvent, reduced to what the key function reads.  The key
\* "%s-%s" of PodName and ResourceVersion tells events apart exactly when
\* these two fields differ, so an event stands for its own key.
Events == [pod : Pods, rv : Versions]

Chans == 1..MaxChans

VARIABLES
    queue,      \* the FIFO's queue of keys (items holds one event per key)
    ingested,   \* every event passed to ReceivePodEvent, in order
    processed,  \* every event Pop handed to processPodEvent, in order
    dpc,        \* the dispatcher goroutine: loop, pop, wait, send, done
    cur,        \* the event being sent
    ch,         \* the subscriber channel processPodEvent looked up
    subs,       \* c.podSubscribers
    nextChan,   \* the next fresh channel
    stop        \* stopCh is closed

vars == <<queue, ingested, processed, dpc, cur, ch, subs, nextChan, stop>>

\* The informer delivers the versions of a pod in order, and may deliver
\* the same version again (a resync).
InOrderForPod(e) ==
    \A i \in 1..Len(ingested) : ingested[i].pod = e.pod => ingested[i].rv <= e.rv

----------------------------------------------------------------------------
(* ReceivePodEvent(event): c.podEventsQueue.Add(event).  Add takes the     *)
(* FIFO lock, which the dispatcher holds while it sends; it queues the key *)
(* unless it is queued already (the item is then replaced in place), and   *)
(* broadcasts to a Pop waiting on an empty queue.                          *)

\* (An Add that forgets the cond.Broadcast.)
ReceivePodEventNoBroadcast(e) ==
    /\ dpc # "send"
    /\ Len(ingested) < MaxEvents
    /\ InOrderForPod(e)
    /\ queue' = IF Contains(queue, e) THEN queue ELSE Append(queue, e)
    /\ ingested' = Append(ingested, e)
    /\ UNCHANGED <<processed, dpc, cur, ch, subs, nextChan, stop>>

ReceivePodEvent(e) ==
    /\ dpc # "send"
    /\ Len(ingested) < MaxEvents
    /\ InOrderForPod(e)
    /\ queue' = IF Contains(queue, e) THEN queue ELSE Append(queue, e)
    /\ ingested' = Append(ingested, e)
    /\ dpc' = IF dpc = "wait" THEN "pop" ELSE dpc
    /\ UNCHANGED <<processed, cur, ch, subs, nextChan, stop>>

----------------------------------------------------------------------------
(* processPodEventQueue: select on stopCh with a default case.             *)

CheckStop ==
    /\ dpc = "loop"
    /\ dpc' = IF stop THEN "done" ELSE "pop"
    /\ UNCHANGED <<queue, ingested, processed, cur, ch, subs, nextChan, stop>>

\* (A Pop that serves the newest key first.)
PopNewest ==
    /\ dpc = "pop"
    /\ IF queue = <<>>
       THEN dpc' = "wait" /\ UNCHANGED <<queue, processed, cur, ch>>
       ELSE LET e == Last(queue) IN
            /\ queue' = Front(queue)
            /\ processed' = Append(processed, e)
            /\ IF subs[e.pod] # NoValue
               THEN dpc' = "send" /\ cur' = e /\ ch' = subs[e.pod]
               ELSE dpc' = "loop" /\ UNCHANGED <<cur, ch>>
    /\ UNCHANGED <<ingested, subs, nextChan, stop>>

\* (processPodEvent without its "if ok": a send on the nil channel.)
PopSendsUnchecked ==
    /\ dpc = "pop"
    /\ IF queue = <<>>
       THEN dpc' = "wait" /\ UNCHANGED <<queue, processed, cur, ch>>
       ELSE LET e == Head(queue) IN
            /\ queue' = Tail(queue)
            /\ processed' = Append(processed, e)
            /\ dpc' = "send" /\ cur' = e /\ ch' = subs[e.pod]
    /\ UNCHANGED <<ingested, subs, nextChan, stop>>

\* Pop(processPodEvent): with the lock held, wait while the queue is empty
\* (cond.Wait releases the lock), else take the oldest key and its item and
\* call processPodEvent on it, which reads the subscriber under the read
\* lock and, when there is one, goes on to send with the FIFO lock held.
Pop ==
    /\ dpc = "pop"
    /\ IF queue = <<>>
       THEN dpc' = "wait" /\ UNCHANGED <<queue, processed, cur, ch>>
       ELSE LET e == Head(queue) IN
            /\ queue' = Tail(queue)
            /\ processed' = Append(processed, e)
            /\ IF subs[e.pod] # NoValue
               THEN dpc' = "send" /\ cur' = e /\ ch' = subs[e.pod]
               ELSE dpc' = "loop" /\ UNCHANGED <<cur, ch>>
    /\ UNCHANGED <<ingested, subs, nextChan, stop>>

\* subscriber <- event: an unbuffered send completes only when the waiter
\* still receives on that channel, that is while it is still registered.
\* Pop then returns and releases the FIFO lock.
Send ==
    /\ dpc = "send"
    /\ subs[cur.pod] = ch
    /\ dpc' = "loop"
    /\ cur' = NoValue
    /\ ch' = NoValue
    /\ UNCHANGED <<queue, ingested, processed, subs, nextChan, stop>>

----------------------------------------------------------------------------
(* The subscribers and the stop channel (outside this file).               *)

\* A waiter registers a fresh channel for a pod under the write lock; a
\* second registration for the same pod is refused.
Register(p) ==
    /\ subs[p] = NoValue
    /\ nextChan \in Chans
    /\ subs' = [subs EXCEPT ![p] = nextChan]
    /\ nextChan' = nextChan + 1
    /\ UNCHANGED <<queue, ingested, processed, dpc, cur, ch, stop>>

\* The waiter is done or has timed out, and unregisters.
Unregister(p) ==
    /\ subs[p] # NoValue
    /\ subs' = [subs EXCEPT ![p] = NoValue]
    /\ UNCHANGED <<queue, ingested, processed, dpc, cur, ch, nextChan, stop>>

\* The owner of the cluster closes stopCh.
Stop ==
    /\ ~stop
    /\ stop' = TRUE
    /\ UNCHANGED <<queue, ingested, processed, dpc, cur, ch, subs, nextChan>>

----------------------------------------------------------------------------

\* New has made an empty FIFO and subscriber map, and Run has started the
\* goroutine.
Init ==
    /\ queue = <<>>
    /\ ingested = <<>>
    /\ processed = <<>>
    /\ dpc = "loop"
    /\ cur = NoValue
    /\ ch = NoValue
    /\ subs = [p \in Pods |-> NoValue]
    /\ nextChan = 1
    /\ stop = FALSE

Next ==
    \/ \E e \in Events : ReceivePodEvent(e)
    \/ CheckStop \/ Pop \/ Send
    \/ \E p \in Pods : Register(p) \/ Unregister(p)
    \/ Stop

\* The Go scheduler runs a goroutine that can run: the dispatcher's steps
\* are weakly fair.  The informer, the waiters and the owner are not.
Fairness == WF_vars(CheckStop) /\ WF_vars(Pop) /\ WF_vars(Send)

Spec == Init /\ [][Next]_vars /\ Fairness

----------------------------------------------------------------------------
(* Properties.                                                             *)

TypeOK ==
    /\ queue \in Seq(Events)
    /\ ingested \in Seq(Events) /\ processed \in Seq(Events)
    /\ dpc \in {"loop", "pop", "wait", "send", "done"}
    /\ cur \in Events \cup {NoValue}
    /\ ch \in Chans \cup {NoValue}
    /\ subs \in [Pods -> Chans \cup {NoValue}]
    /\ nextChan \in 1..(MaxChans + 1)
    /\ stop \in BOOLEAN
    /\ dpc = "send" => cur \in Events /\ ch \in Chans

\* s is t with some elements left out.
IsSubsequence(s, t) ==
    \E f \in [1..Len(s) -> 1..Len(t)] :
        /\ \A i \in 1..(Len(s) - 1) : f[i] < f[i + 1]
        /\ \A i \in 1..Len(s) : s[i] = t[f[i]]

\* The dispatcher is in the middle of a send to a channel nobody receives on.
Stalled == dpc = "send" /\ subs[cur.pod] # ch

(* The dispatcher hands events to processPodEvent in the order the         *)
(* informer delivered them, a duplicate of a queued event dropped, however *)
(* ReceivePodEvent, Pop and the subscribers interleave (spec.md 4.4:       *)
(* "in ingestion order modulo de-duplication").                            *)
ProcessedInIngestionOrder == IsSubsequence(processed, ingested)

(* Every queued event is eventually taken off the queue by the dispatcher  *)
(* goroutine, unless the stop channel closes or the dispatcher is stuck    *)
(* sending to a subscriber that has gone: an Add wakes a Pop waiting on    *)
(* the empty queue, and no event overtakes another for ever.               *)
EveryQueuedEventProcessed ==
    \A e \in Events :
        Contains(queue, e) ~> (~Contains(queue, e) \/ stop \/ Stalled)

HandoffCompletes == (dpc = "send") ~> (dpc # "send")

=============================================================================
