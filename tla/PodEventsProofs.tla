--------------------------- MODULE PodEventsProofs ---------------------------
(***************************************************************************)
(* Proofs about the Pod Event Dispatcher, for any pods, versions and       *)
(* bounds: the type invariant, and that the dispatcher hands events to     *)
(* processPodEvent in the order the informer delivered them.               *)
(***************************************************************************)
EXTENDS PodEvents, TLAPS

\* f maps the processed events, then the queued ones, to the positions of
\* ingested they were delivered at, in increasing order.
OrderWitness(f) ==
    /\ \A i, j \in DOMAIN f : i < j => f[i] < f[j]
    /\ \A i \in 1..Len(processed) : processed[i] = ingested[f[i]]
    /\ \A i \in 1..Len(queue) : queue[i] = ingested[f[Len(processed) + i]]

\* ProcessedInIngestionOrder is not inductive: a Pop moves the head of the
\* queue to processed, so what is still queued must also be in order, and
\* after everything processed.
OrderInv ==
    \E f \in [1..(Len(processed) + Len(queue)) -> 1..Len(ingested)] :
        OrderWitness(f)

----------------------------------------------------------------------------
(* Type correctness.                                                       *)

LEMMA InitTypeOK == Init => TypeOK
<1> SUFFICES ASSUME Init PROVE TypeOK
    OBVIOUS
<1>1. MaxChans \in Nat
    BY PodEventsAssumption
<1>2. /\ queue \in Seq(Events) /\ ingested \in Seq(Events)
      /\ processed \in Seq(Events)
    BY DEF Init
<1>3. subs \in [Pods -> Chans \cup {NoValue}] /\ nextChan \in 1..(MaxChans + 1)
    BY <1>1 DEF Init, Chans
<1>4. QED  BY <1>2, <1>3 DEF Init, TypeOK

\* Pop sends only on a channel it found registered, and a registration
\* only hands out a channel below MaxChans + 1.
LEMMA NextTypeOK == TypeOK /\ [Next]_vars => TypeOK'
<1> SUFFICES ASSUME TypeOK, [Next]_vars PROVE TypeOK'
    OBVIOUS
<1>c. MaxChans \in Nat /\ NoValue \notin Nat
    BY PodEventsAssumption
<1> USE <1>c DEF TypeOK, Chans
<1>1. ASSUME NEW e \in Events, ReceivePodEvent(e) PROVE TypeOK'
    BY <1>1 DEF ReceivePodEvent
<1>2. CASE CheckStop
    BY <1>2 DEF CheckStop
<1>3. CASE Pop
    <2>1. CASE queue = <<>>
        BY <1>3, <2>1 DEF Pop
    <2>2. CASE queue # <<>>
        <3>1. Head(queue) \in Events /\ Tail(queue) \in Seq(Events)
            BY <2>2
        <3>2. Head(queue).pod \in Pods
            BY <3>1 DEF Events
        <3>3. subs[Head(queue).pod] \in Chans \cup {NoValue}
            BY <3>2
        <3>a. processed' = Append(processed, Head(queue)) /\ queue' = Tail(queue)
            BY <1>3, <2>2 DEF Pop
        <3>4. processed' \in Seq(Events) /\ queue' \in Seq(Events)
            BY <3>1, <3>a
        <3>5. dpc' \in {"send", "loop"}
              /\ (dpc' = "send" => cur' \in Events /\ ch' \in Chans)
              /\ cur' \in Events \cup {NoValue} /\ ch' \in Chans \cup {NoValue}
            BY <1>3, <2>2, <3>1, <3>3 DEF Pop
        <3>6. QED  BY <1>3, <2>2, <3>4, <3>5 DEF Pop
    <2>3. QED  BY <2>1, <2>2
<1>4. CASE Send
    BY <1>4 DEF Send
<1>5. ASSUME NEW p \in Pods, Register(p) PROVE TypeOK'
    BY <1>5 DEF Register
<1>8. ASSUME NEW p \in Pods, Unregister(p) PROVE TypeOK'
    BY <1>8 DEF Unregister
<1>6. CASE Stop \/ UNCHANGED vars
    BY <1>6 DEF Stop, vars
<1>7. QED  BY <1>1, <1>2, <1>3, <1>4, <1>5, <1>8, <1>6 DEF Next

(* For any pods, versions and bounds, every reachable state is well typed; *)
(* in particular a dispatcher in the middle of a send holds an event and a *)
(* channel, never the nil channel of an unregistered pod.                  *)
THEOREM TypeCorrect == Spec => []TypeOK
BY InitTypeOK, NextTypeOK, PTL DEF Spec

----------------------------------------------------------------------------
(* Ingestion order.                                                        *)

LEMMA InitOrderInv == Init => OrderInv
<1> SUFFICES ASSUME Init PROVE OrderInv
    OBVIOUS
<1>1. [i \in 1..0 |-> 1] \in [1..(Len(processed) + Len(queue)) -> 1..Len(ingested)]
    BY DEF Init
<1>2. OrderWitness([i \in 1..0 |-> 1])
    BY DEF Init, OrderWitness
<1>3. QED  BY <1>1, <1>2 DEF OrderInv

\* A step that changes none of processed, queue and ingested keeps the
\* witness.
LEMMA OrderFrame ==
    ASSUME OrderInv, UNCHANGED <<processed, queue, ingested>>
    PROVE  OrderInv'
BY DEF OrderInv, OrderWitness

\* An Add of an event that is queued already only lengthens ingested:
\* the witness stays one.
LEMMA OrderReceiveQueued ==
    ASSUME TypeOK, NEW f \in [1..(Len(processed) + Len(queue)) -> 1..Len(ingested)],
           OrderWitness(f), NEW e \in Events,
           processed' = processed, queue' = queue, ingested' = Append(ingested, e)
    PROVE  OrderInv'
<1>1. f \in [1..(Len(processed') + Len(queue')) -> 1..Len(ingested')]
    BY DEF TypeOK
<1>2. \A k \in 1..Len(ingested) : ingested'[k] = ingested[k]
    BY DEF TypeOK
<1>3. \A i \in 1..Len(processed) : processed'[i] = ingested'[f[i]]
    <2> SUFFICES ASSUME NEW i \in 1..Len(processed)
                 PROVE  processed[i] = ingested'[f[i]]
        OBVIOUS
    <2>0. i \in 1..(Len(processed) + Len(queue))
        BY DEF TypeOK
    <2>1. f[i] \in 1..Len(ingested)
        BY <2>0
    <2>2. processed[i] = ingested[f[i]]
        BY DEF OrderWitness
    <2>3. QED  BY <1>2, <2>1, <2>2
<1>4. \A i \in 1..Len(queue) : queue'[i] = ingested'[f[Len(processed') + i]]
    <2> SUFFICES ASSUME NEW i \in 1..Len(queue)
                 PROVE  queue[i] = ingested'[f[Len(processed) + i]]
        OBVIOUS
    <2>1. Len(processed) + i \in 1..(Len(processed) + Len(queue))
        BY DEF TypeOK
    <2>2. f[Len(processed) + i] \in 1..Len(ingested)
          /\ queue[i] = ingested[f[Len(processed) + i]]
        BY <2>1 DEF OrderWitness
    <2>3. QED  BY <1>2, <2>2
<1>5. QED  BY <1>1, <1>3, <1>4 DEF OrderInv, OrderWitness

\* An Add of a new event appends it to the queue and to ingested: the
\* witness gets the new last position.
LEMMA OrderReceiveNew ==
    ASSUME TypeOK, NEW f \in [1..(Len(processed) + Len(queue)) -> 1..Len(ingested)],
           OrderWitness(f), NEW e \in Events,
           processed' = processed, queue' = Append(queue, e),
           ingested' = Append(ingested, e)
    PROVE  OrderInv'
<1> DEFINE N == Len(processed) + Len(queue)
           g == [i \in 1..(N + 1) |-> IF i <= N THEN f[i] ELSE Len(ingested) + 1]
<1>0. Len(processed) \in Nat /\ Len(queue) \in Nat /\ Len(ingested) \in Nat
    BY DEF TypeOK
<1>1. g \in [1..(Len(processed') + Len(queue')) -> 1..Len(ingested')]
    BY <1>0 DEF TypeOK
<1>a. \A k \in 1..Len(ingested) : ingested'[k] = ingested[k]
    BY DEF TypeOK
<1>b. \A i \in 1..N : g[i] = f[i] /\ f[i] \in 1..Len(ingested)
    <2> SUFFICES ASSUME NEW i \in 1..N PROVE g[i] = f[i] /\ f[i] \in 1..Len(ingested)
        OBVIOUS
    <2>1. i \in 1..(N + 1) /\ i <= N
        BY <1>0
    <2>2. g[i] = f[i]
        BY <2>1
    <2>3. QED  BY <2>2
<1>2. \A i, j \in DOMAIN g : i < j => g[i] < g[j]
    <2> SUFFICES ASSUME NEW i \in 1..(N + 1), NEW j \in 1..(N + 1), i < j
                 PROVE  g[i] < g[j]
        OBVIOUS
    <2>1. CASE j <= N
        BY <1>0, <1>b, <2>1 DEF OrderWitness
    <2>2. CASE j = N + 1
        BY <1>0, <1>b, <2>2
    <2>3. QED  BY <1>0, <2>1, <2>2
<1>3. \A i \in 1..Len(processed') : processed'[i] = ingested'[g[i]]
    <2> SUFFICES ASSUME NEW i \in 1..Len(processed)
                 PROVE  processed[i] = ingested'[g[i]]
        OBVIOUS
    <2>1. i \in 1..N
        BY <1>0
    <2>2. QED  BY <1>a, <1>b, <2>1 DEF OrderWitness
<1>4. \A i \in 1..Len(queue') : queue'[i] = ingested'[g[Len(processed') + i]]
    <2> SUFFICES ASSUME NEW i \in 1..Len(queue') PROVE queue'[i] = ingested'[g[Len(processed) + i]]
        BY <1>0
    <2>0. Len(queue') = Len(queue) + 1
        BY DEF TypeOK
    <2>1. CASE i <= Len(queue)
        <3>1. queue'[i] = queue[i] /\ Len(processed) + i \in 1..N
            BY <1>0, <2>1 DEF TypeOK
        <3>2. i \in 1..Len(queue)
            BY <1>0, <2>1 DEF TypeOK
        <3>3. queue[i] = ingested[f[Len(processed) + i]]
            BY <3>2 DEF OrderWitness
        <3>4. g[Len(processed) + i] = f[Len(processed) + i]
              /\ f[Len(processed) + i] \in 1..Len(ingested)
            BY <1>b, <3>1
        <3>5. QED  BY <1>a, <3>1, <3>3, <3>4
    <2>2. CASE i = Len(queue) + 1
        <3>1. queue'[i] = e
            BY <1>0, <2>2 DEF TypeOK
        <3>2. Len(processed) + i = N + 1
            BY <1>0, <2>2
        <3>3. g[N + 1] = Len(ingested) + 1
            BY <1>0
        <3>4. ingested'[Len(ingested) + 1] = e
            BY DEF TypeOK
        <3>5. QED  BY <3>1, <3>2, <3>3, <3>4
    <2>3. QED  BY <1>0, <2>0, <2>1, <2>2
<1>5. QED  BY <1>1, <1>2, <1>3, <1>4 DEF OrderInv, OrderWitness

\* A Pop moves the head of the queue to the end of processed: the same
\* witness still lists processed, then queue.
LEMMA OrderPop ==
    ASSUME TypeOK, NEW f \in [1..(Len(processed) + Len(queue)) -> 1..Len(ingested)],
           OrderWitness(f), queue # <<>>,
           processed' = Append(processed, Head(queue)), queue' = Tail(queue),
           ingested' = ingested
    PROVE  OrderInv'
<1>0. Len(processed) \in Nat /\ Len(queue) \in Nat /\ Len(queue) > 0
    BY DEF TypeOK
<1>1. f \in [1..(Len(processed') + Len(queue')) -> 1..Len(ingested')]
    BY <1>0 DEF TypeOK
<1>2. \A i \in 1..Len(processed') : processed'[i] = ingested'[f[i]]
    <2> SUFFICES ASSUME NEW i \in 1..(Len(processed) + 1)
                 PROVE  processed'[i] = ingested[f[i]]
        BY <1>0 DEF TypeOK
    <2>1. CASE i <= Len(processed)
        BY <1>0, <2>1 DEF OrderWitness, TypeOK
    <2>2. CASE i = Len(processed) + 1
        <3>1. processed'[i] = queue[1] /\ 1 \in 1..Len(queue)
            BY <1>0, <2>2 DEF TypeOK
        <3>2. QED  BY <3>1, <2>2 DEF OrderWitness
    <2>3. QED  BY <1>0, <2>1, <2>2
<1>3. \A i \in 1..Len(queue') : queue'[i] = ingested'[f[Len(processed') + i]]
    <2> SUFFICES ASSUME NEW i \in 1..Len(queue')
                 PROVE queue[i + 1] = ingested[f[Len(processed) + (i + 1)]]
        BY <1>0 DEF TypeOK
    <2>1. i + 1 \in 1..Len(queue)
        BY <1>0 DEF TypeOK
    <2>2. QED  BY <2>1 DEF OrderWitness
<1>4. QED  BY <1>1, <1>2, <1>3 DEF OrderInv, OrderWitness

\* Every step keeps the witness: an Add by the two lemmas above, a Pop of
\* a non-empty queue by OrderPop, and every other step changes none of
\* processed, queue and ingested.
LEMMA NextOrderInv == TypeOK /\ OrderInv /\ [Next]_vars => OrderInv'
<1> SUFFICES ASSUME TypeOK, OrderInv, [Next]_vars PROVE OrderInv'
    OBVIOUS
<1>0. PICK f \in [1..(Len(processed) + Len(queue)) -> 1..Len(ingested)] :
          OrderWitness(f)
    BY DEF OrderInv
<1>1. ASSUME NEW e \in Events, ReceivePodEvent(e) PROVE OrderInv'
    <2>1. CASE Contains(queue, e)
        BY <1>0, <1>1, <2>1, OrderReceiveQueued DEF ReceivePodEvent
    <2>2. CASE ~Contains(queue, e)
        BY <1>0, <1>1, <2>2, OrderReceiveNew DEF ReceivePodEvent
    <2>3. QED  BY <2>1, <2>2
<1>2. CASE Pop
    <2>1. CASE queue = <<>>
        BY <1>2, <2>1, OrderFrame DEF Pop
    <2>2. CASE queue # <<>>
        BY <1>0, <1>2, <2>2, OrderPop DEF Pop
    <2>3. QED  BY <2>1, <2>2
<1>3. CASE CheckStop \/ Send \/ Stop \/ UNCHANGED vars
    BY <1>3, OrderFrame DEF CheckStop, Send, Stop, vars
<1>4. ASSUME NEW p \in Pods, Register(p) \/ Unregister(p) PROVE OrderInv'
    BY <1>4, OrderFrame DEF Register, Unregister
<1>5. QED  BY <1>1, <1>2, <1>3, <1>4 DEF Next

\* The witness restricted to the processed events shows them a
\* subsequence of ingested.
LEMMA OrderInvImpliesProcessedInOrder ==
    TypeOK /\ OrderInv => ProcessedInIngestionOrder
<1> SUFFICES ASSUME TypeOK, OrderInv PROVE ProcessedInIngestionOrder
    OBVIOUS
<1>0. PICK f \in [1..(Len(processed) + Len(queue)) -> 1..Len(ingested)] :
          OrderWitness(f)
    BY DEF OrderInv
<1> DEFINE g == [i \in 1..Len(processed) |-> f[i]]
<1>1. Len(processed) \in Nat /\ Len(queue) \in Nat
    BY DEF TypeOK
<1>2. g \in [1..Len(processed) -> 1..Len(ingested)]
    BY <1>0, <1>1
<1>3. \A i \in 1..(Len(processed) - 1) : g[i] < g[i + 1]
    BY <1>0, <1>1 DEF OrderWitness
<1>4. \A i \in 1..Len(processed) : processed[i] = ingested[g[i]]
    BY <1>0, <1>1 DEF OrderWitness
<1>5. QED  BY <1>2, <1>3, <1>4 DEF ProcessedInIngestionOrder, IsSubsequence

(* For any pods, versions and bounds, the dispatcher hands events to       *)
(* processPodEvent in the order the informer delivered them, however       *)
(* ReceivePodEvent, Pop, the subscribers and the stop signal interleave    *)
(* (spec.md 4.4: "in ingestion order modulo de-duplication").              *)
THEOREM IngestionOrderInvariant == Spec => []ProcessedInIngestionOrder
<1>1. Init => TypeOK /\ OrderInv
    BY InitTypeOK, InitOrderInv
<1>2. TypeOK /\ OrderInv /\ [Next]_vars => TypeOK' /\ OrderInv'
    BY NextTypeOK, NextOrderInv
<1>3. TypeOK /\ OrderInv => ProcessedInIngestionOrder
    BY OrderInvImpliesProcessedInOrder
<1>4. QED  BY <1>1, <1>2, <1>3, PTL DEF Spec

(* OrderInv holds in every reachable state: the processed events followed  *)
(* by the queued ones are the ingested events at strictly increasing       *)
(* positions, i.e. the FIFO only ever drops (de-duplicates) events and      *)
(* never reorders them.                                                     *)
THEOREM OrderInvInvariant == Spec => []OrderInv
<1>1. Init => TypeOK /\ OrderInv
    BY InitTypeOK, InitOrderInv
<1>2. TypeOK /\ OrderInv /\ [Next]_vars => TypeOK' /\ OrderInv'
    BY NextTypeOK, NextOrderInv
<1>3. QED  BY <1>1, <1>2, PTL DEF Spec

=============================================================================
