----------------------- MODULE ConcurrencyControlProofs -----------------------
(***************************************************************************)
(* Theorems about ConcurrencyControl, for every number of executions and   *)
(* callers, every limit and every pattern of cancellation.                 *)
(***************************************************************************)
EXTENDS ConcurrencyControl, QueueLemmas

(***************************************************************************)
(* The inductive invariant.  TypeOK and CapacityAccounting are inductive   *)
(* together; NoIdleSlot needs both, because whether a caller is let        *)
(* through is decided from the counter alone.                              *)
(***************************************************************************)
IInv ==
    /\ TypeOK
    /\ CapacityAccounting
    /\ NoIdleSlot

\* The limit is an integer, and positive where the service is enabled.
LEMMA LimitIsInteger ==
    /\ Limit \in Int
    /\ InitiallyEnabled => Limit >= 1
BY LimitAssumption DEF Limit, InitiallyEnabled

\* The queue is a sequence with a length, empty when the length is zero.
LEMMA QueueLength ==
    ASSUME queue \in Seq(Item)
    PROVE  /\ Len(queue) \in Nat
           /\ DOMAIN queue = 1..Len(queue)
           /\ queue = <<>> <=> Len(queue) = 0
BY LenProperties, EmptySeq

\* What resolveNext leaves behind, when items are those still queued and slots
\* those in use: it hands out one slot for the one item it takes, if any.
LEMMA ResolveNextProperties ==
    ASSUME NEW items \in Seq(Item), NEW slots \in Int, slots + 1 >= 0,
           items = <<>> => slots >= 0,
           settled \subseteq Calls,
           ResolveNext(items, slots)
    PROVE  /\ queue' \in Seq(Item)
           /\ settled' \subseteq Calls
           /\ inUse' \in Nat
           /\ inUse' + Len(queue') = slots + Len(items)
           /\ queue' # <<>> => inUse' = slots + 1
<1>1. CASE items = <<>>
  BY <1>1, EmptySeq DEF ResolveNext
<1>2. CASE items # <<>>
  <2>1. /\ Head(items) \in Item
        /\ Tail(items) \in Seq(Item)
        /\ Len(Tail(items)) = Len(items) - 1
        /\ Len(items) \in Nat
    BY <1>2, HeadTailProperties, LenProperties
  <2>2. /\ queue' = Tail(items) /\ inUse' = slots + 1
        /\ settled' = settled \cup {Head(items).resolve}
    BY <1>2 DEF ResolveNext
  <2>3. settled' \subseteq Calls
    BY <2>1, <2>2 DEF Item
  <2>4. inUse' \in Nat /\ inUse' + Len(queue') = slots + Len(items)
    BY ONLY <2>1, <2>2, slots \in Int, slots + 1 >= 0
  <2> QED
    BY <2>1, <2>2, <2>3, <2>4
<1> QED
  BY <1>1, <1>2

\* The invariant holds when the service is constructed.
LEMMA InitInvariant == CCInit => IInv
BY LimitIsInteger, EmptySeq
   DEF CCInit, IInv, TypeOK, CapacityAccounting, NoIdleSlot, InitiallyEnabled

\* enqueue.
LEMMA EnqueueInvariant ==
    ASSUME IInv, NEW call \in Calls, NEW id \in Executions, Enqueue(call, id)
    PROVE  IInv'
<1> DEFINE item == [executionId |-> id, resolve |-> call]
<1> USE DEF IInv, TypeOK, CapacityAccounting, NoIdleSlot
<1>1. item \in Item
  BY DEF Item
<1>2. CASE capacity - 1 < 0
  <2>1. /\ Append(queue, item) \in Seq(Item)
        /\ Len(Append(queue, item)) = Len(queue) + 1
    BY <1>1, AppendProperties
  <2>2. inUse >= Limit
    BY <1>2, QueueLength, LimitIsInteger
  <2>3. queue' = Append(queue, item) /\ UNCHANGED <<inUse, isEnabled>>
        /\ capacity' = capacity - 1 /\ settled' = settled \ {call}
    BY <1>2 DEF Enqueue
  <2> HIDE DEF item
  <2> QED
    BY <2>1, <2>2, <2>3, QueueLength, LimitIsInteger
<1>3. CASE capacity - 1 >= 0
  <2>1. /\ capacity' = capacity - 1 /\ settled' = settled \cup {call}
        /\ inUse' = inUse + 1 /\ UNCHANGED <<queue, isEnabled>>
    BY <1>3 DEF Enqueue
  <2> QED
    BY <2>1, QueueLength, LimitIsInteger
<1> QED
  BY <1>2, <1>3

\* dequeue, by a caller that holds a slot.
LEMMA DequeueInvariant ==
    ASSUME IInv, inUse > 0, Dequeue
    PROVE  IInv'
<1> USE DEF IInv, TypeOK, CapacityAccounting, NoIdleSlot
<1>1. /\ queue' \in Seq(Item) /\ settled' \subseteq Calls /\ inUse' \in Nat
      /\ inUse' + Len(queue') = inUse - 1 + Len(queue)
      /\ queue' # <<>> => inUse' = inUse
  BY ResolveNextProperties DEF Dequeue
<1>2. queue' # <<>> => queue # <<>>
  BY EmptySeq DEF Dequeue, ResolveNext
<1>3. capacity' = capacity + 1 /\ UNCHANGED isEnabled
  BY DEF Dequeue
<1>4. Len(queue') \in Nat
  BY <1>1, LenProperties
<1> QED
  BY <1>1, <1>2, <1>3, <1>4, QueueLength, LimitIsInteger

\* What the limit l leaves grows by one when u slots and n items become v and m.
LEMMA OneSlotBack ==
    ASSUME NEW l \in Int, NEW u \in Int, NEW n \in Int, NEW v \in Int, NEW m \in Int,
           v + m = u + n - 1
    PROVE  (l - u - n) + 1 = l - v - m
OBVIOUS

\* remove of an execution that waits.
LEMMA RemoveInvariant ==
    ASSUME IInv, NEW id \in Executions, RemoveQueued(id)
    PROVE  IInv'
<1> USE DEF IInv, TypeOK, CapacityAccounting, NoIdleSlot
<1>1. CASE UNCHANGED ccVars
  BY <1>1 DEF ccVars
<1>2. CASE ~ UNCHANGED ccVars
  <2>1. PICK i \in DOMAIN queue : ResolveNext(RemoveAt(queue, i), inUse)
    BY <1>2 DEF RemoveQueued
  <2>2. capacity' = capacity + 1 /\ UNCHANGED isEnabled
    BY <1>2 DEF RemoveQueued
  <2>3. i \in 1..Len(queue)
    BY QueueLength
  <2>4. /\ RemoveAt(queue, i) \in Seq(Item)
        /\ Len(RemoveAt(queue, i)) = Len(queue) - 1
    BY <2>3, RemoveAtProperties
  <2>5. /\ queue' \in Seq(Item) /\ settled' \subseteq Calls /\ inUse' \in Nat
        /\ inUse' + Len(queue') = inUse + Len(RemoveAt(queue, i))
        /\ queue' # <<>> => inUse' = inUse + 1
    <3>1. inUse \in Int /\ inUse + 1 >= 0 /\ inUse >= 0 /\ settled \subseteq Calls
      OBVIOUS
    <3> DEFINE rest == RemoveAt(queue, i)
    <3>2. rest \in Seq(Item) /\ ResolveNext(rest, inUse) /\ Len(rest) = Len(queue) - 1
      BY <2>1, <2>4
    <3> HIDE DEF rest
    <3>3. rest = <<>> => inUse >= 0
      BY <3>1
    <3>4. /\ queue' \in Seq(Item) /\ settled' \subseteq Calls /\ inUse' \in Nat
          /\ inUse' + Len(queue') = inUse + Len(rest)
          /\ queue' # <<>> => inUse' = inUse + 1
      BY ONLY <3>1, <3>2, <3>3, ResolveNextProperties
    <3> QED
      BY <3>4 DEF rest
  <2>6. queue # <<>> /\ Len(queue') \in Nat
    BY <2>3, <2>5, QueueLength, LenProperties
  <2>7. inUse' + Len(queue') = inUse + Len(queue) - 1
    <3>1. inUse \in Int /\ Len(queue) \in Nat
      BY QueueLength
    <3> QED
      BY ONLY <2>4, <2>5, <3>1
  <2>8. capacity' = Limit - inUse' - Len(queue')
    <3>1. capacity = Limit - inUse - Len(queue) /\ inUse \in Int /\ Len(queue) \in Int
      BY QueueLength
    <3>2. inUse' \in Int /\ Len(queue') \in Int
      BY <2>5, <2>6
    <3> QED
      BY <2>2, <2>7, <3>1, <3>2, LimitIsInteger, OneSlotBack
  <2>9. queue' # <<>> => inUse' >= Limit
    BY <2>5, <2>6, LimitIsInteger
  <2> QED
    BY <2>2, <2>5, <2>8, <2>9
<1> QED
  BY <1>1, <1>2

\* Every operation of the service preserves the invariant.
THEOREM NextInvariant == IInv /\ [Next]_ccVars => IInv'
<1> SUFFICES ASSUME IInv, [Next]_ccVars
             PROVE  IInv'
  OBVIOUS
<1>1. ASSUME NEW call \in Calls, NEW id \in Executions, NEW mode \in CallerModes,
             Arrive(call, id, mode)
      PROVE  IInv'
  <2>1. CASE Bypassed(mode) /\ settled' = settled \cup {call}
             /\ UNCHANGED <<isEnabled, capacity, queue, inUse>>
    BY <2>1 DEF IInv, TypeOK, CapacityAccounting, NoIdleSlot
  <2>2. CASE Enqueue(call, id)
    BY <2>2, EnqueueInvariant
  <2> QED
    BY <1>1, <2>1, <2>2 DEF Arrive, Throttle
<1>2. ASSUME NEW mode \in CallerModes, Finish(mode)
      PROVE  IInv'
  <2>1. CASE UNCHANGED ccVars
    BY <2>1 DEF IInv, TypeOK, CapacityAccounting, NoIdleSlot, ccVars
  <2>2. CASE Dequeue
    BY <1>2, <2>2, DequeueInvariant DEF Finish
  <2> QED
    BY <1>2, <2>1, <2>2 DEF Finish, Release
<1>3. ASSUME NEW id \in Cancellable, NEW mode \in CallerModes, Stop(id, mode)
      PROVE  IInv'
  <2>1. CASE UNCHANGED ccVars
    BY <2>1 DEF IInv, TypeOK, CapacityAccounting, NoIdleSlot, ccVars
  <2>2. CASE RemoveQueued(id)
    BY <2>2, RemoveInvariant, CancellableAssumption
  <2> QED
    BY <1>3, <2>1, <2>2 DEF Stop, RemoveExecution
<1>4. CASE Disable
  BY <1>4 DEF Disable, IInv, TypeOK, CapacityAccounting, NoIdleSlot
<1>5. CASE UNCHANGED ccVars
  BY <1>5 DEF ccVars, IInv, TypeOK, CapacityAccounting, NoIdleSlot
<1> QED
  BY <1>1, <1>2, <1>3, <1>4, <1>5 DEF Next

\* The variables keep their types: in particular no slot is released that was
\* not handed out.
THEOREM TypeCorrect == Spec => []TypeOK
<1>1. IInv => TypeOK
  BY DEF IInv
<1> QED
  BY InitInvariant, NextInvariant, <1>1, PTL DEF Spec

\* The counter always equals the limit less the slots in use and the callers
\* waiting.
THEOREM CapacityAccounted == Spec => []CapacityAccounting
<1>1. IInv => CapacityAccounting
  BY DEF IInv
<1> QED
  BY InitInvariant, NextInvariant, <1>1, PTL DEF Spec

\* No caller waits while a slot is free.
THEOREM SlotsNeverIdle == Spec => []NoIdleSlot
<1>1. IInv => NoIdleSlot
  BY DEF IInv
<1> QED
  BY InitInvariant, NextInvariant, <1>1, PTL DEF Spec

-------------------------------------------------------------------------------
(***************************************************************************)
(* The line.  OnePlaceInLine is inductive given TypeOK; that nobody is     *)
(* overtaken, and that nobody proceeds at shutdown, follow from it, for a  *)
(* promise that is settled in a step is then that of one place only.       *)
(***************************************************************************)
Apart(items) ==
    \A i, j \in 1..Len(items) : items[i].resolve = items[j].resolve => i = j
Unsettled(items) ==
    \A i \in 1..Len(items) : items[i].resolve \notin settled

\* OnePlaceInLine, said of the queue as a sequence.
LEMMA PlacesOfQueue ==
    ASSUME queue \in Seq(Item)
    PROVE  OnePlaceInLine <=> Apart(queue) /\ Unsettled(queue)
BY QueueLength DEF OnePlaceInLine, Apart, Unsettled

\* resolveNext keeps a line in which everyone has one place.
LEMMA ResolveNextPlaces ==
    ASSUME NEW items \in Seq(Item), NEW slots,
           Apart(items), Unsettled(items), ResolveNext(items, slots)
    PROVE  OnePlaceInLine'
<1>1. CASE items = <<>>
  <2>1. queue' = <<>>
    BY <1>1 DEF ResolveNext
  <2>2. DOMAIN queue' = {}
    BY <2>1, EmptySeq
  <2> QED
    BY <2>2 DEF OnePlaceInLine
<1>2. CASE items # <<>>
  <2>1. /\ queue' = Tail(items)
        /\ settled' = settled \cup {Head(items).resolve}
    BY <1>2 DEF ResolveNext
  <2>2. /\ Tail(items) \in Seq(Item)
        /\ Len(items) \in Nat
        /\ Len(Tail(items)) = Len(items) - 1
        /\ \A k \in 1..Len(Tail(items)) : Tail(items)[k] = items[k + 1]
    BY <1>2, HeadTailProperties, LenProperties
  <2>3. DOMAIN queue' = 1..(Len(items) - 1)
    BY <2>1, <2>2, LenProperties
  <2>4. Head(items) = items[1] /\ Len(items) >= 1
    BY <1>2, <2>2, EmptySeq
  <2>5. ASSUME NEW k \in DOMAIN queue'
        PROVE  /\ queue'[k] = items[k + 1]
               /\ k + 1 \in 1..Len(items)
               /\ k + 1 # 1
    BY <2>1, <2>2, <2>3
  <2>6. ASSUME NEW i \in DOMAIN queue', NEW j \in DOMAIN queue',
               queue'[i].resolve = queue'[j].resolve
        PROVE  i = j
    <3>1. i + 1 = j + 1
      BY <2>5, <2>6 DEF Apart
    <3> QED
      BY <3>1, <2>3, <2>2
  <2>7. ASSUME NEW i \in DOMAIN queue'
        PROVE  queue'[i].resolve \notin settled'
    <3>1. items[i + 1].resolve \notin settled
      BY <2>5 DEF Unsettled
    <3>2. 1 \in 1..Len(items)
      BY <2>2, <2>4
    <3>3. items[i + 1].resolve # items[1].resolve
      BY <3>2, <2>5 DEF Apart
    <3> QED
      BY <3>1, <3>3, <2>1, <2>4, <2>5
  <2> QED
    BY <2>6, <2>7 DEF OnePlaceInLine
<1> QED
  BY <1>1, <1>2

\* A line from which one item was taken is still one.
LEMMA RemoveAtPlaces ==
    ASSUME queue \in Seq(Item), OnePlaceInLine, NEW r \in 1..Len(queue)
    PROVE  /\ RemoveAt(queue, r) \in Seq(Item)
           /\ Apart(RemoveAt(queue, r))
           /\ Unsettled(RemoveAt(queue, r))
<1> DEFINE items == RemoveAt(queue, r)
<1>1. /\ items \in Seq(Item)
      /\ Len(items) = Len(queue) - 1
      /\ \A k \in 1..(Len(queue) - 1) : items[k] = IF k < r THEN queue[k] ELSE queue[k + 1]
  BY RemoveAtProperties
<1>2. Len(queue) \in Nat /\ Apart(queue) /\ Unsettled(queue)
  BY PlacesOfQueue, QueueLength
<1> HIDE DEF items
<1>3. Apart(items)
  <2> SUFFICES ASSUME NEW i \in 1..Len(items), NEW j \in 1..Len(items),
                      items[i].resolve = items[j].resolve
               PROVE  i = j
    BY DEF Apart
  <2> DEFINE at(k) == IF k < r THEN k ELSE k + 1
  <2>1. /\ items[i] = queue[at(i)] /\ at(i) \in 1..Len(queue)
        /\ items[j] = queue[at(j)] /\ at(j) \in 1..Len(queue)
    BY <1>1, <1>2
  <2>2. at(i) = at(j)
    <3> HIDE DEF at
    <3> QED
      BY <2>1, <1>2 DEF Apart
  <2> QED
    BY <2>2, <1>1, <1>2
<1>4. Unsettled(items)
  <2> SUFFICES ASSUME NEW i \in 1..Len(items)
               PROVE  items[i].resolve \notin settled
    BY DEF Unsettled
  <2>1. \E k \in 1..Len(queue) : items[i] = queue[k]
    <3>1. CASE i < r
      BY <3>1, <1>1, <1>2
    <3>2. CASE i >= r
      <4>1. i + 1 \in 1..Len(queue) /\ ~(i < r)
        BY <3>2, <1>1, <1>2
      <4> QED
        BY <4>1, <1>1
    <3>3. i < r \/ i >= r
      BY <1>1, <1>2
    <3> QED
      BY <3>1, <3>2, <3>3
  <2> QED
    BY <2>1, <1>2 DEF Unsettled
<1> QED
  BY <1>1, <1>3, <1>4 DEF items

\* The state part of what is proved about the line.
LineInv == TypeOK /\ OnePlaceInLine

\* A new caller joins behind everyone else, or passes; nobody else moves.
LEMMA ArrivePlaces ==
    ASSUME LineInv, NEW call \in Calls, NEW id \in Executions, NEW mode \in CallerModes,
           Arrive(call, id, mode)
    PROVE  OnePlaceInLine'
<1>1. /\ queue \in Seq(Item) /\ Len(queue) \in Nat
      /\ DOMAIN queue = 1..Len(queue)
      /\ \A i \in DOMAIN queue : queue[i].resolve # call
  BY QueueLength DEF LineInv, TypeOK, Arrive, Waiters
<1>2. CASE settled' = settled \cup {call} /\ UNCHANGED queue
  BY <1>1, <1>2 DEF LineInv, OnePlaceInLine
<1>3. CASE queue' = Append(queue, [executionId |-> id, resolve |-> call])
           /\ settled' = settled \ {call}
  <2> DEFINE item == [executionId |-> id, resolve |-> call]
  <2>1. item \in Item /\ item.resolve = call
    BY DEF Item
  <2> HIDE DEF item
  <2>2. /\ Len(Append(queue, item)) = Len(queue) + 1
        /\ \A i \in 1..Len(queue) : Append(queue, item)[i] = queue[i]
        /\ Append(queue, item)[Len(queue) + 1] = item
        /\ Append(queue, item) \in Seq(Item)
    BY <1>1, <2>1, AppendProperties
  <2>3. queue' = Append(queue, item) /\ DOMAIN queue' = 1..(Len(queue) + 1)
    <3>1. queue' = Append(queue, item)
      BY <1>3 DEF item
    <3> QED
      BY <3>1, <2>2, LenProperties
  <2>4. \A i \in DOMAIN queue' :
           \/ i \in DOMAIN queue /\ queue'[i] = queue[i] /\ queue'[i].resolve # call
           \/ i = Len(queue) + 1 /\ queue'[i].resolve = call
    BY <1>1, <2>1, <2>2, <2>3
  <2>5. \A i \in DOMAIN queue' : queue'[i].resolve \notin settled'
    BY <1>3, <2>4 DEF LineInv, OnePlaceInLine
  <2>6. \A i, j \in DOMAIN queue' : queue'[i].resolve = queue'[j].resolve => i = j
    BY <2>4 DEF LineInv, OnePlaceInLine
  <2> QED
    BY <2>5, <2>6 DEF OnePlaceInLine
<1> QED
  BY <1>2, <1>3 DEF Arrive, Throttle, Enqueue

\* Every operation keeps the line one in which everyone has one place.
LEMMA NextPlaces ==
    ASSUME LineInv, [Next]_ccVars
    PROVE  OnePlaceInLine'
<1> USE DEF LineInv
<1>1. ASSUME NEW call \in Calls, NEW id \in Executions, NEW mode \in CallerModes,
             Arrive(call, id, mode)
      PROVE  OnePlaceInLine'
  BY <1>1, ArrivePlaces
<1>2. CASE UNCHANGED <<queue, settled>>
  BY <1>2 DEF OnePlaceInLine
<1>3. ASSUME Dequeue
      PROVE  OnePlaceInLine'
  <2>1. queue \in Seq(Item) /\ Apart(queue) /\ Unsettled(queue)
    BY PlacesOfQueue DEF TypeOK
  <2> QED
    BY <1>3, <2>1, ResolveNextPlaces DEF Dequeue
<1>4. ASSUME NEW id, RemoveQueued(id), ~UNCHANGED ccVars
      PROVE  OnePlaceInLine'
  <2>1. PICK r \in 1..Len(queue) : ResolveNext(RemoveAt(queue, r), inUse)
    BY <1>4, QueueLength DEF RemoveQueued, TypeOK
  <2> QED
    BY <2>1, RemoveAtPlaces, ResolveNextPlaces DEF TypeOK
<1>5. ASSUME NEW mode \in CallerModes, Finish(mode)
      PROVE  OnePlaceInLine'
  BY <1>2, <1>3, <1>5 DEF Finish, Release, ccVars
<1>6. ASSUME NEW id \in Cancellable, NEW mode \in CallerModes, Stop(id, mode)
      PROVE  OnePlaceInLine'
  BY <1>2, <1>4, <1>6 DEF Stop, RemoveExecution, ccVars
<1>7. CASE Disable
  BY <1>2, <1>7 DEF Disable
<1>8. CASE UNCHANGED ccVars
  BY <1>2, <1>8 DEF ccVars
<1> QED
  BY <1>1, <1>5, <1>6, <1>7, <1>8 DEF Next

\* A caller waits in one place, behind a promise that is not settled.
THEOREM PlacesKept == Spec => []OnePlaceInLine
<1>1. CCInit => OnePlaceInLine
  BY EmptySeq DEF CCInit, OnePlaceInLine
<1>2. TypeOK /\ OnePlaceInLine /\ [Next]_ccVars => OnePlaceInLine'
  BY NextPlaces DEF LineInv
<1> QED
  BY <1>1, <1>2, TypeCorrect, PTL DEF Spec

\* Once the service is disabled, an operation settles no promise that is waited
\* for and leaves the line as it is.
THEOREM LineFrozen == Spec => FrozenAtShutdown
<1>1. ASSUME LineInv, Next, ~isEnabled
      PROVE  UNCHANGED <<queue, capacity>> /\ Waiters \cap settled' = {}
  <2>1. Waiters \cap settled = {}
    BY <1>1 DEF LineInv, OnePlaceInLine, Waiters
  <2>2. ASSUME NEW call \in Calls, NEW id \in Executions, NEW mode \in CallerModes,
               Arrive(call, id, mode)
        PROVE  /\ UNCHANGED <<queue, capacity>>
               /\ settled' = settled \cup {call} /\ call \notin Waiters
    BY <1>1, <2>2 DEF Arrive, Throttle, Bypassed
  <2>3. ASSUME NEW mode \in CallerModes, Finish(mode)
        PROVE  UNCHANGED <<queue, capacity, settled>>
    BY <1>1, <2>3 DEF Finish, Release, Bypassed, ccVars
  <2>4. ASSUME NEW id \in Cancellable, NEW mode \in CallerModes, Stop(id, mode)
        PROVE  UNCHANGED <<queue, capacity, settled>>
    BY <1>1, <2>4 DEF Stop, Has
  <2>5. CASE Disable
    BY <1>1, <2>1, <2>5 DEF Disable
  <2> QED
    BY <1>1, <2>1, <2>2, <2>3, <2>4, <2>5 DEF Next
<1>2. LineInv /\ [Next]_ccVars
         => [~isEnabled => UNCHANGED <<queue, capacity>> /\ Waiters \cap settled' = {}]_ccVars
  BY <1>1
<1> QED
  BY <1>2, TypeCorrect, PlacesKept, PTL DEF Spec, FrozenAtShutdown, LineInv

\* The caller that resolveNext lets through is the first of the items, and what
\* waits afterwards are the others.
LEMMA FirstLetThrough ==
    ASSUME NEW items \in Seq(Item), NEW slots, ResolveNext(items, slots)
    PROVE  /\ \A c \in settled' : c \in settled \/ (items # <<>> /\ c = items[1].resolve)
           /\ items # <<>> => Len(items) >= 1
           /\ \A k \in DOMAIN queue' :
                 k + 1 \in 2..Len(items) /\ queue'[k] = items[k + 1]
<1>1. CASE items = <<>>
  <2>1. DOMAIN queue' = {} /\ settled' = settled
    BY <1>1, EmptySeq DEF ResolveNext
  <2> QED
    BY <1>1, <2>1
<1>2. CASE items # <<>>
  <2>1. /\ Tail(items) \in Seq(Item)
        /\ Len(items) \in Nat
        /\ Len(Tail(items)) = Len(items) - 1
        /\ \A k \in 1..Len(Tail(items)) : Tail(items)[k] = items[k + 1]
    BY <1>2, HeadTailProperties, LenProperties
  <2>2. queue' = Tail(items) /\ DOMAIN queue' = 1..(Len(items) - 1)
    BY <1>2, <2>1, LenProperties DEF ResolveNext
  <2>3. settled' = settled \cup {items[1].resolve}
    BY <1>2 DEF ResolveNext
  <2>4. Len(items) >= 1
    BY <1>2, <2>1, EmptySeq
  <2> QED
    BY <1>2, <2>1, <2>2, <2>3, <2>4
<1> QED
  BY <1>1, <1>2

\* Of two callers that wait, the one behind is let through only when the one
\* ahead does not wait afterwards.
THEOREM NobodyOvertaken == Spec => NoOvertaking
<1>1. ASSUME LineInv, Next,
             NEW i \in DOMAIN queue, NEW j \in DOMAIN queue,
             i < j, queue[j].resolve \in settled'
      PROVE  queue[i].resolve \notin { queue'[k].resolve : k \in DOMAIN queue' }
  <2>1. /\ queue \in Seq(Item) /\ Len(queue) \in Nat
        /\ i \in 1..Len(queue) /\ j \in 1..Len(queue)
        /\ Apart(queue)
        /\ queue[j].resolve \notin settled
    BY <1>1, QueueLength, PlacesOfQueue DEF LineInv, TypeOK, Unsettled
  <2>2. settled' # settled
    BY <1>1, <2>1
  <2>3. ASSUME NEW call \in Calls, NEW id \in Executions, NEW mode \in CallerModes,
               Arrive(call, id, mode)
        PROVE  FALSE
    <3>1. queue[j].resolve # call
      BY <2>3 DEF Arrive, Waiters
    <3>2. settled' \subseteq settled \cup {call}
      BY <2>3 DEF Arrive, Throttle, Enqueue
    <3> QED
      BY <1>1, <2>1, <3>1, <3>2
  <2>4. CASE Dequeue
    <3>1. queue[j].resolve = queue[1].resolve /\ Len(queue) >= 1
      BY <1>1, <2>1, <2>4, FirstLetThrough DEF Dequeue
    <3>2. j = 1
      BY <2>1, <3>1 DEF Apart
    <3> QED
      BY <1>1, <2>1, <3>2
  <2>5. ASSUME NEW id, RemoveQueued(id)
        PROVE  queue[i].resolve \notin { queue'[k].resolve : k \in DOMAIN queue' }
    <3>1. PICK r \in 1..Len(queue) : ResolveNext(RemoveAt(queue, r), inUse)
      BY <2>1, <2>2, <2>5, QueueLength DEF RemoveQueued, ccVars
    <3> DEFINE items == RemoveAt(queue, r)
    <3>2. /\ items \in Seq(Item)
          /\ Len(items) = Len(queue) - 1
          /\ \A k \in 1..(Len(queue) - 1) :
                items[k] = IF k < r THEN queue[k] ELSE queue[k + 1]
      BY <2>1, RemoveAtProperties
    <3>3. ResolveNext(items, inUse)
      BY <3>1
    <3> HIDE DEF items
    <3>4. /\ queue[j].resolve = items[1].resolve
          /\ Len(items) >= 1
          /\ \A k \in DOMAIN queue' : k + 1 \in 2..Len(items) /\ queue'[k] = items[k + 1]
      BY <1>1, <2>1, <3>2, <3>3, FirstLetThrough
    <3>5. CASE r # 1
      <4>1. items[1] = queue[1]
        BY <2>1, <3>2, <3>4, <3>5
      <4>2. j = 1
        BY <2>1, <3>4, <4>1 DEF Apart
      <4> QED
        BY <1>1, <2>1, <4>2
    <3>6. CASE r = 1
      <4>1. items[1] = queue[2] /\ 2 \in 1..Len(queue)
        BY <2>1, <3>2, <3>4, <3>6
      <4>2. j = 2
        BY <2>1, <3>4, <4>1 DEF Apart
      <4>3. i = 1
        BY <1>1, <2>1, <4>2
      <4>4. ASSUME NEW k \in DOMAIN queue'
            PROVE  queue'[k].resolve # queue[1].resolve
        <5>1. k + 1 \in 2..Len(items) /\ queue'[k] = items[k + 1]
          BY <3>4
        <5>2. items[k + 1] = queue[k + 1 + 1] /\ k + 1 + 1 \in 3..Len(queue)
          BY <5>1, <2>1, <3>2, <3>6
        <5> QED
          BY <5>1, <5>2, <2>1, <4>1 DEF Apart
      <4> QED
        BY <4>3, <4>4
    <3> QED
      BY <3>5, <3>6
  <2>6. ASSUME NEW mode \in CallerModes, Finish(mode)
        PROVE  queue[i].resolve \notin { queue'[k].resolve : k \in DOMAIN queue' }
    BY <2>2, <2>4, <2>6 DEF Finish, Release, ccVars
  <2>7. ASSUME NEW id \in Cancellable, NEW mode \in CallerModes, Stop(id, mode)
        PROVE  queue[i].resolve \notin { queue'[k].resolve : k \in DOMAIN queue' }
    BY <2>2, <2>5, <2>7 DEF Stop, RemoveExecution, ccVars
  <2> QED
    BY <1>1, <2>2, <2>3, <2>6, <2>7 DEF Next, Disable
<1>2. LineInv /\ [Next]_ccVars
         => [\A i, j \in DOMAIN queue :
               (i < j /\ queue[j].resolve \in settled')
                  => queue[i].resolve \notin { queue'[k].resolve : k \in DOMAIN queue' }]_ccVars
  BY <1>1
<1> QED
  BY <1>2, TypeCorrect, PlacesKept, PTL DEF Spec, NoOvertaking, LineInv

-------------------------------------------------------------------------------
(***************************************************************************)
(* Without cancellations.                                                  *)
(***************************************************************************)

\* The limit is kept by every step that is not the removal of a waiting execution.
LEMMA NextWithinLimit ==
    ASSUME Cancellable = {}
    PROVE  IInv /\ WithinLimit /\ [Next]_ccVars => WithinLimit'
<1> SUFFICES ASSUME IInv, WithinLimit, [Next]_ccVars
             PROVE  WithinLimit'
  OBVIOUS
<1> USE DEF IInv, TypeOK, CapacityAccounting, NoIdleSlot, WithinLimit
<1>1. ASSUME NEW call \in Calls, NEW id \in Executions, NEW mode \in CallerModes,
             Arrive(call, id, mode)
      PROVE  WithinLimit'
  <2>1. /\ isEnabled' = isEnabled
        /\ inUse' = inUse \/ (capacity - 1 >= 0 /\ inUse' = inUse + 1)
    BY <1>1 DEF Arrive, Throttle, Enqueue
  <2>2. inUse <= Limit - Len(queue) - capacity
    BY QueueLength, LimitIsInteger
  <2> QED
    BY <2>1, <2>2, QueueLength, LimitIsInteger
<1>2. ASSUME NEW mode \in CallerModes, Finish(mode)
      PROVE  WithinLimit'
  <2>1. /\ isEnabled' = isEnabled
        /\ inUse' = inUse \/ inUse' = inUse - 1 \/ inUse' = inUse - 1 + 1
    BY <1>2 DEF Finish, Release, Dequeue, ResolveNext, ccVars
  <2> QED
    BY <2>1, LimitIsInteger
<1>3. CASE Disable
  BY <1>3 DEF Disable
<1>4. CASE UNCHANGED ccVars
  BY <1>4 DEF ccVars
<1> QED
  BY <1>1, <1>2, <1>3, <1>4 DEF Next

\* While nobody stops an enqueued execution, production executions never exceed
\* the limit.
THEOREM LimitKept ==
    ASSUME Cancellable = {}
    PROVE  Spec => []WithinLimit
<1>1. CCInit => WithinLimit
  BY LimitIsInteger DEF CCInit, WithinLimit
<1>2. IInv /\ WithinLimit /\ [Next]_ccVars => WithinLimit'
  BY NextWithinLimit
<1> QED
  BY InitInvariant, NextInvariant, <1>1, <1>2, PTL DEF Spec

\* Each step of the service is a step of the line of AdmissionLine, or changes
\* nothing there.
LEMMA StepRefinesLine ==
    ASSUME Cancellable = {}
    PROVE  IInv /\ WithinLimit /\ [Next]_ccVars => [Line!Next]_Line!vars
<1> SUFFICES ASSUME IInv, WithinLimit, [Next]_ccVars
             PROVE  [Line!Next]_Line!vars
  OBVIOUS
<1>1. ASSUME NEW call \in Calls, NEW id \in Executions, NEW mode \in CallerModes,
             Arrive(call, id, mode)
      PROVE  Line!Next
  <2> DEFINE item == [executionId |-> id, resolve |-> call]
  <2>1. item \in Item /\ item.resolve = call
    BY DEF Item
  <2>2. CASE Bypassed(mode) /\ settled' = settled \cup {call}
             /\ UNCHANGED <<isEnabled, capacity, queue, inUse>>
    <3>1. Line!PassBy(item)
      BY <2>2, <2>1 DEF Line!PassBy
    <3> QED
      BY <3>1, <2>1 DEF Line!Next
  <2>3. CASE ~Bypassed(mode) /\ Enqueue(call, id)
    <3>0. isEnabled
      BY <2>3 DEF Bypassed
    <3>1. CASE capacity - 1 < 0
      <4>1. inUse = Limit
        BY <3>0, <3>1, QueueLength, LimitIsInteger
           DEF IInv, TypeOK, CapacityAccounting, NoIdleSlot, WithinLimit
      <4>2. Line!Wait(item)
        BY <3>0, <3>1, <2>3, <2>1, <4>1 DEF Enqueue, Line!Wait
      <4> QED
        BY <4>2, <2>1 DEF Line!Next
    <3>2. CASE capacity - 1 >= 0
      <4>1. inUse < Limit
        BY <3>2, QueueLength, LimitIsInteger DEF IInv, TypeOK, CapacityAccounting
      <4>2. Line!GoThrough(item)
        BY <3>0, <3>2, <2>3, <2>1, <4>1 DEF Enqueue, Line!GoThrough, IInv, TypeOK
      <4> QED
        BY <4>2, <2>1 DEF Line!Next
    <3>3. capacity - 1 < 0 \/ capacity - 1 >= 0
      BY DEF IInv, TypeOK
    <3> QED
      BY <3>1, <3>2, <3>3
  <2> QED
    BY <1>1, <2>2, <2>3 DEF Arrive, Throttle
<1>2. ASSUME NEW mode \in CallerModes, Finish(mode)
      PROVE  [Line!Next]_Line!vars
  <2>1. CASE UNCHANGED ccVars
    BY <2>1 DEF ccVars, Line!vars
  <2>2. CASE isEnabled /\ Dequeue
    <3>1. CASE queue = <<>>
      <4>1. Line!Leave
        BY <1>2, <2>2, <3>1 DEF Finish, Dequeue, ResolveNext, Line!Leave
      <4> QED
        BY <4>1 DEF Line!Next
    <3>2. CASE queue # <<>>
      <4>1. inUse' = inUse
        BY <2>2, <3>2 DEF Dequeue, ResolveNext, IInv, TypeOK
      <4>2. Line!HandOver
        BY <1>2, <2>2, <3>2, <4>1 DEF Finish, Dequeue, ResolveNext, Line!HandOver
      <4> QED
        BY <4>2 DEF Line!Next
    <3> QED
      BY <3>1, <3>2
  <2> QED
    BY <1>2, <2>1, <2>2 DEF Finish, Release, Bypassed
<1>3. CASE Disable
  BY <1>3 DEF Disable, Line!Close, Line!Next
<1>4. CASE UNCHANGED ccVars
  BY <1>4 DEF ccVars, Line!vars
<1> QED
  BY <1>1, <1>2, <1>3, <1>4 DEF Next

\* The signed counter and the queue together implement a line in front of Limit
\* slots, while nobody stops an enqueued execution.
THEOREM LineImplemented ==
    ASSUME Cancellable = {}
    PROVE  Spec => ImplementsLine
<1>1. CCInit => Line!Init
  BY DEF CCInit, Line!Init, InitiallyEnabled
<1>2. IInv /\ WithinLimit /\ [Next]_ccVars => [Line!Next]_Line!vars
  BY StepRefinesLine
<1>3. CCInit => WithinLimit
  BY LimitIsInteger DEF CCInit, WithinLimit
<1>4. IInv /\ WithinLimit /\ [Next]_ccVars => WithinLimit'
  BY NextWithinLimit
<1> QED
  BY InitInvariant, NextInvariant, <1>1, <1>2, <1>3, <1>4, PTL
     DEF Spec, ImplementsLine, Line!Spec
===============================================================================
