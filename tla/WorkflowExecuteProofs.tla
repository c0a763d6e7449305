------------------------- MODULE WorkflowExecuteProofs -------------------------
(***************************************************************************)
(* Theorems about the engine, for every workflow and whatever its nodes    *)
(* return, throw and wait for: each item names where its data came from,   *)
(* at the end no merge is left that could have run, nothing that is passed *)
(* on is lost, and no merge that has run gets data later.                  *)
(***************************************************************************)
EXTENDS WorkflowExecute, QueueLemmas, FiniteSetTheorems, WellFoundedInduction

-------------------------------------------------------------------------------
(***************************************************************************)
(* Numbers and sequences.                                                  *)
(***************************************************************************)

\* Induction, from the fact that every set of numbers has a least one.
LEMMA SmallestIs ==
    ASSUME NEW S \in SUBSET Nat, S # {}
    PROVE  Smallest(S) \in S /\ \A j \in S : Smallest(S) <= j
<1>1. PICK x \in S : \A y \in S : ~(<<y, x>> \in OpToRel(<, Nat))
  BY NatLessThanWellFounded, WFMin
<1>2. \A y \in S : ~(y < x)
  BY <1>1 DEF OpToRel
<1>3. \A y \in S : x <= y
  BY <1>2
<1> QED BY <1>3 DEF Smallest

LEMMA Induct ==
    ASSUME NEW S, 0 \in S, \A n \in Nat : n \in S => n + 1 \in S
    PROVE  \A n \in Nat : n \in S
<1> SUFFICES ASSUME Nat \ S # {}
             PROVE  FALSE
  OBVIOUS
<1> DEFINE x == Smallest(Nat \ S)
<1>1. x \in Nat \ S /\ \A j \in Nat \ S : x <= j
  BY SmallestIs
<1> HIDE DEF x
<1>2. x \in Nat /\ x # 0
  BY <1>1
<1>3. x - 1 \in Nat /\ x - 1 \in S
  BY <1>1, <1>2
<1> QED BY <1>1, <1>3, (x - 1) + 1 = x

LEMMA OrderWithout ==
    ASSUME NEW S, NEW s \in Seq(S), IsInjective(s), NEW x
    PROVE  /\ RemoveFirst(s, x) \in Seq(S) /\ IsInjective(RemoveFirst(s, x))
           /\ ToSet(RemoveFirst(s, x)) = ToSet(s) \ {x}
<1>1. Len(s) \in Nat /\ DOMAIN s = 1..Len(s)
  BY LenProperties
<1>2. CASE \A i \in 1..Len(s) : s[i] # x
  BY <1>1, <1>2 DEF RemoveFirst, ToSet
<1>3. ASSUME NEW k \in 1..Len(s), s[k] = x
      PROVE  /\ RemoveFirst(s, x) \in Seq(S) /\ IsInjective(RemoveFirst(s, x))
             /\ ToSet(RemoveFirst(s, x)) = ToSet(s) \ {x}
  <2> DEFINE I == {i \in 1..Len(s) : s[i] = x}
             i == Min(I)
             t == RemoveAt(s, i)
  <2>1. RemoveFirst(s, x) = t
    BY <1>3 DEF RemoveFirst, SelectInSeq
  <2>2. I = {k}
    BY <1>1, <1>3 DEF IsInjective
  <2>3. i = k
    BY <2>2, <1>1 DEF Min
  <2> HIDE DEF I, i
  <2>4. /\ t \in Seq(S) /\ Len(t) = Len(s) - 1
        /\ \A j \in 1..(Len(s) - 1) : t[j] = IF j < k THEN s[j] ELSE s[j + 1]
    BY <1>3, <2>3, RemoveAtProperties
  <2>5. DOMAIN t = 1..(Len(s) - 1)
    BY <2>4, LenProperties
  <2> HIDE DEF t
  <2> DEFINE place(j) == IF j < k THEN j ELSE j + 1
  <2>a. ASSUME NEW j \in DOMAIN t
        PROVE  place(j) \in DOMAIN s /\ place(j) # k /\ t[j] = s[place(j)]
    BY <1>1, <2>4, <2>5
  <2>b. \A j, l \in DOMAIN t : place(j) = place(l) => j = l
    BY <1>1, <2>5
  <2> HIDE DEF place
  <2>6. IsInjective(t)
    BY <2>a, <2>b DEF IsInjective
  <2>7. ToSet(t) \subseteq ToSet(s) \ {x}
    <3>1. ASSUME NEW j \in DOMAIN t
          PROVE  t[j] \in ToSet(s) /\ t[j] # x
      BY <1>1, <1>3, <2>a DEF IsInjective, ToSet
    <3> QED BY <3>1 DEF ToSet
  <2>8. ASSUME NEW y \in ToSet(s) \ {x}
        PROVE  y \in ToSet(t)
    <3>1. PICK j \in 1..Len(s) : s[j] = y /\ j # k
      BY <1>1, <1>3, <2>8 DEF ToSet
    <3>2. CASE j < k
      BY <1>1, <2>4, <2>5, <3>1, <3>2 DEF ToSet
    <3>3. CASE j > k
      <4>1. j - 1 \in 1..(Len(s) - 1) /\ ~(j - 1 < k) /\ (j - 1) + 1 = j
        BY <1>1, <3>3
      <4> QED BY <2>4, <2>5, <3>1, <4>1 DEF ToSet
    <3> QED BY <1>1, <3>1, <3>2, <3>3
  <2> QED BY <2>1, <2>4, <2>6, <2>7, <2>8
<1> QED BY <1>2, <1>3

LEMMA OrderWith ==
    ASSUME NEW S, NEW s \in Seq(S), NEW x \in S
    PROVE  /\ Append(s, x) \in Seq(S) /\ Append(s, x) # <<>>
           /\ ToSet(Append(s, x)) = ToSet(s) \cup {x}
           /\ IsInjective(s) /\ x \notin ToSet(s) => IsInjective(Append(s, x))
<1>1. /\ Append(s, x) \in Seq(S) /\ Len(Append(s, x)) = Len(s) + 1 /\ Len(s) \in Nat
      /\ \A i \in 1..Len(s) : Append(s, x)[i] = s[i]
      /\ Append(s, x)[Len(s) + 1] = x /\ DOMAIN s = 1..Len(s)
  BY LenProperties
<1>2. DOMAIN Append(s, x) = 1..(Len(s) + 1)
  BY <1>1, LenProperties
<1>3. \A i \in 1..(Len(s) + 1) : i \in 1..Len(s) \/ i = Len(s) + 1
  BY <1>1
<1>4. ToSet(Append(s, x)) = ToSet(s) \cup {x}
  BY <1>1, <1>2, <1>3 DEF ToSet
<1>5. ASSUME IsInjective(s), x \notin ToSet(s)
      PROVE  IsInjective(Append(s, x))
  BY <1>1, <1>2, <1>3, <1>5 DEF ToSet, IsInjective
<1> QED BY <1>1, <1>4, <1>5, EmptySeq

LEMMA Pushed ==
    ASSUME NEW S, NEW s \in Seq(S), NEW x \in S
    PROVE  /\ <<x>> \o s \in Seq(S) /\ <<x>> \o s # <<>>
           /\ ToSet(<<x>> \o s) = ToSet(s) \cup {x}
<1> DEFINE t == <<x>> \o s
<1>1. <<x>> \in Seq(S) /\ Len(<<x>>) = 1 /\ <<x>>[1] = x
  OBVIOUS
<1>2. Len(s) \in Nat /\ DOMAIN s = 1..Len(s)
  BY LenProperties
<1>3. /\ t \in Seq(S) /\ Len(t) = Len(s) + 1
      /\ \A i \in 1..(Len(s) + 1) : t[i] = IF i <= 1 THEN <<x>>[i] ELSE s[i - 1]
  BY <1>1, <1>2, ConcatProperties
<1>4. DOMAIN t = 1..(Len(s) + 1)
  BY <1>3, LenProperties
<1> HIDE DEF t
<1>5. t[1] = x
  BY <1>1, <1>2, <1>3
<1>6. \A i \in 1..Len(s) : t[i + 1] = s[i]
  BY <1>2, <1>3
<1>7. \A i \in 1..(Len(s) + 1) : i = 1 \/ (i - 1 \in 1..Len(s) /\ t[i] = s[i - 1])
  BY <1>2, <1>3
<1>8. ToSet(t) = ToSet(s) \cup {x}
  <2>1. ToSet(t) \subseteq ToSet(s) \cup {x}
    BY <1>2, <1>4, <1>5, <1>7 DEF ToSet
  <2>2. x \in ToSet(t)
    BY <1>2, <1>4, <1>5 DEF ToSet
  <2>3. ASSUME NEW i \in 1..Len(s)
        PROVE  s[i] \in ToSet(t)
    BY <1>2, <1>4, <1>6 DEF ToSet
  <2> QED BY <1>2, <2>1, <2>2, <2>3 DEF ToSet
<1> QED BY <1>2, <1>3, <1>8, EmptySeq DEF t

-------------------------------------------------------------------------------
(***************************************************************************)
(* Workflows, batches and items.                                           *)
(***************************************************************************)
Known == workflow \in Workflows

Items ==
    { item \in UNION { [node : Nodes, main : [inputs -> Batches],
                        source : [inputs -> Sources \cup {NoData}], disabled : BOOLEAN] :
                          inputs \in { Inputs(n) : n \in Nodes } \cup {{1}} } : IsItem(item) }

LEMMA ItemSet == \A item : IsItem(item) <=> item \in Items
<1> SUFFICES ASSUME NEW item, IsItem(item)
             PROVE  item \in Items
  BY DEF Items
<1>1. PICK inputs \in {Inputs(item.node), {1}} :
          item \in [node : Nodes, main : [inputs -> Batches],
                    source : [inputs -> Sources \cup {NoData}], disabled : BOOLEAN]
  BY DEF IsItem
<1>2. item.node \in Nodes
  BY <1>1
<1>3. inputs \in { Inputs(n) : n \in Nodes } \cup {{1}}
  BY <1>2
<1> QED BY <1>1, <1>3 DEF Items

LEMMA ItemLists == \A items : AreItems(items) <=> items \in Seq(Items)
<1>1. ASSUME NEW items, AreItems(items)
      PROVE  items \in Seq(Items)
  <2>1. ToSet(items) \subseteq Items
    BY <1>1, ItemSet DEF AreItems
  <2> QED BY <1>1, <2>1, SeqMonotonic DEF AreItems
<1>2. ASSUME NEW items \in Seq(Items)
      PROVE  AreItems(items)
  <2>1. items \in [1..Len(items) -> Items] /\ Len(items) \in Nat
    BY LenProperties
  <2>2. items \in [1..Len(items) -> ToSet(items)]
    BY <2>1 DEF ToSet
  <2>3. items \in Seq(ToSet(items))
    BY <2>1, <2>2, SeqDef
  <2> QED BY <2>1, <2>3, ItemSet DEF AreItems, ToSet
<1> QED BY <1>1, <1>2

LEMMA Batching ==
    ASSUME Known
    PROVE  /\ NoData \notin Batches /\ NoData \notin Sources /\ {} \in Batches
           /\ \A s \in Sources : {s} \in Batches /\ {s} # {}
           /\ <<workflow.start, 0, 0>> \in Sources
<1>1. workflow.start \in workflow.nodes
  BY WorkflowsAssumption DEF Known
<1>2. <<workflow.start, 0, 0>> \in Sources
  BY <1>1, BoundsAssumption DEF Sources, SourcesOf
<1>3. NoData # {} /\ \A s \in Sources : NoData # s /\ NoData # {s}
  BY NoDataAssumption DEF Known, Sources
<1> QED BY <1>2, <1>3 DEF Batches

LEMMA ConnectionFacts ==
    ASSUME Known, NEW c \in Connections
    PROVE  /\ c \in [from : Nodes, output : Nat \ {0}, to : Nodes, input : Nat \ {0}]
           /\ c.from \in Nodes /\ c.to \in Nodes
           /\ c.input \in Inputs(c.to) /\ c.output \in Outputs(c.from)
           /\ c.output \in Nat \ {0}
           /\ \A run \in 0..MaxRuns : <<c.from, run, c.output>> \in Sources
<1>1. workflow.connections \in Seq([from : Nodes, output : Nat \ {0}, to : Nodes, input : Nat \ {0}])
  BY WorkflowsAssumption DEF Known, Nodes
<1>2. c \in [from : Nodes, output : Nat \ {0}, to : Nodes, input : Nat \ {0}]
  <2>1. PICK i \in DOMAIN workflow.connections : c = workflow.connections[i]
    BY DEF Connections, ToSet
  <2>2. i \in 1..Len(workflow.connections)
    BY <1>1, <2>1, LenProperties
  <2> QED BY <1>1, <2>1, <2>2, ElementOfSeq
<1>3. c.input \in Inputs(c.to) /\ c.output \in Outputs(c.from)
  <2>1. c.input \in 1..c.input
    BY <1>2
  <2> QED BY <2>1 DEF Inputs, Outputs
<1>4. \A run \in 0..MaxRuns : <<c.from, run, c.output>> \in Sources
  BY <1>2 DEF Sources, SourcesOf, Connections, Nodes
<1> QED BY <1>2, <1>3, <1>4

LEMMA FiniteInputs ==
    ASSUME Known, NEW n
    PROVE  IsFiniteSet(Inputs(n))
<1> DEFINE cs == workflow.connections
           numbers == { i \in 1..Len(cs) : cs[i].to = n }
           ranges == { 1..c.input : c \in { d \in Connections : d.to = n } }
           f == [i \in numbers |-> 1..cs[i].input]
<1>1. Len(cs) \in Nat /\ DOMAIN cs = 1..Len(cs)
  BY WorkflowsAssumption, LenProperties DEF Known
<1>2. IsFiniteSet(numbers)
  <2>1. IsFiniteSet(1..Len(cs))
    BY <1>1, FS_Interval
  <2>2. numbers \in SUBSET (1..Len(cs))
    OBVIOUS
  <2> HIDE DEF numbers
  <2> QED BY <2>1, <2>2, FS_Subset
<1>3. f \in Surjection(numbers, ranges)
  <2>1. \A i \in numbers : cs[i] \in Connections /\ cs[i].to = n
    BY <1>1 DEF Connections, ToSet
  <2>2. f \in [numbers -> ranges]
    BY <2>1
  <2>3. ASSUME NEW x \in ranges
        PROVE  \E i \in numbers : f[i] = x
    BY <1>1 DEF Connections, ToSet
  <2> QED BY <2>2, <2>3 DEF Surjection
<1>4. ASSUME NEW T \in ranges
      PROVE  IsFiniteSet(T)
  <2>1. PICK c \in Connections : T = 1..c.input
    OBVIOUS
  <2>2. c.input \in Nat
    BY ConnectionFacts
  <2> QED BY <2>1, <2>2, FS_Interval
<1> HIDE DEF ranges, f
<1>5. IsFiniteSet(ranges)
  BY <1>2, <1>3, FS_Surjection
<1>6. IsFiniteSet(UNION ranges)
  BY <1>4, <1>5, FS_UNION
<1> QED BY <1>6 DEF Inputs, ranges

\* Of three inputs.
LEMMA ThreeInputs ==
    ASSUME Known, NEW n, NEW i \in Inputs(n), NEW j \in Inputs(n), NEW k \in Inputs(n),
           i # j, i # k, j # k
    PROVE  Cardinality(Inputs(n)) > 2
<1>1. /\ IsFiniteSet({i, j, k}) /\ Cardinality({i, j, k}) = 3
  <2>1. IsFiniteSet({i}) /\ Cardinality({i}) = 1
    BY FS_Singleton
  <2>2. IsFiniteSet({i} \cup {j}) /\ Cardinality({i} \cup {j}) = 2
    <3>1. j \notin {i} /\ 1 + 1 = 2
      OBVIOUS
    <3>2. Cardinality({i} \cup {j}) = Cardinality({i}) + 1
      BY <2>1, <3>1, FS_AddElement
    <3> QED BY <2>1, <3>1, <3>2, FS_AddElement
  <2>3. IsFiniteSet({i} \cup {j} \cup {k}) /\ Cardinality({i} \cup {j} \cup {k}) = 3
    <3>1. k \notin {i} \cup {j} /\ 2 + 1 = 3
      OBVIOUS
    <3>2. Cardinality({i} \cup {j} \cup {k}) = Cardinality({i} \cup {j}) + 1
      BY <2>2, <3>1, FS_AddElement
    <3> QED BY <2>2, <3>1, <3>2, FS_AddElement
  <2>4. {i} \cup {j} \cup {k} = {i, j, k}
    OBVIOUS
  <2> QED BY <2>3, <2>4
<1>2. {i, j, k} \in SUBSET Inputs(n)
  OBVIOUS
<1>3. IsFiniteSet(Inputs(n)) /\ Cardinality(Inputs(n)) \in Nat
  BY FiniteInputs, FS_CardinalityType
<1> QED BY <1>1, <1>2, <1>3, FS_Subset

\* What is given names its source.
LEMMA GivenKnown ==
    ASSUME Known, NEW n, NEW c \in Connections, NEW run \in 0..MaxRuns,
           NEW from, from = <<c.from, run, c.output>>
    PROVE  SourceKnown(n, {from}, from) /\ {from} # NoData /\ {from} \in Batches
<1>1. from \in Sources /\ c.output # 0
  BY ConnectionFacts
<1>2. {from} # NoData /\ {from} \in Batches /\ {from} # {}
  BY <1>1, Batching
<1>3. {from} # {<<workflow.start, 0, 0>>}
  BY <1>1
<1> QED BY <1>2, <1>3 DEF SourceKnown

-------------------------------------------------------------------------------
(***************************************************************************)
(* What is done to the data of an execution.                               *)
(***************************************************************************)
ItemKnown(item) ==
    \A i \in DOMAIN item.main : SourceKnown(item.node, item.main[i], item.source[i])
EntryKnown(n, entry) == \A i \in Inputs(n) : SourceKnown(n, entry.main[i], entry.source[i])

DataKnown(data) ==
    /\ \A item \in ToSet(data.stack) : ItemKnown(item)
    /\ \A n \in Nodes : \A k \in DOMAIN data.waiting[n] : EntryKnown(n, data.waiting[n][k])

Sound(data) == DataOK(data) /\ DataKnown(data)

EntriesSound(n, entries) ==
    /\ IsFiniteSet(DOMAIN entries)
    /\ \A k \in DOMAIN entries :
          k \in Nat /\ entries[k] \in Entries(n) /\ EntryKnown(n, entries[k])

LEMMA SoundEntries ==
    ASSUME NEW data, Sound(data), NEW n \in Nodes
    PROVE  EntriesSound(n, data.waiting[n])
BY DEF Sound, DataOK, DataKnown, EntriesSound

\* Items that are on the stack, or were executed.
ItemsSound(items) == AreItems(items) /\ \A item \in ToSet(items) : ItemKnown(item)

LEMMA SoundStack ==
    ASSUME NEW data, Sound(data)
    PROVE  ItemsSound(data.stack) /\ data.stack \in Seq(Items)
BY ItemLists DEF Sound, DataOK, DataKnown, ItemsSound

\* The stack changes.
LEMMA StackKeeps ==
    ASSUME NEW data, Sound(data), NEW stack, ItemsSound(stack)
    PROVE  LET new == [data EXCEPT !.stack = stack]
           IN  /\ Sound(new) /\ new.stack = stack
               /\ new.order = data.order /\ new.waiting = data.waiting
<1> DEFINE new == [data EXCEPT !.stack = stack]
           o == data.order
           w == [n \in Nodes |-> data.waiting[n]]
           s == data.stack
<1>1. data = [stack |-> s, order |-> o, waiting |-> w]
  BY DEF Sound, DataOK
<1>2. data.waiting = w /\ w = [n \in Nodes |-> w[n]]
  BY <1>1
<1> HIDE DEF s, o, w
<1>3. new = [stack |-> stack, order |-> o, waiting |-> w]
  BY <1>1
<1> HIDE DEF new
<1>4. /\ new = [stack |-> new.stack, order |-> new.order, waiting |-> new.waiting]
      /\ new.stack = stack /\ new.order = o /\ new.waiting = w
  BY <1>3
<1>5. o = data.order
  BY DEF o
<1>6. DataOK(new)
  BY <1>2, <1>4, <1>5 DEF Sound, DataOK, ItemsSound
<1>7. DataKnown(new)
  BY <1>2, <1>4 DEF Sound, DataKnown, ItemsSound
<1> QED BY <1>2, <1>4, <1>5, <1>6, <1>7 DEF Sound, new

\* An item is put on the stack.
LEMMA ItemPushed ==
    ASSUME NEW items, ItemsSound(items), NEW item, IsItem(item), ItemKnown(item)
    PROVE  ItemsSound(<<item>> \o items) /\ <<item>> \o items # <<>>
<1>1. items \in Seq(Items) /\ item \in Items
  BY ItemLists, ItemSet DEF ItemsSound
<1>2. /\ <<item>> \o items \in Seq(Items) /\ <<item>> \o items # <<>>
      /\ ToSet(<<item>> \o items) = ToSet(items) \cup {item}
  BY <1>1, Pushed
<1> QED BY <1>2, ItemLists DEF ItemsSound

Push(data, item) == [data EXCEPT !.stack = <<item>> \o @]

LEMMA PushKeeps ==
    ASSUME NEW data, Sound(data), NEW item, IsItem(item), ItemKnown(item)
    PROVE  /\ Sound(Push(data, item)) /\ Push(data, item).stack # <<>>
           /\ Push(data, item).stack = <<item>> \o data.stack
           /\ Push(data, item).order = data.order
           /\ Push(data, item).waiting = data.waiting
<1> DEFINE stack == <<item>> \o data.stack
<1>1. ItemsSound(stack) /\ stack # <<>>
  BY SoundStack, ItemPushed
<1>2. Push(data, item) = [data EXCEPT !.stack = stack]
  BY DEF Push
<1> DEFINE new == [data EXCEPT !.stack = stack]
<1> HIDE DEF stack
<1>3. /\ Sound(new) /\ new.stack = stack
      /\ new.order = data.order /\ new.waiting = data.waiting
  BY <1>1, StackKeeps
<1> HIDE DEF new
<1>4. Push(data, item) = new
  BY <1>2 DEF new
<1> QED BY <1>1, <1>3, <1>4 DEF stack

\* The entries of a node change.
LEMMA EntriesKeep ==
    ASSUME NEW data, Sound(data), NEW n \in Nodes, NEW entries, EntriesSound(n, entries)
    PROVE  LET new == WithEntries(data, n, entries)
           IN  /\ Sound(new) /\ new.stack = data.stack
               /\ \A m \in Nodes : new.waiting[m] = IF m = n THEN entries ELSE data.waiting[m]
               /\ ToSet(new.order) \subseteq ToSet(data.order) \cup {n}
<1> DEFINE new == WithEntries(data, n, entries)
           order == IF DOMAIN entries = {} THEN RemoveFirst(data.order, n)
                    ELSE IF n \in ToSet(data.order) THEN data.order ELSE Append(data.order, n)
<1>1. data = [stack |-> data.stack, order |-> data.order,
              waiting |-> [m \in Nodes |-> data.waiting[m]]]
  BY DEF Sound, DataOK
<1>2. /\ new = [stack |-> new.stack, order |-> new.order, waiting |-> new.waiting]
      /\ new.stack = data.stack /\ new.order = order
      /\ new.waiting = [m \in Nodes |-> IF m = n THEN entries ELSE data.waiting[m]]
  <2> DEFINE s == data.stack
             o == data.order
             w == [m \in Nodes |-> data.waiting[m]]
  <2>1. data = [stack |-> s, order |-> o, waiting |-> w]
    BY <1>1
  <2>2. data.waiting = w
    BY <2>1
  <2> HIDE DEF s, o, w
  <2>a. new = [[data EXCEPT !.waiting[n] = entries] EXCEPT !.order = order]
    BY DEF WithEntries
  <2>b. [data EXCEPT !.waiting[n] = entries]
          = [stack |-> s, order |-> o, waiting |-> [w EXCEPT ![n] = entries]]
    BY <2>1
  <2>c. new = [stack |-> s, order |-> order, waiting |-> [w EXCEPT ![n] = entries]]
    BY <2>a, <2>b
  <2>3. /\ new = [stack |-> new.stack, order |-> new.order, waiting |-> new.waiting]
        /\ new.stack = s /\ new.order = order /\ new.waiting = [w EXCEPT ![n] = entries]
    BY <2>c
  <2>4. [w EXCEPT ![n] = entries] = [m \in Nodes |-> IF m = n THEN entries ELSE data.waiting[m]]
    BY DEF w
  <2> QED BY <2>1, <2>3, <2>4
<1>3. data.order \in Seq(Nodes) /\ IsInjective(data.order)
  BY DEF Sound, DataOK
<1>4. /\ order \in Seq(Nodes) /\ IsInjective(order)
      /\ ToSet(order) = IF DOMAIN entries = {} THEN ToSet(data.order) \ {n}
                        ELSE ToSet(data.order) \cup {n}
  <2> HIDE DEF new
  <2>1. CASE DOMAIN entries = {}
    <3>1. order = RemoveFirst(data.order, n)
      BY <2>1
    <3> HIDE DEF order
    <3> QED BY <1>3, <2>1, <3>1, OrderWithout
  <2>2. CASE DOMAIN entries # {} /\ n \in ToSet(data.order)
    <3>1. order = data.order /\ ToSet(data.order) = ToSet(data.order) \cup {n}
      BY <2>2
    <3> HIDE DEF order
    <3> QED BY <1>3, <2>2, <3>1
  <2>3. CASE DOMAIN entries # {} /\ n \notin ToSet(data.order)
    <3>1. order = Append(data.order, n)
      BY <2>3
    <3>2. /\ Append(data.order, n) \in Seq(Nodes) /\ IsInjective(Append(data.order, n))
          /\ ToSet(Append(data.order, n)) = ToSet(data.order) \cup {n}
      BY <1>3, <2>3, OrderWith
    <3> HIDE DEF order
    <3> QED BY <2>3, <3>1, <3>2
  <2> QED BY <2>1, <2>2, <2>3
<1> HIDE DEF new, order
<1>5. new.waiting = [m \in Nodes |-> new.waiting[m]]
  BY <1>2
<1>6. ASSUME NEW m \in Nodes
      PROVE  /\ m \in ToSet(new.order) <=> DOMAIN new.waiting[m] # {}
             /\ EntriesSound(m, new.waiting[m])
  <2>1. CASE m = n
    BY <1>2, <1>4, <2>1
  <2>2. CASE m # n
    <3>1. new.waiting[m] = data.waiting[m] /\ (m \in ToSet(new.order) <=> m \in ToSet(data.order))
      BY <1>2, <1>4, <2>2
    <3> QED BY <3>1, SoundEntries DEF Sound, DataOK
  <2> QED BY <2>1, <2>2
<1>7. DataOK(new)
  <2>1. new = [stack |-> new.stack, order |-> new.order,
               waiting |-> [m \in Nodes |-> new.waiting[m]]]
    BY <1>2, <1>5
  <2>2. AreItems(new.stack)
    BY <1>2 DEF Sound, DataOK
  <2>3. new.order \in Seq(Nodes) /\ IsInjective(new.order)
    BY <1>2, <1>4
  <2> QED BY <1>6, <2>1, <2>2, <2>3 DEF DataOK, EntriesSound
<1>8. DataKnown(new)
  BY <1>2, <1>6 DEF Sound, DataKnown, EntriesSound
<1>9. ToSet(new.order) \subseteq ToSet(data.order) \cup {n}
  BY <1>2, <1>4
<1> QED BY <1>2, <1>7, <1>8, <1>9 DEF Sound, new

LEMMA WithoutSound ==
    ASSUME NEW n, NEW entries, EntriesSound(n, entries), NEW index
    PROVE  EntriesSound(n, Without(entries, index))
<1>1. IsFiniteSet(DOMAIN entries \ {index})
  BY FS_RemoveElement DEF EntriesSound
<1>2. /\ DOMAIN Without(entries, index) = DOMAIN entries \ {index}
      /\ \A k \in DOMAIN entries \ {index} : Without(entries, index)[k] = entries[k]
  BY DEF Without
<1> QED BY <1>1, <1>2 DEF EntriesSound

\* The entry to which data for an input is added, as it was.
LEMMA OldEntry ==
    ASSUME Known, NEW n, NEW entries, EntriesSound(n, entries), NEW input \in Inputs(n),
           NEW index, index = EntryIndex(entries, input),
           NEW old, old = IF index \in DOMAIN entries /\ entries[index].main[input] = NoData
                          THEN entries[index] ELSE [main |-> Nothing(n), source |-> Nothing(n)]
    PROVE  /\ index \in Nat
           /\ old.main \in [Inputs(n) -> (Batches \ {{}}) \cup {NoData}]
           /\ old.source \in [Inputs(n) -> Sources \cup {NoData}]
           /\ old.main[input] = NoData /\ EntryKnown(n, old)
<1> DEFINE lacking == { i \in DOMAIN entries : entries[i].main[input] = NoData }
<1>1. index \in Nat
  <2>1. lacking \in SUBSET Nat /\ Cardinality(DOMAIN entries) \in Nat
    BY FS_CardinalityType DEF EntriesSound
  <2>2. lacking # {} => Smallest(lacking) \in Nat
    BY <2>1, SmallestIs
  <2> QED BY <2>1, <2>2 DEF EntryIndex
<1>2. CASE index \in DOMAIN entries /\ entries[index].main[input] = NoData
  BY <1>1, <1>2 DEF EntriesSound, Entries
<1>3. CASE ~(index \in DOMAIN entries /\ entries[index].main[input] = NoData)
  <2>1. old.main = Nothing(n) /\ old.source = Nothing(n)
    BY <1>3
  <2>2. /\ Nothing(n) \in [Inputs(n) -> (Batches \ {{}}) \cup {NoData}]
        /\ Nothing(n) \in [Inputs(n) -> Sources \cup {NoData}]
        /\ \A i \in Inputs(n) : Nothing(n)[i] = NoData
    BY DEF Nothing
  <2> QED BY <1>1, <2>1, <2>2 DEF EntryKnown, SourceKnown
<1> QED BY <1>2, <1>3

\* What addNodeToBeExecuted does: it puts an item on the stack, of a node with one
\* input or of a merge that has what it lacked, or it changes an entry.
IndexFor(data, c) == EntryIndex(data.waiting[c.to], c.input)

EntryFor(data, c) ==
    LET entries == data.waiting[c.to]
        index == IndexFor(data, c)
    IN  IF index \in DOMAIN entries /\ entries[index].main[c.input] = NoData
        THEN entries[index] ELSE [main |-> Nothing(c.to), source |-> Nothing(c.to)]

MainFor(data, c, run) ==
    [EntryFor(data, c).main EXCEPT ![c.input] = {<<c.from, run, c.output>>}]

Pushes(data, new, n, main) ==
    \E item : /\ IsItem(item) /\ item.node = n /\ item.main = main
              /\ new.stack = <<item>> \o data.stack

Keeps(data, new, n) ==
    /\ \A m \in Nodes : m # n => new.waiting[m] = data.waiting[m]
    /\ ToSet(new.order) \subseteq ToSet(data.order) \cup {n}

AddsItem(data, new, c, run) ==
    /\ ~IsMerge(c.to)
    /\ Pushes(data, new, c.to, [i \in Inputs(c.to) |-> {<<c.from, run, c.output>>}])
    /\ new.waiting[c.to] = data.waiting[c.to]

AddsWhole(data, new, c, run) ==
    /\ IsMerge(c.to) /\ \A i \in Inputs(c.to) : MainFor(data, c, run)[i] # NoData
    /\ Pushes(data, new, c.to, MainFor(data, c, run))
    /\ new.waiting[c.to] = Without(data.waiting[c.to], IndexFor(data, c))

AddsEntry(data, new, c, run) ==
    /\ IsMerge(c.to) /\ new.stack = data.stack
    /\ \E entry \in Entries(c.to) :
          /\ entry.main = MainFor(data, c, run)
          /\ new.waiting[c.to] = With(data.waiting[c.to], IndexFor(data, c), entry)

LEMMA MainIs ==
    ASSUME Known, NEW data, Sound(data), NEW c \in Connections, NEW run \in 0..MaxRuns
    PROVE  /\ IndexFor(data, c) \in Nat
           /\ EntryFor(data, c).main \in [Inputs(c.to) -> (Batches \ {{}}) \cup {NoData}]
           /\ EntryFor(data, c).main[c.input] = NoData
           /\ EntryFor(data, c).source \in [Inputs(c.to) -> Sources \cup {NoData}]
           /\ EntryKnown(c.to, EntryFor(data, c))
           /\ MainFor(data, c, run) \in [Inputs(c.to) -> (Batches \ {{}}) \cup {NoData}]
           /\ MainFor(data, c, run)[c.input] = {<<c.from, run, c.output>>}
           /\ \A i \in Inputs(c.to) : i # c.input =>
                 MainFor(data, c, run)[i] = EntryFor(data, c).main[i]
<1> DEFINE items == {<<c.from, run, c.output>>}
           n == c.to
           index == IndexFor(data, c)
           old == EntryFor(data, c)
           entries == data.waiting[n]
<1>1. /\ c.to \in Nodes /\ c.input \in Inputs(c.to)
      /\ items \in Batches /\ items # {}
  BY ConnectionFacts, Batching
<1>2. EntriesSound(n, entries)
  BY <1>1, SoundEntries
<1>3. index = EntryIndex(entries, c.input)
  BY DEF IndexFor
<1>4. old = IF index \in DOMAIN entries /\ entries[index].main[c.input] = NoData
            THEN entries[index] ELSE [main |-> Nothing(n), source |-> Nothing(n)]
  BY DEF EntryFor
<1>5. MainFor(data, c, run) = [old.main EXCEPT ![c.input] = items]
  BY DEF MainFor
<1>a. n \in Nodes /\ c.input \in Inputs(n)
  BY <1>1
<1> HIDE DEF index, old, entries, items, n
<1>6. /\ index \in Nat
      /\ old.main \in [Inputs(n) -> (Batches \ {{}}) \cup {NoData}]
      /\ old.source \in [Inputs(n) -> Sources \cup {NoData}]
      /\ old.main[c.input] = NoData /\ EntryKnown(n, old)
  BY <1>a, <1>2, <1>3, <1>4, OldEntry
<1>7. /\ MainFor(data, c, run) \in [Inputs(n) -> (Batches \ {{}}) \cup {NoData}]
      /\ MainFor(data, c, run)[c.input] = items
      /\ \A i \in Inputs(n) : i # c.input => MainFor(data, c, run)[i] = old.main[i]
  BY <1>1, <1>a, <1>5, <1>6
<1> QED BY <1>6, <1>7 DEF index, old, items, n

LEMMA AddDoes ==
    ASSUME Known, NEW data, Sound(data), NEW c \in Connections, NEW run \in 0..MaxRuns,
           NEW new, new = AddNodeToBeExecuted(data, c, run)
    PROVE  /\ Sound(new) /\ Keeps(data, new, c.to)
           /\ \/ AddsItem(data, new, c, run)
              \/ AddsWhole(data, new, c, run)
              \/ AddsEntry(data, new, c, run)
<1> DEFINE n == c.to
           entries == data.waiting[n]
           index == IndexFor(data, c)
           old == EntryFor(data, c)
           items == {<<c.from, run, c.output>>}
           main == MainFor(data, c, run)
           from == SourceOf(c.from, run, c.output)
           lacking == [main |-> main, source |-> [Nothing(n) EXCEPT ![c.input] = from]]
           whole == Item(n, main, [old.source EXCEPT ![c.input] = from])
           only == Item(n, [i \in Inputs(n) |-> items], [i \in Inputs(n) |-> from])
           rest == WithEntries(data, n, Without(entries, index))
<1>1. /\ n \in Nodes /\ c.input \in Inputs(n)
      /\ from \in Sources /\ items \in Batches /\ items # NoData /\ items # {}
      /\ SourceKnown(n, items, from) /\ items = {from}
  <2>1. from = <<c.from, run, c.output>>
    BY DEF SourceOf
  <2> QED BY <2>1, ConnectionFacts, GivenKnown
<1>2. EntriesSound(n, entries)
  BY <1>1, SoundEntries
<1>6. /\ index \in Nat
      /\ old.main \in [Inputs(n) -> (Batches \ {{}}) \cup {NoData}]
      /\ old.source \in [Inputs(n) -> Sources \cup {NoData}]
      /\ old.main[c.input] = NoData /\ EntryKnown(n, old)
      /\ main \in [Inputs(n) -> (Batches \ {{}}) \cup {NoData}] /\ main[c.input] = items
      /\ \A i \in Inputs(n) : i # c.input => main[i] = old.main[i]
  BY MainIs
<1>4. new = IF ~IsMerge(n) THEN Push(data, only)
            ELSE IF \A i \in Inputs(n) : main[i] # NoData
            THEN Push(rest, whole)
            ELSE WithEntries(data, n, With(entries, index, lacking))
  BY DEF AddNodeToBeExecuted, MainFor, EntryFor, IndexFor, Push
<1>a. /\ Keeps(data, new, n) => Keeps(data, new, c.to)
      /\ ~IsMerge(n) /\ Pushes(data, new, n, [i \in Inputs(n) |-> items])
            /\ new.waiting[n] = entries => AddsItem(data, new, c, run)
      /\ IsMerge(n) /\ (\A i \in Inputs(n) : main[i] # NoData)
            /\ Pushes(data, new, n, main) /\ new.waiting[n] = Without(entries, index)
            => AddsWhole(data, new, c, run)
      /\ IsMerge(n) /\ new.stack = data.stack
            /\ (\E entry \in Entries(n) :
                   entry.main = main /\ new.waiting[n] = With(entries, index, entry))
            => AddsEntry(data, new, c, run)
      /\ entries = data.waiting[n]
  BY DEF AddsItem, AddsWhole, AddsEntry
<1> HIDE DEF from, n, entries, index, old, items, main
<1>5. CASE ~IsMerge(n)
  <2>1. /\ IsItem(only) /\ ItemKnown(only) /\ only.node = n
        /\ only.main = [i \in Inputs(n) |-> items]
    BY <1>1 DEF Item, IsItem, ItemKnown
  <2>2. new = Push(data, only)
    BY <1>4, <1>5
  <2> HIDE DEF only
  <2>3. /\ Sound(new) /\ new.stack = <<only>> \o data.stack
        /\ new.order = data.order /\ new.waiting = data.waiting
    BY <2>1, <2>2, PushKeeps
  <2>4. Pushes(data, new, n, [i \in Inputs(n) |-> items])
    BY <2>1, <2>3 DEF Pushes
  <2>5. Keeps(data, new, n)
    BY <2>3 DEF Keeps
  <2> QED BY <1>a, <1>5, <2>3, <2>4, <2>5
<1>7. CASE IsMerge(n) /\ \A i \in Inputs(n) : main[i] # NoData
  <2>1. IsItem(whole) /\ ItemKnown(whole) /\ whole.node = n /\ whole.main = main
    <3> DEFINE source == [old.source EXCEPT ![c.input] = from]
    <3>1. /\ source \in [Inputs(n) -> Sources \cup {NoData}] /\ source[c.input] = from
          /\ \A i \in Inputs(n) : i # c.input => source[i] = old.source[i]
      BY <1>1, <1>6
    <3>2. main \in [Inputs(n) -> Batches]
      BY <1>6, <1>7
    <3> HIDE DEF source
    <3>3. ASSUME NEW i \in Inputs(n)
          PROVE  SourceKnown(n, main[i], source[i])
      BY <1>1, <1>6, <3>1 DEF EntryKnown
    <3>4. whole = [node |-> n, main |-> main, source |-> source, disabled |-> FALSE]
      BY DEF Item, source
    <3> HIDE DEF whole
    <3> QED BY <1>1, <3>1, <3>2, <3>3, <3>4 DEF IsItem, ItemKnown
  <2>2. /\ Sound(rest) /\ rest.stack = data.stack
        /\ rest.waiting[n] = Without(entries, index) /\ Keeps(data, rest, n)
    <3>1. EntriesSound(n, Without(entries, index))
      BY <1>2, WithoutSound
    <3> QED BY <1>1, <3>1, EntriesKeep DEF Keeps
  <2>3. new = Push(rest, whole)
    BY <1>4, <1>7
  <2> HIDE DEF whole, rest
  <2>4. /\ Sound(new) /\ new.stack = <<whole>> \o rest.stack
        /\ new.order = rest.order /\ new.waiting = rest.waiting
    <3>1. Sound(rest) /\ IsItem(whole) /\ ItemKnown(whole)
      BY <2>1, <2>2
    <3>2. /\ Sound(Push(rest, whole)) /\ Push(rest, whole).stack = <<whole>> \o rest.stack
          /\ Push(rest, whole).order = rest.order /\ Push(rest, whole).waiting = rest.waiting
      BY <3>1, PushKeeps
    <3> QED BY <2>3, <3>2
  <2>5. Pushes(data, new, n, main)
    BY <2>1, <2>2, <2>4 DEF Pushes
  <2>6. Keeps(data, new, n)
    BY <2>2, <2>4 DEF Keeps
  <2> QED BY <1>a, <1>7, <2>2, <2>4, <2>5, <2>6
<1>8. CASE IsMerge(n) /\ \E i \in Inputs(n) : main[i] = NoData
  <2> DEFINE source == [Nothing(n) EXCEPT ![c.input] = from]
  <2>1. /\ source \in [Inputs(n) -> Sources \cup {NoData}] /\ source[c.input] = from
        /\ \A i \in Inputs(n) : i # c.input => source[i] = NoData
    BY <1>1 DEF Nothing
  <2>2. lacking = [main |-> main, source |-> source]
    OBVIOUS
  <2> HIDE DEF source, lacking
  <2>3. lacking \in Entries(n) /\ lacking.main = main
    <3>1. main[c.input] # NoData
      BY <1>1, <1>6
    <3> QED BY <1>1, <1>6, <1>8, <2>1, <2>2, <3>1 DEF Entries
  <2>4. ASSUME NEW i \in Inputs(n)
        PROVE  SourceKnown(n, main[i], source[i])
    <3>1. CASE i = c.input
      BY <1>1, <1>6, <2>1, <3>1
    <3>2. CASE i # c.input /\ main[i] = NoData
      BY <2>1, <3>2 DEF SourceKnown
    <3>3. CASE i # c.input /\ main[i] # NoData
      <4>1. PICK j \in Inputs(n) : main[j] = NoData
        BY <1>8
      <4>2. Cardinality(Inputs(n)) > 2
        BY <1>1, <1>6, <3>3, <4>1, ThreeInputs
      <4> QED BY <2>1, <3>3, <4>2 DEF SourceKnown
    <3> QED BY <3>1, <3>2, <3>3
  <2>5. EntryKnown(n, lacking)
    BY <2>2, <2>4 DEF EntryKnown
  <2> DEFINE joined == With(entries, index, lacking)
  <2>6. EntriesSound(n, joined)
    <3>1. DOMAIN joined = DOMAIN entries \cup {index} /\ IsFiniteSet(DOMAIN joined)
      BY <1>2, FS_AddElement DEF EntriesSound, With
    <3>2. \A k \in DOMAIN joined : joined[k] = IF k = index THEN lacking ELSE entries[k]
      BY DEF With
    <3> HIDE DEF joined
    <3> QED BY <1>2, <1>6, <2>3, <2>5, <3>1, <3>2 DEF EntriesSound
  <2>7. new = WithEntries(data, n, joined)
    BY <1>4, <1>8
  <2> HIDE DEF joined
  <2>8. /\ Sound(new) /\ new.stack = data.stack /\ new.waiting[n] = joined
        /\ Keeps(data, new, n)
    BY <1>1, <2>6, <2>7, EntriesKeep DEF Keeps
  <2> QED BY <1>a, <1>8, <2>3, <2>8 DEF joined
<1> QED BY <1>5, <1>7, <1>8

LEMMA AddKeeps ==
    ASSUME Known, NEW data, Sound(data), NEW c \in Connections, NEW run \in 0..MaxRuns
    PROVE  Sound(AddNodeToBeExecuted(data, c, run))
BY AddDoes

-------------------------------------------------------------------------------
(***************************************************************************)
(* Passing on.                                                             *)
(***************************************************************************)

\* What is left after the first connections, up to a number of them.
PassedUpTo(size, data, n, run, outputs, f) ==
    f = [k \in 0..size |->
            IF k = 0 THEN data
            ELSE LET c == workflow.connections[k]
                 IN  IF c.from = n /\ c.output \in outputs
                     THEN AddNodeToBeExecuted(f[k - 1], c, run)
                     ELSE f[k - 1]]

LEMMA PassedExists ==
    ASSUME NEW data, NEW n, NEW run, NEW outputs
    PROVE  \A size \in Nat : \E f : PassedUpTo(size, data, n, run, outputs, f)
<1> DEFINE S == { size \in Nat : \E f : PassedUpTo(size, data, n, run, outputs, f) }
           Step(k, before) ==
               LET c == workflow.connections[k]
               IN  IF c.from = n /\ c.output \in outputs
                   THEN AddNodeToBeExecuted(before, c, run) ELSE before
           UpTo(size, f) == f = [k \in 0..size |-> IF k = 0 THEN data ELSE Step(k, f[k - 1])]
<1>1. \A size, f : PassedUpTo(size, data, n, run, outputs, f) <=> UpTo(size, f)
  BY DEF PassedUpTo
<1> HIDE DEF Step
<1>2. 0 \in S
  <2> DEFINE f == [k \in 0..0 |-> data]
  <2>1. UpTo(0, f)
    OBVIOUS
  <2> QED BY <1>1, <2>1
<1>3. ASSUME NEW size \in Nat, size \in S
      PROVE  size + 1 \in S
  <2>1. PICK f : UpTo(size, f)
    BY <1>1, <1>3
  <2> DEFINE g == [k \in 0..(size + 1) |-> IF k = 0 THEN data ELSE Step(k, f[k - 1])]
  <2>2. \A k \in 0..size : g[k] = f[k]
    BY <2>1
  <2>a. g = [k \in 0..(size + 1) |-> IF k = 0 THEN data ELSE Step(k, f[k - 1])]
    OBVIOUS
  <2> HIDE DEF g
  <2>3. \A k \in 0..(size + 1) : k # 0 => g[k - 1] = f[k - 1]
    <3>1. \A k \in 0..(size + 1) : k # 0 => k - 1 \in 0..size
      OBVIOUS
    <3> QED BY <2>2, <3>1
  <2>4. UpTo(size + 1, g)
    BY <2>a, <2>3
  <2>5. PassedUpTo(size + 1, data, n, run, outputs, g)
    BY <1>1, <2>4
  <2> HIDE DEF UpTo
  <2> QED BY <2>5
<1> HIDE DEF S
<1>4. \A size \in Nat : size \in S
  BY <1>2, <1>3, Induct
<1> QED BY <1>4 DEF S

LEMMA PassedIs ==
    ASSUME NEW data, NEW n, NEW run, NEW outputs, Len(workflow.connections) \in Nat
    PROVE  PassedUpTo(Len(workflow.connections), data, n, run, outputs,
                      Passed(data, n, run, outputs))
<1>1. \E f : PassedUpTo(Len(workflow.connections), data, n, run, outputs, f)
  BY PassedExists
<1> QED BY <1>1, Zenon DEF PassedUpTo, Passed

LEMMA PassedSteps ==
    ASSUME Known, NEW data, NEW n, NEW run, NEW outputs
    PROVE  /\ Len(workflow.connections) \in Nat
           /\ Connections = { workflow.connections[k] : k \in 1..Len(workflow.connections) }
           /\ Passed(data, n, run, outputs)[0] = data
           /\ \A k \in 1..Len(workflow.connections) :
                 LET c == workflow.connections[k]
                     before == Passed(data, n, run, outputs)[k - 1]
                 IN  Passed(data, n, run, outputs)[k]
                       = IF c.from = n /\ c.output \in outputs
                         THEN AddNodeToBeExecuted(before, c, run) ELSE before
<1> DEFINE size == Len(workflow.connections)
           f == Passed(data, n, run, outputs)
<1>1. size \in Nat /\ DOMAIN workflow.connections = 1..size
  BY WorkflowsAssumption, LenProperties DEF Known
<1>2. PassedUpTo(size, data, n, run, outputs, f)
  BY <1>1, PassedIs
<1>3. Connections = { workflow.connections[k] : k \in 1..size }
  BY <1>1 DEF Connections, ToSet
<1> HIDE DEF f, size
<1>4. f[0] = data
  BY <1>1, <1>2 DEF PassedUpTo
<1>5. \A k \in 1..size :
          LET c == workflow.connections[k]
          IN  f[k] = IF c.from = n /\ c.output \in outputs
                     THEN AddNodeToBeExecuted(f[k - 1], c, run) ELSE f[k - 1]
  BY <1>1, <1>2 DEF PassedUpTo
<1> QED BY <1>1, <1>3, <1>4, <1>5 DEF f, size

LEMMA PassedKeeps ==
    ASSUME Known, NEW data, Sound(data), NEW n, NEW run, NEW outputs,
           outputs # {} => run \in 0..MaxRuns
    PROVE  \A k \in 0..Len(workflow.connections) : Sound(Passed(data, n, run, outputs)[k])
<1> DEFINE size == Len(workflow.connections)
           f == Passed(data, n, run, outputs)
           S == { k \in Nat : k \in 0..size => Sound(f[k]) }
<1>1. /\ size \in Nat /\ f[0] = data
      /\ \A k \in 1..size :
            LET c == workflow.connections[k]
            IN  /\ c \in Connections
                /\ f[k] = IF c.from = n /\ c.output \in outputs
                          THEN AddNodeToBeExecuted(f[k - 1], c, run) ELSE f[k - 1]
  BY PassedSteps
<1> HIDE DEF f, size
<1>4. 0 \in S
  BY <1>1
<1>5. ASSUME NEW k \in Nat, k \in S
      PROVE  k + 1 \in S
  <2> SUFFICES ASSUME k + 1 \in 0..size
               PROVE  Sound(f[k + 1])
    OBVIOUS
  <2> DEFINE c == workflow.connections[k + 1]
  <2>1. Sound(f[k])
    BY <1>1, <1>5
  <2>2. k + 1 \in 1..size /\ (k + 1) - 1 = k
    BY <1>1
  <2>3. c \in Connections /\ f[k + 1] = IF c.from = n /\ c.output \in outputs
                                        THEN AddNodeToBeExecuted(f[k], c, run) ELSE f[k]
    BY <1>1, <2>2
  <2> HIDE DEF c
  <2>4. CASE c.from = n /\ c.output \in outputs
    <3>1. run \in 0..MaxRuns
      BY <2>4
    <3> QED BY <2>1, <2>3, <2>4, <3>1, AddKeeps
  <2>5. CASE ~(c.from = n /\ c.output \in outputs)
    BY <2>1, <2>3, <2>5
  <2> QED BY <2>4, <2>5
<1> HIDE DEF S
<1>6. \A k \in Nat : k \in S
  BY <1>4, <1>5, Induct
<1>7. \A k \in 0..size : Sound(f[k])
  BY <1>1, <1>6 DEF S
<1> QED BY <1>7 DEF f, size

\* A waiting node that may run is put on the stack, when that is empty.
FirstIndex(data, n) == Smallest(DOMAIN data.waiting[n])

Completed(n, main) == [i \in Inputs(n) |-> IF main[i] = NoData THEN {} ELSE main[i]]

Serves(data, new, n) ==
    /\ data.stack = <<>> /\ n \in Nodes /\ MayRun(data, n)
    /\ FirstIndex(data, n) \in DOMAIN data.waiting[n]
    /\ Pushes(data, new, n, Completed(n, data.waiting[n][FirstIndex(data, n)].main))
    /\ new.waiting[n] = Without(data.waiting[n], FirstIndex(data, n))
    /\ Keeps(data, new, n)

LEMMA ServeDoes ==
    ASSUME Known, NEW data, Sound(data)
    PROVE  /\ Sound(ServeWaiting(data))
           /\ ServeWaiting(data).stack = <<>> =>
                 \A n \in ToSet(ServeWaiting(data).order) : ~MayRun(ServeWaiting(data), n)
           /\ \/ ServeWaiting(data) = data
              \/ \E n \in Nodes : Serves(data, ServeWaiting(data), n)
<1> DEFINE ready == { j \in DOMAIN data.order : MayRun(data, data.order[j]) }
           n == data.order[Smallest(ready)]
           index == Smallest(DOMAIN data.waiting[n])
           entry == data.waiting[n][index]
           main == [i \in Inputs(n) |-> IF entry.main[i] = NoData THEN {} ELSE entry.main[i]]
           item == Item(n, main, entry.source)
           rest == WithEntries(data, n, Without(data.waiting[n], index))
           served == [rest EXCEPT !.stack = <<item>>]
<1>1. ServeWaiting(data) = IF data.stack # <<>> \/ ready = {} THEN data ELSE served
  BY DEF ServeWaiting
<1>2. CASE data.stack # <<>>
  BY <1>1, <1>2
<1>3. CASE ready = {}
  <2>1. \A m \in ToSet(data.order) : ~MayRun(data, m)
    BY <1>3 DEF ToSet
  <2> QED BY <1>1, <1>3, <2>1
<1>4. CASE data.stack = <<>> /\ ready # {}
  <2>1. Smallest(ready) \in ready /\ data.order \in Seq(Nodes)
    <3>1. data.order \in Seq(Nodes)
      BY DEF Sound, DataOK
    <3>2. ready \in SUBSET Nat
      BY <3>1, LenProperties
    <3> HIDE DEF ready
    <3> QED BY <1>4, <3>1, <3>2, SmallestIs
  <2>2. n \in Nodes /\ n \in ToSet(data.order) /\ MayRun(data, n)
    BY <2>1, LenProperties, ElementOfSeq DEF ToSet
  <2> HIDE DEF ready, n
  <2>3. DOMAIN data.waiting[n] # {} /\ EntriesSound(n, data.waiting[n])
    BY <2>2, SoundEntries DEF Sound, DataOK
  <2>4. index \in DOMAIN data.waiting[n]
    BY <2>3, SmallestIs DEF EntriesSound
  <2>a. index = FirstIndex(data, n) /\ main = Completed(n, entry.main)
    BY DEF FirstIndex, Completed
  <2> HIDE DEF index
  <2>5. entry \in Entries(n) /\ EntryKnown(n, entry)
    BY <2>3, <2>4 DEF EntriesSound
  <2>6. IsItem(item) /\ ItemKnown(item) /\ item.node = n /\ item.main = main
    <3>1. /\ entry.main \in [Inputs(n) -> Batches \cup {NoData}]
          /\ entry.source \in [Inputs(n) -> Sources \cup {NoData}]
      BY <2>5 DEF Entries
    <3>2. main \in [Inputs(n) -> Batches]
      BY <3>1, Batching
    <3>3. \A i \in Inputs(n) : SourceKnown(n, main[i], entry.source[i])
      BY <2>5 DEF EntryKnown, SourceKnown
    <3>4. item = [node |-> n, main |-> main, source |-> entry.source, disabled |-> FALSE]
      BY DEF Item
    <3> HIDE DEF item, main, entry
    <3> QED BY <2>2, <3>1, <3>2, <3>3, <3>4 DEF IsItem, ItemKnown
  <2>7. /\ Sound(rest) /\ rest.stack = <<>> /\ Keeps(data, rest, n)
        /\ rest.waiting[n] = Without(data.waiting[n], index)
    <3>1. EntriesSound(n, Without(data.waiting[n], index))
      BY <2>3, WithoutSound
    <3> QED BY <1>4, <2>2, <3>1, EntriesKeep DEF Keeps
  <2> HIDE DEF item, rest, main
  <2>8. <<item>> = <<item>> \o rest.stack
    BY <2>7
  <2>9. served = Push(rest, item)
    BY <2>8 DEF Push
  <2> HIDE DEF served
  <2>10. /\ Sound(served) /\ served.stack # <<>> /\ served.stack = <<item>> \o rest.stack
         /\ served.order = rest.order /\ served.waiting = rest.waiting
    BY <2>6, <2>7, <2>9, PushKeeps
  <2>11. ServeWaiting(data) = served
    BY <1>1, <1>4
  <2>12. Pushes(data, served, n, main) /\ Keeps(data, served, n)
    BY <1>4, <2>6, <2>7, <2>10 DEF Pushes, Keeps
  <2>13. Serves(data, served, n)
    BY <1>4, <2>2, <2>4, <2>a, <2>7, <2>10, <2>12 DEF Serves
  <2> QED BY <2>2, <2>10, <2>11, <2>13
<1> QED BY <1>2, <1>3, <1>4

\* What a node gave is passed on, and the waiting nodes are looked at.
LEMMA PassOnKeeps ==
    ASSUME Known, NEW data, Sound(data), NEW n, NEW run, NEW outputs,
           outputs # {} => run \in 0..MaxRuns
    PROVE  LET new == PassOn(data, n, run, outputs)
           IN  /\ Sound(new)
               /\ new.stack = <<>> => \A m \in ToSet(new.order) : ~MayRun(new, m)
<1> DEFINE passed == Passed(data, n, run, outputs)[Len(workflow.connections)]
<1>1. Sound(passed)
  BY PassedKeeps
<1>2. PassOn(data, n, run, outputs) = ServeWaiting(passed)
  BY DEF PassOn
<1> HIDE DEF passed
<1> QED BY <1>1, <1>2, ServeDoes

\* An item is taken from the front; the last of a sequence is dropped.
LEMMA Taken ==
    ASSUME NEW items, ItemsSound(items), items # <<>>
    PROVE  /\ IsItem(Head(items)) /\ ItemKnown(Head(items)) /\ items[1] = Head(items)
           /\ ItemsSound(Tail(items)) /\ 1 \in DOMAIN items
<1>1. items \in Seq(Items)
  BY ItemLists DEF ItemsSound
<1>2. Len(items) \in Nat \ {0} /\ DOMAIN items = 1..Len(items)
  BY <1>1, LenProperties, EmptySeq
<1>3. /\ Head(items) = items[1] /\ Tail(items) \in Seq(Items)
      /\ Len(Tail(items)) = Len(items) - 1
      /\ \A i \in 1..(Len(items) - 1) : Tail(items)[i] = items[i + 1]
  BY <1>1, <1>2, HeadTailProperties
<1>4. Head(items) \in ToSet(items)
  BY <1>2, <1>3 DEF ToSet
<1>5. ToSet(Tail(items)) \subseteq ToSet(items)
  <2>1. DOMAIN Tail(items) = 1..(Len(items) - 1)
    BY <1>3, LenProperties
  <2>2. \A i \in 1..(Len(items) - 1) : i + 1 \in 1..Len(items)
    BY <1>2
  <2> QED BY <1>2, <1>3, <2>1, <2>2 DEF ToSet
<1>6. IsItem(Head(items))
  BY <1>4 DEF ItemsSound, AreItems
<1>7. ItemsSound(Tail(items))
  BY <1>3, <1>5, ItemLists DEF ItemsSound
<1>8. ItemKnown(Head(items))
  BY <1>4 DEF ItemsSound
<1> QED BY <1>2, <1>3, <1>6, <1>7, <1>8

LEMMA Appended ==
    ASSUME NEW items, ItemsSound(items), NEW item, IsItem(item), ItemKnown(item)
    PROVE  ItemsSound(Append(items, item))
<1>1. items \in Seq(Items) /\ item \in Items
  BY ItemLists, ItemSet DEF ItemsSound
<1>2. /\ Append(items, item) \in Seq(Items)
      /\ ToSet(Append(items, item)) = ToSet(items) \cup {item}
  BY <1>1, OrderWith
<1> QED BY <1>2, ItemLists DEF ItemsSound

LEMMA FrontIs ==
    ASSUME NEW S, NEW s \in Seq(S), s # <<>>
    PROVE  /\ Len(s) \in Nat \ {0} /\ DOMAIN s = 1..Len(s)
           /\ Front(s) \in Seq(S) /\ DOMAIN Front(s) = 1..(Len(s) - 1)
           /\ \A k \in 1..(Len(s) - 1) : Front(s)[k] = s[k]
<1> DEFINE n == Len(s) - 1
<1>1. Len(s) \in Nat \ {0} /\ DOMAIN s = 1..Len(s) /\ \A i \in 1..Len(s) : s[i] \in S
  BY EmptySeq, LenProperties, ElementOfSeq
<1>2. n \in Nat /\ 1 \in Int /\ n \in Int /\ n - 1 + 1 = n
  BY <1>1
<1>3. \A i \in 1..n : s[i] \in S
  BY <1>1
<1>4. Front(s) = SubSeq(s, 1, n)
  BY DEF Front
<1> HIDE DEF n
<1>5. /\ Front(s) \in Seq(S) /\ Len(Front(s)) = IF 1 <= n THEN n - 1 + 1 ELSE 0
      /\ \A i \in 1..(n - 1 + 1) : Front(s)[i] = s[1 + i - 1]
  BY <1>2, <1>3, <1>4, SubSeqProperties
<1>6. Len(Front(s)) = n /\ \A i \in 1..n : Front(s)[i] = s[i]
  BY <1>2, <1>5
<1> QED BY <1>1, <1>5, <1>6, LenProperties DEF n

LEMMA FrontOf ==
    ASSUME NEW S, NEW s \in Seq(S)
    PROVE  Front(s) \in Seq(S) /\ ToSet(Front(s)) \subseteq ToSet(s)
<1>1. Len(s) \in Nat /\ DOMAIN s = 1..Len(s) /\ \A i \in 1..Len(s) : s[i] \in S
  BY LenProperties, ElementOfSeq
<1>2. \A i \in 1..(Len(s) - 1) : i \in 1..Len(s)
  BY <1>1
<1>3. /\ Front(s) \in Seq(S) /\ DOMAIN Front(s) = 1..(Len(s) - 1)
      /\ \A i \in 1..(Len(s) - 1) : Front(s)[i] = s[i]
  <2>1. CASE Len(s) = 0
    <3>1. s = <<>>
      BY <2>1, EmptySeq
    <3>2. Front(s) = SubSeq(s, 1, -1)
      BY <2>1 DEF Front
    <3>3. /\ Front(s) \in Seq(S) /\ Len(Front(s)) = 0
      BY <3>2, SubSeqProperties
    <3> QED BY <2>1, <3>3, LenProperties
  <2>2. CASE Len(s) > 0
    <3>1. s # <<>>
      BY <2>2, EmptySeq
    <3> QED BY <3>1, FrontIs
  <2> QED BY <1>1, <2>1, <2>2
<1> QED BY <1>1, <1>2, <1>3 DEF ToSet
-------------------------------------------------------------------------------
(***************************************************************************)
(* The invariant.                                                          *)
(***************************************************************************)

\* The runs of the nodes.
RunsSound(runs) ==
    /\ runs \in [Nodes -> Seq(SUBSET Nat)]
    /\ \A n \in Nodes : \A outputs \in ToSet(runs[n]) :
          outputs \subseteq Outputs(n) \cup {workflow.errorOutput[n]}

\* The node that is executed.
CurrentSound(now, runs, how) ==
    now # NoItem =>
        /\ how = "none"
        /\ IsItem(now.item) /\ ItemKnown(now.item)
        /\ now \in [item : {now.item}, run : {Len(runs[now.item.node])},
                    try : 1..workflow.maxTries[now.item.node],
                    output : {0, workflow.errorOutput[now.item.node]}]
        /\ now.output # 0 => now.try < workflow.maxTries[now.item.node]

\* When the loop finds nothing on the stack no waiting node may run.
Drained(data, now) ==
    now = NoItem /\ data.stack = <<>> /\ workflow.quiet = {} =>
        \A n \in ToSet(data.order) : ~MayRun(data, n)

\* How it ended.
EndSound(data, stat, how, times) ==
    /\ stat \in {"running", "canceled"}
    /\ how \in {"none", "success", "error", "waiting", "canceled"}
    /\ how \in {"error", "waiting"} => data.stack # <<>>
    /\ how = "success" => data.stack = <<>>
    /\ times \in 0..MaxRetries

IInv ==
    /\ Known
    /\ Sound(executionData)
    /\ RunsSound(runData)
    /\ CurrentSound(current, runData, result)
    /\ Drained(executionData, current)
    /\ EndSound(executionData, status, result, retries)
    /\ ItemsSound(consumed)

\* A step does not change the workflow, nor what is read off it.
LEMMA SameGraph ==
    ASSUME workflow' = workflow
    PROVE  /\ Nodes' = Nodes /\ Connections' = Connections
           /\ \A n : Inputs(n)' = Inputs(n)
           /\ \A n : Outputs(n)' = Outputs(n)
           /\ \A n : ParentNodes(n)' = ParentNodes(n)
           /\ Sources' = Sources /\ Batches' = Batches
<1>1. Nodes' = Nodes
  BY DEF Nodes
<1>2. Connections' = Connections
  BY DEF Connections
<1>3. \A n : Inputs(n)' = Inputs(n)
  BY <1>2 DEF Inputs
<1>4. \A n : Outputs(n)' = Outputs(n)
  BY <1>2 DEF Outputs
<1>5. \A n : ParentNodes(n)' = ParentNodes(n)
  BY DEF ParentNodes
<1>6. Sources' = Sources
  BY DEF Sources
<1>7. Batches' = Batches
  BY <1>6 DEF Batches
<1> QED BY <1>1, <1>2, <1>3, <1>4, <1>5, <1>6, <1>7

LEMMA SameItems ==
    ASSUME workflow' = workflow
    PROVE  /\ \A item : IsItem(item)' <=> IsItem(item)
           /\ \A items : AreItems(items)' <=> AreItems(items)
           /\ \A n : Entries(n)' = Entries(n)
           /\ \A n, batch, source : SourceKnown(n, batch, source)' <=> SourceKnown(n, batch, source)
           /\ \A item : ItemKnown(item)' <=> ItemKnown(item)
           /\ \A items : ItemsSound(items)' <=> ItemsSound(items)
<1>1. \A item : IsItem(item)' <=> IsItem(item)
  BY SameGraph DEF IsItem
<1>2. \A items : AreItems(items)' <=> AreItems(items)
  BY <1>1 DEF AreItems
<1>3. \A n : Entries(n)' = Entries(n)
  BY SameGraph DEF Entries
<1>4. \A n, batch, source : SourceKnown(n, batch, source)' <=> SourceKnown(n, batch, source)
  BY SameGraph DEF SourceKnown
<1>5. \A item : ItemKnown(item)' <=> ItemKnown(item)
  BY <1>4 DEF ItemKnown
<1>6. \A items : ItemsSound(items)' <=> ItemsSound(items)
  BY <1>2, <1>5 DEF ItemsSound
<1> QED BY <1>1, <1>2, <1>3, <1>4, <1>5, <1>6

LEMMA SameSound ==
    ASSUME workflow' = workflow
    PROVE  /\ \A data : Sound(data)' <=> Sound(data)
           /\ \A runs : RunsSound(runs)' <=> RunsSound(runs)
           /\ \A now, runs, how : CurrentSound(now, runs, how)' <=> CurrentSound(now, runs, how)
           /\ \A data, now : Drained(data, now)' <=> Drained(data, now)
<1>1. \A data : DataOK(data)' <=> DataOK(data)
  BY SameGraph, SameItems DEF DataOK
<1>2. \A n, entry : EntryKnown(n, entry)' <=> EntryKnown(n, entry)
  BY SameGraph, SameItems DEF EntryKnown
<1>3. \A data : DataKnown(data)' <=> DataKnown(data)
  BY SameGraph, SameItems, <1>2 DEF DataKnown
<1>4. \A runs : RunsSound(runs)' <=> RunsSound(runs)
  BY SameGraph DEF RunsSound
<1>5. \A now, runs, how : CurrentSound(now, runs, how)' <=> CurrentSound(now, runs, how)
  BY SameItems DEF CurrentSound
<1>6. \A data, n : MayRun(data, n)' <=> MayRun(data, n)
  BY SameGraph DEF MayRun, EnoughData, Filled, FirstEntry
<1>7. \A data, now : Drained(data, now)' <=> Drained(data, now)
  BY <1>6 DEF Drained
<1> QED BY <1>1, <1>3, <1>4, <1>5, <1>7 DEF Sound

\* What a step has to leave.
LEMMA StepTo ==
    ASSUME Known, workflow' = workflow, Sound(executionData'), RunsSound(runData'),
           CurrentSound(current', runData', result'), Drained(executionData', current'),
           EndSound(executionData', status', result', retries'), ItemsSound(consumed')
    PROVE  IInv'
<1>1. Known'
  BY DEF Known
<1>2. Sound(executionData)'
  BY SameSound
<1>3. RunsSound(runData)'
  BY SameSound
<1>4. CurrentSound(current, runData, result)'
  BY SameSound
<1>5. Drained(executionData, current)'
  BY SameSound
<1>6. EndSound(executionData, status, result, retries)'
  BY DEF EndSound
<1>7. ItemsSound(consumed)'
  BY SameItems
<1> QED BY <1>1, <1>2, <1>3, <1>4, <1>5, <1>6, <1>7 DEF IInv

-------------------------------------------------------------------------------
(***************************************************************************)
(* The steps.                                                              *)
(***************************************************************************)
LEMMA OutputNumbers ==
    ASSUME Known, NEW n \in Nodes
    PROVE  Outputs(n) \cup {workflow.errorOutput[n]} \subseteq Nat
<1>1. workflow.errorOutput[n] \in Nat
  BY WorkflowsAssumption DEF Known, Nodes
<1>2. Outputs(n) \subseteq Nat
  BY ConnectionFacts DEF Outputs
<1> QED BY <1>1, <1>2

\* A run is recorded, or dropped.
LEMMA RunRecorded ==
    ASSUME Known, NEW runs, RunsSound(runs), NEW n \in Nodes,
           NEW outputs \in SUBSET (Outputs(n) \cup {workflow.errorOutput[n]})
    PROVE  RunsSound([runs EXCEPT ![n] = Append(@, outputs)])
<1> DEFINE new == [runs EXCEPT ![n] = Append(@, outputs)]
<1>1. runs \in [Nodes -> Seq(SUBSET Nat)] /\ outputs \in SUBSET Nat
  <2>1. Outputs(n) \cup {workflow.errorOutput[n]} \subseteq Nat
    BY OutputNumbers
  <2> QED BY <2>1 DEF RunsSound
<1>2. /\ Append(runs[n], outputs) \in Seq(SUBSET Nat)
      /\ ToSet(Append(runs[n], outputs)) = ToSet(runs[n]) \cup {outputs}
  <2> DEFINE Lists == SUBSET Nat
  <2>1. runs[n] \in Seq(Lists) /\ outputs \in Lists
    BY <1>1
  <2> HIDE DEF Lists
  <2>2. /\ Append(runs[n], outputs) \in Seq(Lists)
        /\ ToSet(Append(runs[n], outputs)) = ToSet(runs[n]) \cup {outputs}
    BY <2>1, OrderWith
  <2> QED BY <2>2 DEF Lists
<1>3. /\ new \in [Nodes -> Seq(SUBSET Nat)]
      /\ \A m \in Nodes : new[m] = IF m = n THEN Append(runs[n], outputs) ELSE runs[m]
  BY <1>1, <1>2
<1> HIDE DEF new
<1>4. ASSUME NEW m \in Nodes, NEW given \in ToSet(new[m])
      PROVE  given \subseteq Outputs(m) \cup {workflow.errorOutput[m]}
  <2>1. CASE m = n
    <3>1. given \in ToSet(runs[m]) \/ given = outputs
      BY <1>2, <1>3, <1>4, <2>1
    <3> QED BY <2>1, <3>1 DEF RunsSound
  <2>2. CASE m # n
    BY <1>3, <1>4, <2>2 DEF RunsSound
  <2> QED BY <2>1, <2>2
<1>5. RunsSound(new)
  BY <1>3, <1>4 DEF RunsSound
<1> QED BY <1>5 DEF new

LEMMA RunDropped ==
    ASSUME NEW runs, RunsSound(runs), NEW n \in Nodes
    PROVE  RunsSound([runs EXCEPT ![n] = Front(@)])
<1> DEFINE new == [runs EXCEPT ![n] = Front(@)]
<1>1. runs \in [Nodes -> Seq(SUBSET Nat)]
  BY DEF RunsSound
<1>2. Front(runs[n]) \in Seq(SUBSET Nat) /\ ToSet(Front(runs[n])) \subseteq ToSet(runs[n])
  BY <1>1, FrontOf
<1>3. /\ new \in [Nodes -> Seq(SUBSET Nat)]
      /\ \A m \in Nodes : new[m] = IF m = n THEN Front(runs[n]) ELSE runs[m]
  BY <1>1, <1>2
<1> HIDE DEF new
<1>4. RunsSound(new)
  BY <1>2, <1>3 DEF RunsSound
<1> QED BY <1>4 DEF new

LEMMA InitKeeps == Init => IInv
<1> SUFFICES ASSUME Init
             PROVE  IInv
  OBVIOUS
<1> DEFINE item == Item(workflow.start, [i \in {1} |-> {<<workflow.start, 0, 0>>}],
                        [i \in {1} |-> NoData])
<1>1. Known
  BY DEF Init, Known
<1>2. IsItem(item) /\ ItemKnown(item)
  <2>1. workflow.start \in Nodes
    BY <1>1, WorkflowsAssumption DEF Known, Nodes
  <2>2. {<<workflow.start, 0, 0>>} \in Batches
    BY <1>1, Batching
  <2> QED BY <2>1, <2>2 DEF IsItem, ItemKnown, Item, SourceKnown
<1> HIDE DEF item
<1>3. ItemsSound(<<>>) /\ ToSet(<<>>) = {}
  <2>1. <<>> \in Seq(Items) /\ DOMAIN <<>> = {}
    BY EmptySeq, LenProperties
  <2>2. ToSet(<<>>) = {}
    BY <2>1 DEF ToSet
  <2> QED BY <2>1, <2>2, ItemLists DEF ItemsSound
<1>4. ItemsSound(<<item>>)
  <2>1. <<item>> \o <<>> = <<item>>
    OBVIOUS
  <2> QED BY <1>2, <1>3, <2>1, ItemPushed
<1>5. /\ executionData = [stack |-> executionData.stack, order |-> executionData.order,
                          waiting |-> [n \in Nodes |-> executionData.waiting[n]]]
      /\ executionData.stack = <<item>> /\ executionData.order = <<>>
      /\ \A n \in Nodes : executionData.waiting[n] = <<>>
  BY DEF Init, item
<1>6. Sound(executionData)
  <2>1. <<>> \in Seq(Nodes) /\ IsInjective(<<>>) /\ DOMAIN <<>> = {}
    BY EmptySeq, LenProperties DEF IsInjective
  <2>2. IsFiniteSet({})
    BY FS_EmptySet
  <2>3. DataOK(executionData)
    BY <1>3, <1>4, <1>5, <2>1, <2>2 DEF DataOK, ItemsSound
  <2>4. DataKnown(executionData)
    BY <1>4, <1>5, <2>1 DEF DataKnown, ItemsSound
  <2> QED BY <2>3, <2>4 DEF Sound
<1>7. RunsSound(runData)
  BY <1>3 DEF Init, RunsSound
<1>8. CurrentSound(current, runData, result)
  BY DEF Init, CurrentSound
<1>9. executionData.stack # <<>>
  BY <1>5
<1>10. Drained(executionData, current)
  BY <1>9 DEF Drained
<1>11. EndSound(executionData, status, result, retries)
  BY <1>9, BoundsAssumption DEF Init, EndSound
<1>12. ItemsSound(consumed)
  BY <1>3 DEF Init
<1> QED BY <1>1, <1>6, <1>7, <1>8, <1>10, <1>11, <1>12 DEF IInv

\* The node that is executed.
LEMMA NodeExecuted ==
    ASSUME IInv, Executing
    PROVE  /\ Known /\ Node \in Nodes /\ IsItem(current.item) /\ ItemKnown(current.item)
           /\ current.run = Len(runData[Node]) /\ current.run \in Nat
           /\ current = [item |-> current.item, run |-> current.run, try |-> current.try,
                         output |-> current.output]
           /\ current.try \in 1..workflow.maxTries[Node]
           /\ workflow.maxTries[Node] \in Nat \ {0}
           /\ current.output \in {0, workflow.errorOutput[Node]}
           /\ current.output # 0 => current.try < workflow.maxTries[Node]
<1>1. /\ IsItem(current.item) /\ ItemKnown(current.item)
      /\ current \in [item : {current.item}, run : {Len(runData[Node])},
                      try : 1..workflow.maxTries[Node],
                      output : {0, workflow.errorOutput[Node]}]
      /\ current.output # 0 => current.try < workflow.maxTries[Node]
  BY DEF IInv, CurrentSound, Executing, Node
<1>2. Node \in Nodes
  BY <1>1 DEF IsItem, Node
<1>3. Len(runData[Node]) \in Nat
  BY <1>2, LenProperties DEF IInv, RunsSound
<1>4. workflow.maxTries[Node] \in Nat \ {0}
  BY <1>2, WorkflowsAssumption DEF IInv, Known, Nodes
<1> QED BY <1>1, <1>2, <1>3, <1>4 DEF IInv

LEMMA ContinueKeeps ==
    ASSUME IInv, Executing, NEW given \in SUBSET (Outputs(Node) \cup {workflow.errorOutput[Node]}),
           Continue(given)
    PROVE  IInv'
<1> DEFINE outputs == IF current.run + 1 < MaxRuns THEN given ELSE {}
<1>1. /\ runData' = [runData EXCEPT ![Node] = Append(@, outputs)]
      /\ executionData' = PassOn(executionData, Node, current.run, outputs)
      /\ consumed' = Append(consumed, current.item) /\ current' = NoItem
      /\ workflow' = workflow /\ status' = status /\ result' = result /\ retries' = retries
  BY DEF Continue
<1>2. outputs # {} => current.run \in 0..MaxRuns
  BY NodeExecuted, BoundsAssumption
<1>3. outputs \in SUBSET (Outputs(Node) \cup {workflow.errorOutput[Node]})
  OBVIOUS
<1> HIDE DEF outputs
<1>4. /\ Sound(executionData')
      /\ executionData'.stack = <<>> => \A m \in ToSet(executionData'.order) : ~MayRun(executionData', m)
  BY <1>1, <1>2, NodeExecuted, PassOnKeeps DEF IInv
<1>5. Drained(executionData', current')
  BY <1>4 DEF Drained
<1>6. RunsSound(runData')
  BY <1>1, <1>3, NodeExecuted, RunRecorded DEF IInv
<1>7. CurrentSound(current', runData', result')
  BY <1>1 DEF CurrentSound
<1>8. EndSound(executionData', status', result', retries')
  BY <1>1 DEF IInv, EndSound, Executing
<1>9. ItemsSound(consumed')
  BY <1>1, NodeExecuted, Appended DEF IInv
<1> QED BY <1>1, <1>4, <1>5, <1>6, <1>7, <1>8, <1>9, NodeExecuted, StepTo

LEMMA BreakKeeps ==
    ASSUME IInv, Executing, NEW how \in {"waiting", "error"}, Break(how)
    PROVE  IInv'
<1>1. /\ runData' = [runData EXCEPT ![Node] = Append(@, {})]
      /\ executionData' = Push(executionData, current.item)
      /\ current' = NoItem /\ result' = (IF status = "canceled" THEN "canceled" ELSE how)
      /\ workflow' = workflow /\ status' = status /\ retries' = retries /\ consumed' = consumed
  BY DEF Break, Push
<1>2. Sound(executionData') /\ executionData'.stack # <<>>
  BY <1>1, NodeExecuted, PushKeeps DEF IInv
<1>3. Drained(executionData', current')
  BY <1>2 DEF Drained
<1>4. RunsSound(runData')
  BY <1>1, NodeExecuted, RunRecorded DEF IInv
<1>5. CurrentSound(current', runData', result')
  BY <1>1 DEF CurrentSound
<1>6. EndSound(executionData', status', result', retries')
  BY <1>1, <1>2 DEF IInv, EndSound
<1>7. ItemsSound(consumed')
  BY <1>1 DEF IInv
<1> QED BY <1>1, <1>2, <1>3, <1>4, <1>5, <1>6, <1>7, NodeExecuted, StepTo

\* The node is tried or run once more.
LEMMA OnceMore ==
    ASSUME IInv, Executing, NEW try \in 1..workflow.maxTries[Node],
           NEW output \in {0, workflow.errorOutput[Node]},
           output # 0 => try < workflow.maxTries[Node],
           current' = [item |-> current.item, run |-> current.run, try |-> try, output |-> output],
           UNCHANGED <<workflow, executionData, runData, status, result, retries, consumed>>
    PROVE  IInv'
<1>1. /\ current'.item = current.item /\ current'.run = current.run
      /\ current'.try = try /\ current'.output = output
  OBVIOUS
<1>2. CurrentSound(current', runData', result')
  <2>1. result' = "none" /\ runData' = runData
    BY DEF Executing
  <2> QED BY <1>1, <2>1, NodeExecuted DEF CurrentSound, Node
<1>3. current' # NoItem
  <2>1. "item" \in DOMAIN current' /\ DOMAIN NoItem = {}
    BY EmptySeq, LenProperties DEF NoItem
  <2> QED BY <2>1
<1>4. Drained(executionData', current')
  BY <1>3 DEF Drained
<1>5. EndSound(executionData', status', result', retries')
  BY DEF IInv, EndSound
<1>6. Sound(executionData') /\ RunsSound(runData') /\ ItemsSound(consumed')
  BY DEF IInv
<1> QED BY <1>2, <1>4, <1>5, <1>6, NodeExecuted, StepTo

LEMMA TakeNodeKeeps == IInv /\ TakeNode => IInv'
<1> SUFFICES ASSUME IInv, TakeNode
             PROVE  IInv'
  OBVIOUS
<1> DEFINE item == Head(executionData.stack)
           stack == Tail(executionData.stack)
<1>1. /\ current' = [item |-> item, run |-> Len(runData[item.node]), try |-> 1, output |-> 0]
      /\ executionData' = [executionData EXCEPT !.stack = Tail(@)]
      /\ executionData.stack # <<>> /\ result = "none" /\ current = NoItem
      /\ UNCHANGED <<workflow, runData, status, result, retries, consumed>>
  BY DEF TakeNode
<1>2. IsItem(item) /\ ItemKnown(item) /\ ItemsSound(stack) /\ Known
  BY <1>1, SoundStack, Taken DEF IInv
<1>3. executionData' = [executionData EXCEPT !.stack = stack]
  BY <1>1
<1> HIDE DEF item, stack
<1>4. Sound(executionData')
  BY <1>2, <1>3, StackKeeps DEF IInv
<1>5. /\ current'.item = item /\ current'.run = Len(runData[item.node])
      /\ current'.try = 1 /\ current'.output = 0
  BY <1>1
<1>6. CurrentSound(current', runData', result')
  <2>1. item.node \in Nodes
    BY <1>2 DEF IsItem
  <2>2. workflow.maxTries[item.node] \in Nat \ {0}
    BY <1>2, <2>1, WorkflowsAssumption DEF Known, Nodes
  <2> QED BY <1>1, <1>2, <1>5, <2>2 DEF CurrentSound
<1>7. Drained(executionData', current')
  <2>1. "item" \in DOMAIN current' /\ DOMAIN NoItem = {}
    BY <1>1, EmptySeq, LenProperties DEF NoItem
  <2>2. current' # NoItem
    BY <2>1
  <2> QED BY <2>2 DEF Drained
<1>8. EndSound(executionData', status', result', retries')
  BY <1>1 DEF IInv, EndSound
<1>9. RunsSound(runData') /\ ItemsSound(consumed')
  BY <1>1 DEF IInv
<1> QED BY <1>1, <1>2, <1>4, <1>6, <1>7, <1>8, <1>9, StepTo

LEMMA FinishKeeps == IInv /\ Finish => IInv'
<1> SUFFICES ASSUME IInv, Finish
             PROVE  IInv'
  OBVIOUS
<1>1. CurrentSound(current', runData', result')
  BY DEF Finish, CurrentSound
<1>2. EndSound(executionData', status', result', retries')
  BY DEF Finish, IInv, EndSound
<1>3. /\ Sound(executionData') /\ RunsSound(runData') /\ ItemsSound(consumed')
      /\ Drained(executionData', current')
  BY DEF Finish, IInv
<1> QED BY <1>1, <1>2, <1>3, StepTo DEF Finish, IInv

LEMMA OutputsKeep ==
    ASSUME IInv, Executing
    PROVE  /\ \A outputs \in SUBSET Outputs(Node) : Given(outputs) \in SUBSET Outputs(Node)
           /\ \A output : Given({output}) \in SUBSET (Outputs(Node) \cup {output})
           /\ PassedThrough \in SUBSET Outputs(Node)
BY DEF Given, PassedThrough

LEMMA NodeSucceedsKeeps == IInv /\ NodeSucceeds => IInv'
<1> SUFFICES ASSUME IInv, Executing, NEW outputs \in SUBSET Outputs(Node), Continue(Given(outputs))
             PROVE  IInv'
  BY DEF NodeSucceeds
<1>1. Given(outputs) \in SUBSET (Outputs(Node) \cup {workflow.errorOutput[Node]})
  BY OutputsKeep
<1> QED BY <1>1, ContinueKeeps

LEMMA NodeDisabledKeeps == IInv /\ NodeDisabled => IInv'
<1> SUFFICES ASSUME IInv, Executing, Continue(Given(PassedThrough))
             PROVE  IInv'
  BY DEF NodeDisabled
<1>1. Given(PassedThrough) \in SUBSET (Outputs(Node) \cup {workflow.errorOutput[Node]})
  BY OutputsKeep
<1> QED BY <1>1, ContinueKeeps

LEMMA NodeReturnsNullKeeps == IInv /\ NodeReturnsNull => IInv'
<1> SUFFICES ASSUME IInv, NodeReturnsNull
             PROVE  IInv'
  OBVIOUS
<1>1. /\ Executing /\ workflow.quiet # {}
      /\ consumed' = Append(consumed, current.item) /\ current' = NoItem
      /\ UNCHANGED <<workflow, executionData, runData, status, result, retries>>
  BY DEF NodeReturnsNull
<1>2. ItemsSound(consumed')
  BY <1>1, NodeExecuted, Appended DEF IInv
<1>3. CurrentSound(current', runData', result') /\ Drained(executionData', current')
  BY <1>1 DEF CurrentSound, Drained
<1>4. EndSound(executionData', status', result', retries')
  BY <1>1 DEF IInv, EndSound
<1>5. Sound(executionData') /\ RunsSound(runData')
  BY <1>1 DEF IInv
<1> QED BY <1>1, <1>2, <1>3, <1>4, <1>5, NodeExecuted, StepTo

LEMMA NodeThrowsKeeps == IInv /\ NodeThrows => IInv'
<1> SUFFICES ASSUME IInv, Executing,
                    \/ TriesAgain
                    \/ LastTry /\ Continue(PassedThrough)
                    \/ LastTry /\ Break("error")
             PROVE  IInv'
  BY DEF NodeThrows
<1>1. CASE TriesAgain
  <2>1. current.try + 1 \in 1..workflow.maxTries[Node]
    BY <1>1, NodeExecuted DEF TriesAgain, LastTry
  <2>2. current' = [item |-> current.item, run |-> current.run, try |-> current.try + 1,
                    output |-> 0]
    BY <1>1, NodeExecuted DEF TriesAgain
  <2> QED BY <1>1, <2>1, <2>2, OnceMore DEF TriesAgain
<1>2. CASE Continue(PassedThrough)
  BY <1>2, OutputsKeep, ContinueKeeps
<1>3. CASE Break("error")
  BY <1>3, BreakKeeps
<1> QED BY <1>1, <1>2, <1>3

LEMMA NodeEmitsErrorKeeps == IInv /\ NodeEmitsError => IInv'
<1> SUFFICES ASSUME IInv, NodeEmitsError
             PROVE  IInv'
  OBVIOUS
<1>0. Executing
  BY DEF NodeEmitsError
<1>1. CASE LastTry
  BY <1>0, <1>1, OutputsKeep, ContinueKeeps DEF NodeEmitsError
<1>2. CASE ~LastTry
  <2>1. /\ current' = [current EXCEPT !.output = workflow.errorOutput[Node]]
        /\ UNCHANGED <<workflow, executionData, runData, status, result, retries, consumed>>
    BY <1>2 DEF NodeEmitsError
  <2>2. current' = [item |-> current.item, run |-> current.run, try |-> current.try,
                    output |-> workflow.errorOutput[Node]]
    BY <1>0, <2>1, NodeExecuted
  <2>3. current.try \in 1..workflow.maxTries[Node] /\ current.try < workflow.maxTries[Node]
    BY <1>0, <1>2, NodeExecuted DEF LastTry
  <2> QED BY <1>0, <2>1, <2>2, <2>3, OnceMore
<1> QED BY <1>1, <1>2

LEMMA RerunReturnsKeeps == IInv /\ RerunReturns => IInv'
<1> SUFFICES ASSUME IInv, RerunReturns
             PROVE  IInv'
  OBVIOUS
<1>0. Executing /\ current.output = workflow.errorOutput[Node]
  BY NodeExecuted DEF RerunReturns
<1>1. CASE current.try + 1 = workflow.maxTries[Node]
  BY <1>0, <1>1, OutputsKeep, ContinueKeeps DEF RerunReturns
<1>2. CASE current.try + 1 # workflow.maxTries[Node]
  <2>1. /\ current' = [current EXCEPT !.try = @ + 1]
        /\ UNCHANGED <<workflow, executionData, runData, status, result, retries, consumed>>
    BY <1>2 DEF RerunReturns
  <2>2. current' = [item |-> current.item, run |-> current.run, try |-> current.try + 1,
                    output |-> current.output]
    BY <1>0, <2>1, NodeExecuted
  <2>3. current.try + 1 \in 1..workflow.maxTries[Node] /\ current.try + 1 < workflow.maxTries[Node]
    BY <1>0, <1>2, NodeExecuted DEF RerunReturns
  <2> QED BY <1>0, <2>1, <2>2, <2>3, OnceMore
<1> QED BY <1>1, <1>2

LEMMA CancelKeeps == IInv /\ Cancel => IInv'
<1> SUFFICES ASSUME IInv, Cancel
             PROVE  IInv'
  OBVIOUS
<1>1. /\ CurrentSound(current', runData', result') /\ Sound(executionData')
      /\ RunsSound(runData') /\ ItemsSound(consumed') /\ Drained(executionData', current')
  BY DEF Cancel, IInv
<1>2. EndSound(executionData', status', result', retries')
  BY DEF Cancel, IInv, EndSound
<1> QED BY <1>1, <1>2, StepTo DEF Cancel, IInv

\* The node at which a run goes on.
LEMMA HeadOfStack ==
    ASSUME IInv, result \in {"waiting", "error"}
    PROVE  /\ executionData.stack # <<>> /\ current = NoItem
           /\ IsItem(Head(executionData.stack)) /\ ItemKnown(Head(executionData.stack))
           /\ Head(executionData.stack).node \in Nodes
           /\ executionData.stack[1] = Head(executionData.stack)
<1>1. executionData.stack # <<>> /\ current = NoItem
  BY DEF IInv, EndSound, CurrentSound
<1>2. /\ IsItem(Head(executionData.stack)) /\ ItemKnown(Head(executionData.stack))
      /\ executionData.stack[1] = Head(executionData.stack)
  BY <1>1, SoundStack, Taken DEF IInv
<1> QED BY <1>1, <1>2 DEF IsItem

LEMMA ResumeKeeps == IInv /\ Resume => IInv'
<1> SUFFICES ASSUME IInv, Resume
             PROVE  IInv'
  OBVIOUS
<1> DEFINE n == Head(executionData.stack).node
           before == executionData.stack
           stack == [before EXCEPT ![1] = [@ EXCEPT !.disabled = TRUE]]
<1>1. /\ result = "waiting" /\ status' = "running" /\ result' = "none"
      /\ runData' = [runData EXCEPT ![n] = Front(@)]
      /\ executionData' = [executionData EXCEPT !.stack[1].disabled = TRUE]
      /\ UNCHANGED <<workflow, current, retries, consumed>>
  BY DEF Resume
<1>2. /\ n \in Nodes /\ before # <<>> /\ current = NoItem
      /\ IsItem(before[1]) /\ ItemKnown(before[1])
  BY <1>1, HeadOfStack
<1>3. executionData' = [executionData EXCEPT !.stack = stack]
  BY <1>1
<1>4. ItemsSound(stack) /\ stack # <<>>
  <2> DEFINE item == [before[1] EXCEPT !.disabled = TRUE]
  <2>1. IsItem(item) /\ ItemKnown(item)
    <3>1. PICK inputs \in {Inputs(before[1].node), {1}} :
              before[1] \in [node : Nodes, main : [inputs -> Batches],
                             source : [inputs -> Sources \cup {NoData}], disabled : BOOLEAN]
      BY <1>2 DEF IsItem
    <3>2. /\ item \in [node : Nodes, main : [inputs -> Batches],
                       source : [inputs -> Sources \cup {NoData}], disabled : BOOLEAN]
          /\ item.node = before[1].node /\ item.main = before[1].main
          /\ item.source = before[1].source
      BY <3>1
    <3> HIDE DEF item
    <3> QED BY <1>2, <3>1, <3>2 DEF IsItem, ItemKnown
  <2>2. before \in Seq(Items) /\ item \in Items
    BY <2>1, SoundStack, ItemSet DEF IInv
  <2> HIDE DEF item, before
  <2>3. stack = [before EXCEPT ![1] = item]
    BY DEF item
  <2>4. /\ Len(before) \in Nat \ {0} /\ DOMAIN before = 1..Len(before)
        /\ \A i \in 1..Len(before) : before[i] \in Items
    BY <1>2, <2>2, LenProperties, EmptySeq, ElementOfSeq
  <2> HIDE DEF stack
  <2>5. /\ stack \in [1..Len(before) -> Items]
        /\ \A i \in 1..Len(before) : stack[i] = IF i = 1 THEN item ELSE before[i]
    <3>1. before = [i \in 1..Len(before) |-> before[i]]
      BY <2>2, <2>4, LenProperties
    <3> QED BY <2>2, <2>3, <2>4, <3>1
  <2>6. stack \in Seq(Items) /\ DOMAIN stack = 1..Len(before)
    BY <2>4, <2>5, SeqDef
  <2>7. \A x \in ToSet(stack) : x = item \/ x \in ToSet(before)
    BY <2>4, <2>5, <2>6 DEF ToSet
  <2>8. stack # <<>>
    BY <2>4, <2>6, LenProperties, EmptySeq
  <2>9. \A x \in ToSet(before) : ItemKnown(x)
    BY SoundStack DEF IInv, ItemsSound, before
  <2> QED BY <2>1, <2>6, <2>7, <2>8, <2>9, ItemLists DEF ItemsSound
<1> HIDE DEF n, stack, before
<1>5. Sound(executionData') /\ executionData'.stack # <<>>
  BY <1>3, <1>4, StackKeeps DEF IInv
<1>6. RunsSound(runData')
  BY <1>1, <1>2, RunDropped DEF IInv
<1>7. CurrentSound(current', runData', result') /\ Drained(executionData', current')
  BY <1>1, <1>2, <1>5 DEF CurrentSound, Drained
<1>8. EndSound(executionData', status', result', retries')
  BY <1>1 DEF IInv, EndSound
<1>9. Known /\ ItemsSound(consumed')
  BY <1>1 DEF IInv
<1> QED BY <1>1, <1>5, <1>6, <1>7, <1>8, <1>9, StepTo

LEMMA RetryKeeps == IInv /\ Retry => IInv'
<1> SUFFICES ASSUME IInv, Retry
             PROVE  IInv'
  OBVIOUS
<1> DEFINE n == Head(executionData.stack).node
<1>1. /\ result = "error" /\ status' = "running" /\ result' = "none"
      /\ retries < MaxRetries /\ retries' = retries + 1
      /\ runData' = [runData EXCEPT ![n] = Front(@)]
      /\ UNCHANGED <<workflow, executionData, current, consumed>>
  BY DEF Retry
<1>2. n \in Nodes /\ executionData'.stack # <<>> /\ current' = NoItem
  BY <1>1, HeadOfStack
<1> HIDE DEF n
<1>3. RunsSound(runData')
  BY <1>1, <1>2, RunDropped DEF IInv
<1>4. CurrentSound(current', runData', result') /\ Drained(executionData', current')
  BY <1>2 DEF CurrentSound, Drained
<1>5. EndSound(executionData', status', result', retries')
  BY <1>1, BoundsAssumption DEF IInv, EndSound
<1>6. Known /\ Sound(executionData') /\ ItemsSound(consumed')
  BY <1>1 DEF IInv
<1> QED BY <1>1, <1>3, <1>4, <1>5, <1>6, StepTo

LEMMA StutterKeeps == IInv /\ UNCHANGED vars => IInv'
<1> SUFFICES ASSUME IInv, UNCHANGED vars
             PROVE  IInv'
  OBVIOUS
<1>1. /\ CurrentSound(current', runData', result') /\ Sound(executionData')
      /\ RunsSound(runData') /\ ItemsSound(consumed') /\ Drained(executionData', current')
  BY DEF vars, IInv
<1>2. EndSound(executionData', status', result', retries')
  BY DEF vars, IInv
<1> QED BY <1>1, <1>2, StepTo DEF vars, IInv

LEMMA Invariance == Spec => []IInv
<1>1. IInv /\ [Next]_vars => IInv'
  <2> SUFFICES ASSUME IInv, [Next]_vars
               PROVE  IInv'
    OBVIOUS
  <2>1. CASE TakeNode
    BY <2>1, TakeNodeKeeps
  <2>2. CASE Finish
    BY <2>2, FinishKeeps
  <2>3. CASE NodeSucceeds
    BY <2>3, NodeSucceedsKeeps
  <2>4. CASE NodeDisabled
    BY <2>4, NodeDisabledKeeps
  <2>5. CASE NodeReturnsNull
    BY <2>5, NodeReturnsNullKeeps
  <2>6. CASE NodeWaits
    BY <2>6, BreakKeeps DEF NodeWaits
  <2>7. CASE NodeThrows
    BY <2>7, NodeThrowsKeeps
  <2>8. CASE NodeEmitsError
    BY <2>8, NodeEmitsErrorKeeps
  <2>9. CASE RerunReturns
    BY <2>9, RerunReturnsKeeps
  <2>10. CASE Cancel
    BY <2>10, CancelKeeps
  <2>11. CASE Resume
    BY <2>11, ResumeKeeps
  <2>12. CASE Retry
    BY <2>12, RetryKeeps
  <2>13. CASE UNCHANGED vars
    BY <2>13, StutterKeeps
  <2> QED BY <2>1, <2>2, <2>3, <2>4, <2>5, <2>6, <2>7, <2>8, <2>9, <2>10, <2>11, <2>12, <2>13
          DEF Next, EngineStep
<1> QED BY InitKeeps, <1>1, PTL DEF Spec

-------------------------------------------------------------------------------
(***************************************************************************)
(* Theorems.                                                               *)
(***************************************************************************)

\* Every variable has its type in every workflow: whatever the nodes do, the keys
\* of waitingExecution are the nodes with entries, an entry has data and lacks
\* some, and a run that paused or failed has the node on the stack at which it
\* goes on.
THEOREM TypeCorrect == Spec => []TypeOK
<1>1. IInv => TypeOK
  <2> SUFFICES ASSUME IInv
               PROVE  TypeOK
    OBVIOUS
  <2>1. workflow \in Workflows /\ DataOK(executionData) /\ AreItems(consumed)
    BY DEF IInv, Known, Sound, ItemsSound
  <2>2. /\ runData \in [Nodes -> Seq(SUBSET Nat)]
        /\ \A n \in Nodes : \A k \in DOMAIN runData[n] :
              runData[n][k] \subseteq Outputs(n) \cup {workflow.errorOutput[n]}
    BY DEF IInv, RunsSound, ToSet
  <2>3. current # NoItem =>
            /\ result = "none" /\ IsItem(current.item)
            /\ current \in [item : {current.item}, run : {Len(runData[Node])},
                            try : 1..workflow.maxTries[Node],
                            output : {0, workflow.errorOutput[Node]}]
            /\ current.output # 0 => ~LastTry
    <3> SUFFICES ASSUME current # NoItem, result = "none"
                 PROVE  /\ IsItem(current.item)
                        /\ current \in [item : {current.item}, run : {Len(runData[Node])},
                                        try : 1..workflow.maxTries[Node],
                                        output : {0, workflow.errorOutput[Node]}]
                        /\ current.output # 0 => ~LastTry
      BY DEF IInv, CurrentSound
    <3>1. CurrentSound(current, runData, result)
      BY DEF IInv
    <3>2. Executing
      BY DEF Executing
    <3>3. current.output # 0 => ~LastTry
      BY <3>2, NodeExecuted DEF LastTry
    <3> QED BY <3>1, <3>3 DEF CurrentSound, Node
  <2>4. /\ status \in {"running", "canceled"}
        /\ result \in {"none", "success", "error", "waiting", "canceled"}
        /\ result \in {"error", "waiting"} => executionData.stack # <<>>
        /\ retries \in 0..MaxRetries
    BY DEF IInv, EndSound
  <2> QED BY <2>1, <2>2, <2>3, <2>4 DEF TypeOK
<1> QED BY <1>1, Invariance, PTL

\* In every workflow an item names for each input the source its data came from,
\* through merges, retries and pauses; only with more than two inputs may a
\* source be missing: the reset of addNodeToBeExecuted.
THEOREM SourcesNamed == Spec => []SourcesKnown
<1>1. IInv => SourcesKnown
  <2> SUFFICES ASSUME IInv
               PROVE  SourcesKnown
    OBVIOUS
  <2>1. ASSUME NEW items, ItemsSound(items), NEW j \in DOMAIN items,
               NEW i \in DOMAIN items[j].main
        PROVE  SourceKnown(items[j].node, items[j].main[i], items[j].source[i])
    BY <2>1 DEF ItemsSound, ItemKnown, ToSet
  <2>2. ItemsSound(Held)
    <3>1. ItemsSound(<<>>)
      <4>1. <<>> \in Seq(Items) /\ DOMAIN <<>> = {}
        BY EmptySeq, LenProperties
      <4> QED BY <4>1, ItemLists DEF ItemsSound, ToSet
    <3>2. CASE current = NoItem
      BY <3>1, <3>2 DEF Held
    <3>3. CASE current # NoItem
      <4>1. IsItem(current.item) /\ ItemKnown(current.item)
        BY <3>3 DEF IInv, CurrentSound
      <4>2. <<current.item>> = <<current.item>> \o <<>>
        OBVIOUS
      <4>3. ItemsSound(<<current.item>>)
        BY <3>1, <4>1, <4>2, ItemPushed
      <4> QED BY <3>3, <4>3 DEF Held
    <3> QED BY <3>2, <3>3
  <2>3. ItemsSound(executionData.stack) /\ ItemsSound(consumed)
    BY SoundStack DEF IInv
  <2>4. \A n \in Nodes : \A k \in DOMAIN executionData.waiting[n] :
            EntryKnown(n, executionData.waiting[n][k])
    BY DEF IInv, Sound, DataKnown
  <2> QED BY <2>1, <2>2, <2>3, <2>4 DEF SourcesKnown, EntryKnown
<1> QED BY <1>1, Invariance, PTL

\* In every workflow whose nodes do not return null, an execution that succeeds
\* leaves a node waiting only when an input that it requires got nothing, or too few
\* got something, or when that is so of a node before it: the search for waiting
\* nodes misses none.
THEOREM MergesRun == Spec => []MergesServed
<1>1. IInv => MergesServed
  <2> SUFFICES ASSUME IInv, result = "success", workflow.quiet = {},
                      NEW n \in ToSet(executionData.order),
                      ParentNodes(n) \cap ToSet(executionData.order) = {}
               PROVE  \E k \in DOMAIN executionData.waiting[n] :
                          LET filled == Filled(n, executionData.waiting[n][k])
                          IN  \/ \E i \in workflow.required[n] : i \notin filled
                              \/ Cardinality(filled) < workflow.atLeast[n]
    BY DEF MergesServed
  <2> DEFINE entries == executionData.waiting[n]
             first == entries[Smallest(DOMAIN entries)]
  <2>1. executionData.stack = <<>> /\ current = NoItem
    BY DEF IInv, EndSound, CurrentSound
  <2>2. ~MayRun(executionData, n)
    BY <2>1 DEF IInv, Drained
  <2>3. n \in Nodes
    <3>1. executionData.order \in Seq(Nodes)
      BY DEF IInv, Sound, DataOK
    <3> QED BY <3>1, LenProperties, ElementOfSeq DEF ToSet
  <2>4. DOMAIN entries # {} /\ EntriesSound(n, entries)
    BY <2>3, SoundEntries DEF IInv, Sound, DataOK
  <2>5. \/ workflow.required[n] = Inputs(n)
        \/ ~(workflow.required[n] \subseteq Filled(n, first))
        \/ ~(Cardinality(Filled(n, first)) >= workflow.atLeast[n])
    BY <2>2 DEF MayRun, EnoughData, FirstEntry
  <2> HIDE DEF entries
  <2>6. DOMAIN entries \in SUBSET Nat
    BY <2>4 DEF EntriesSound
  <2>7. Smallest(DOMAIN entries) \in DOMAIN entries
    BY <2>4, <2>6, SmallestIs
  <2>8. \E i \in Inputs(n) : first.main[i] = NoData
    BY <2>4, <2>7 DEF EntriesSound, Entries
  <2>9. Cardinality(Filled(n, first)) \in Nat /\ workflow.atLeast[n] \in Nat
    <3>1. IsFiniteSet(Inputs(n)) /\ Filled(n, first) \in SUBSET Inputs(n)
      BY FiniteInputs DEF Filled, IInv
    <3>2. IsFiniteSet(Filled(n, first))
      BY <3>1, FS_Subset
    <3>3. workflow.atLeast[n] \in Nat
      BY <2>3, WorkflowsAssumption DEF IInv, Known, Nodes
    <3> QED BY <3>2, <3>3, FS_CardinalityType
  <2>10. \/ \E i \in workflow.required[n] : i \notin Filled(n, first)
         \/ Cardinality(Filled(n, first)) < workflow.atLeast[n]
    <3>1. CASE workflow.required[n] = Inputs(n)
      BY <2>8, <3>1 DEF Filled
    <3> QED BY <2>5, <2>9, <3>1
  <2> QED BY <2>7, <2>10 DEF entries
<1> QED BY <1>1, Invariance, PTL
-------------------------------------------------------------------------------
(***************************************************************************)
(* Counting the places of a batch.                                         *)
(***************************************************************************)
One(fact) == IF fact THEN 1 ELSE 0
At(item, n, i, batch) == item.node = n /\ Has(item, i, batch)

LEMMA FiniteDomain ==
    ASSUME NEW S, NEW items \in Seq(S), NEW T \in SUBSET DOMAIN items
    PROVE  IsFiniteSet(T) /\ Cardinality(T) \in Nat /\ T \in SUBSET Nat
<1>1. Len(items) \in Nat /\ DOMAIN items = 1..Len(items)
  BY LenProperties
<1>2. IsFiniteSet(DOMAIN items)
  BY <1>1, FS_Interval
<1> QED BY <1>1, <1>2, FS_Subset, FS_CardinalityType

LEMMA CountNat ==
    ASSUME NEW S, NEW items \in Seq(S), NEW n, NEW i, NEW batch
    PROVE  InItems(items, n, i, batch) \in Nat
<1>1. { j \in DOMAIN items : items[j].node = n /\ Has(items[j], i, batch) } \in SUBSET DOMAIN items
  OBVIOUS
<1> QED BY <1>1, FiniteDomain DEF InItems

\* As many numbers as before, each one higher.
LEMMA ShiftedCount ==
    ASSUME NEW S \in SUBSET Nat, IsFiniteSet(S)
    PROVE  /\ IsFiniteSet({ j + 1 : j \in S })
           /\ Cardinality({ j + 1 : j \in S }) = Cardinality(S)
<1> DEFINE f == [j \in S |-> j + 1]
           T == { j + 1 : j \in S }
<1>1. f \in [S -> T] /\ \A j, k \in S : f[j] = f[k] => j = k
  OBVIOUS
<1>2. \A t \in T : \E j \in S : f[j] = t
  OBVIOUS
<1>3. f \in Bijection(S, T)
  BY <1>1, <1>2 DEF Bijection, Injection, Surjection, IsInjective
<1> HIDE DEF f, T
<1>4. ExistsBijection(S, T)
  BY <1>3 DEF ExistsBijection
<1> QED BY <1>4, FS_Bijection DEF T

LEMMA CountNone ==
    ASSUME NEW n, NEW i, NEW batch
    PROVE  InItems(<<>>, n, i, batch) = 0
<1>1. DOMAIN <<>> = {}
  OBVIOUS
<1>2. { j \in DOMAIN <<>> : At(<<>>[j], n, i, batch) } = {}
  BY <1>1
<1> HIDE <1>1
<1> QED BY <1>2, FS_EmptySet DEF InItems, At

LEMMA CountPushed ==
    ASSUME NEW S, NEW items \in Seq(S), NEW item \in S, NEW n, NEW i, NEW batch
    PROVE  /\ InItems(items, n, i, batch) \in Nat
           /\ InItems(<<item>> \o items, n, i, batch)
                = InItems(items, n, i, batch) + One(At(item, n, i, batch))
<1> DEFINE new == <<item>> \o items
           J == { j \in DOMAIN items : At(items[j], n, i, batch) }
           K == { j \in DOMAIN new : At(new[j], n, i, batch) }
           L == { j + 1 : j \in J }
<1>1. Len(items) \in Nat /\ DOMAIN items = 1..Len(items)
  BY LenProperties
<1>2. <<item>> \in Seq(S) /\ Len(<<item>>) = 1 /\ <<item>>[1] = item
  OBVIOUS
<1>3. /\ new \in Seq(S) /\ Len(new) = Len(items) + 1
      /\ \A j \in 1..(Len(items) + 1) : new[j] = IF j <= 1 THEN <<item>>[j] ELSE items[j - 1]
  BY <1>1, <1>2, ConcatProperties
<1>4. DOMAIN new = 1..(Len(items) + 1)
  BY <1>3, LenProperties
<1> HIDE DEF new
<1>5. new[1] = item /\ \A j \in 1..Len(items) : new[j + 1] = items[j]
  BY <1>1, <1>2, <1>3
<1>6. \A j \in 1..(Len(items) + 1) : j = 1 \/ (j - 1 \in 1..Len(items) /\ new[j] = items[j - 1])
  BY <1>1, <1>3
<1> DEFINE in(x) == At(x, n, i, batch)
<1>j. J = { j \in 1..Len(items) : in(items[j]) }
  BY <1>1
<1>k. K = { j \in 1..(Len(items) + 1) : in(new[j]) }
  BY <1>4
<1>l. IsFiniteSet(J) /\ Cardinality(J) \in Nat /\ J \in SUBSET Nat
  BY FiniteDomain
<1> HIDE DEF in
<1> HIDE DEF J, K
<1>7. K = L \cup (IF in(item) THEN {1} ELSE {})
  <2>1. \A j \in 1..Len(items) : in(items[j]) <=> in(new[j + 1])
    BY <1>5
  <2>2. L \subseteq K
    BY <1>1, <1>j, <1>k, <2>1
  <2>3. in(item) => 1 \in K
    BY <1>1, <1>5, <1>k
  <2>4. ASSUME NEW j \in K
        PROVE  j \in L \cup (IF in(item) THEN {1} ELSE {})
    <3>1. CASE j = 1
      BY <1>5, <1>k, <3>1
    <3>2. CASE j # 1
      <4>1. j - 1 \in 1..Len(items) /\ new[j] = items[j - 1] /\ in(new[j])
        BY <1>6, <1>k, <3>2
      <4>2. j - 1 \in J /\ (j - 1) + 1 = j
        BY <1>1, <1>j, <1>k, <4>1
      <4> QED BY <4>2
    <3> QED BY <3>1, <3>2
  <2> QED BY <2>2, <2>3, <2>4
<1>8. IsFiniteSet(L) /\ Cardinality(L) = Cardinality(J) /\ 1 \notin L
  <2>1. 1 \notin L
    BY <1>1, <1>j
  <2> QED BY <1>l, <2>1, ShiftedCount
<1> HIDE DEF L
<1>9. Cardinality(K) = Cardinality(J) + One(in(item))
  <2>1. CASE in(item)
    <3>1. Cardinality(K) = Cardinality(L) + 1
      BY <1>7, <1>8, <2>1, FS_AddElement
    <3> QED BY <1>8, <2>1, <3>1 DEF One
  <2>2. CASE ~in(item)
    <3>1. K = L
      BY <1>7, <2>2
    <3> QED BY <1>l, <1>8, <2>2, <3>1 DEF One
  <2> QED BY <2>1, <2>2
<1>10. InItems(items, n, i, batch) = Cardinality(J)
  BY DEF InItems, J, At
<1>11. InItems(new, n, i, batch) = Cardinality(K)
  BY DEF InItems, K, At
<1> QED BY <1>l, <1>9, <1>10, <1>11 DEF new, in

LEMMA CountAppended ==
    ASSUME NEW S, NEW items \in Seq(S), NEW item \in S, NEW n, NEW i, NEW batch
    PROVE  InItems(Append(items, item), n, i, batch)
             = InItems(items, n, i, batch) + One(At(item, n, i, batch))
<1> DEFINE new == Append(items, item)
           last == Len(items) + 1
           J == { j \in DOMAIN items : At(items[j], n, i, batch) }
           K == { j \in DOMAIN new : At(new[j], n, i, batch) }
<1>1. /\ Len(items) \in Nat /\ DOMAIN items = 1..Len(items)
      /\ new \in Seq(S) /\ Len(new) = Len(items) + 1
      /\ \A j \in 1..Len(items) : new[j] = items[j]
      /\ new[last] = item
  BY LenProperties
<1>2. DOMAIN new = 1..last
  BY <1>1, LenProperties
<1>3. IsFiniteSet(J) /\ Cardinality(J) \in Nat
  BY FiniteDomain
<1>4. K = J \cup (IF At(item, n, i, batch) THEN {last} ELSE {}) /\ last \notin J
  <2> DEFINE in(x) == At(x, n, i, batch)
  <2>1. J = { j \in 1..Len(items) : in(items[j]) } /\ K = { j \in 1..last : in(new[j]) }
    BY <1>1, <1>2
  <2>2. \A j \in 1..last : j \in 1..Len(items) \/ j = last
    BY <1>1
  <2>3. 1..Len(items) \subseteq 1..last /\ last \notin 1..Len(items) /\ last \in 1..last
    BY <1>1
  <2> HIDE DEF in, J, K, new, last
  <2> QED BY <1>1, <2>1, <2>2, <2>3 DEF in
<1> HIDE DEF J, K, last
<1>5. Cardinality(K) = Cardinality(J) + One(At(item, n, i, batch))
  <2>1. CASE At(item, n, i, batch)
    <3>1. Cardinality(K) = Cardinality(J) + 1
      BY <1>3, <1>4, <2>1, FS_AddElement
    <3> QED BY <2>1, <3>1 DEF One
  <2>2. CASE ~At(item, n, i, batch)
    <3>1. K = J
      BY <1>4, <2>2
    <3> QED BY <1>3, <2>2, <3>1 DEF One
  <2> QED BY <2>1, <2>2
<1>6. InItems(items, n, i, batch) = Cardinality(J) /\ InItems(new, n, i, batch) = Cardinality(K)
  BY DEF InItems, J, K, At
<1> QED BY <1>5, <1>6

LEMMA CountTaken ==
    ASSUME NEW S, NEW items \in Seq(S), items # <<>>, NEW n, NEW i, NEW batch
    PROVE  InItems(items, n, i, batch)
             = InItems(Tail(items), n, i, batch) + One(At(Head(items), n, i, batch))
<1>1. Tail(items) \in Seq(S) /\ Head(items) \in S /\ items = <<Head(items)>> \o Tail(items)
  <2>1. Head(items) \in S /\ Tail(items) \in Seq(S)
    BY HeadTailProperties
  <2> DEFINE first == Head(items)
             rest == Tail(items)
             whole == <<first>> \o rest
  <2>a. /\ Len(items) \in Nat \ {0} /\ Len(rest) = Len(items) - 1 /\ first = items[1]
        /\ \A l \in 1..(Len(items) - 1) : rest[l] = items[l + 1]
    BY EmptySeq, HeadTailProperties
  <2>b. <<first>> \in Seq(S) /\ Len(<<first>>) = 1 /\ <<first>>[1] = first
    BY <2>1
  <2> HIDE DEF first, rest
  <2>c. /\ whole \in Seq(S) /\ Len(whole) = Len(items)
        /\ \A l \in 1..Len(items) : whole[l] = IF l <= 1 THEN <<first>>[l] ELSE rest[l - 1]
    BY <2>1, <2>a, <2>b, ConcatProperties DEF first, rest
  <2> HIDE DEF whole
  <2>d. ASSUME NEW j \in 1..Len(items)
        PROVE  items[j] = whole[j]
    <3>1. CASE j = 1
      BY <2>a, <2>b, <2>c, <3>1
    <3>2. CASE j # 1
      <4>1. j - 1 \in 1..(Len(items) - 1) /\ (j - 1) + 1 = j /\ ~(j <= 1)
        BY <2>a, <3>2
      <4> QED BY <2>a, <2>c, <4>1
    <3> QED BY <3>1, <3>2
  <2>2. items = whole
    BY <2>c, <2>d, SeqEqual
  <2> QED BY <2>1, <2>2 DEF first, rest, whole
<1> DEFINE first == Head(items)
           rest == Tail(items)
<1>2. rest \in Seq(S) /\ first \in S /\ items = <<first>> \o rest
  BY <1>1
<1> HIDE DEF first, rest
<1>3. InItems(<<first>> \o rest, n, i, batch)
        = InItems(rest, n, i, batch) + One(At(first, n, i, batch))
  BY <1>2, CountPushed
<1> QED BY <1>2, <1>3 DEF first, rest

LEMMA CountSame ==
    ASSUME NEW items, NEW new, DOMAIN new = DOMAIN items,
           \A j \in DOMAIN items : new[j].node = items[j].node /\ new[j].main = items[j].main,
           NEW n, NEW i, NEW batch
    PROVE  InItems(new, n, i, batch) = InItems(items, n, i, batch)
<1>1. { j \in DOMAIN new : new[j].node = n /\ Has(new[j], i, batch) }
        = { j \in DOMAIN items : items[j].node = n /\ Has(items[j], i, batch) }
  BY DEF Has
<1> QED BY <1>1 DEF InItems

LEMMA CountWithout ==
    ASSUME NEW entries, IsFiniteSet(DOMAIN entries), NEW index, NEW i, NEW batch
    PROVE  /\ InEntries(entries, i, batch) \in Nat
           /\ InEntries(Without(entries, index), i, batch) \in Nat
           /\ InEntries(entries, i, batch) = InEntries(Without(entries, index), i, batch)
                + One(index \in DOMAIN entries /\ entries[index].main[i] = batch)
<1> DEFINE J == { k \in DOMAIN entries : entries[k].main[i] = batch }
           K == { k \in DOMAIN Without(entries, index) : Without(entries, index)[k].main[i] = batch }
<1>1. /\ DOMAIN Without(entries, index) = DOMAIN entries \ {index}
      /\ \A k \in DOMAIN entries \ {index} : Without(entries, index)[k] = entries[k]
  BY DEF Without
<1>2. K = J \ {index}
  BY <1>1
<1>3. IsFiniteSet(J) /\ Cardinality(J) \in Nat
  BY FS_Subset, FS_CardinalityType
<1>4. index \in J <=> index \in DOMAIN entries /\ entries[index].main[i] = batch
  OBVIOUS
<1>5. InEntries(entries, i, batch) = Cardinality(J)
      /\ InEntries(Without(entries, index), i, batch) = Cardinality(K)
  BY DEF InEntries
<1> HIDE DEF J, K
<1>6. Cardinality(K) \in Nat
  BY <1>2, <1>3, FS_RemoveElement, FS_CardinalityType
<1>7. CASE index \in J
  <2>1. Cardinality(K) = Cardinality(J) - 1
    BY <1>2, <1>3, <1>7, FS_RemoveElement
  <2> QED BY <1>3, <1>4, <1>5, <1>6, <1>7, <2>1 DEF One
<1>8. CASE index \notin J
  <2>1. K = J
    BY <1>2, <1>8
  <2> QED BY <1>3, <1>4, <1>5, <1>6, <1>8, <2>1 DEF One
<1> QED BY <1>7, <1>8

LEMMA CountWith ==
    ASSUME NEW entries, IsFiniteSet(DOMAIN entries), NEW index, NEW entry, NEW i, NEW batch
    PROVE  InEntries(With(entries, index, entry), i, batch)
             = InEntries(Without(entries, index), i, batch) + One(entry.main[i] = batch)
<1> DEFINE new == With(entries, index, entry)
<1>1. /\ DOMAIN new = DOMAIN entries \cup {index} /\ new[index] = entry
      /\ \A k \in DOMAIN new \ {index} : new[k] = entries[k]
  BY DEF With
<1>2. IsFiniteSet(DOMAIN new)
  BY <1>1, FS_AddElement
<1> HIDE DEF new
<1>3. Without(new, index) = Without(entries, index)
  BY <1>1 DEF Without
<1>4. InEntries(new, i, batch) = InEntries(Without(new, index), i, batch)
        + One(index \in DOMAIN new /\ new[index].main[i] = batch)
  BY <1>2, CountWithout
<1>5. One(index \in DOMAIN new /\ new[index].main[i] = batch) = One(entry.main[i] = batch)
  BY <1>1 DEF One
<1> QED BY <1>3, <1>4, <1>5 DEF new

LEMMA TwoInputs ==
    ASSUME Known, NEW n, NEW i \in Inputs(n), NEW j \in Inputs(n), i # j
    PROVE  Cardinality(Inputs(n)) > 1
<1>1. IsFiniteSet({i, j}) /\ Cardinality({i, j}) = 2
  <2>1. IsFiniteSet({i}) /\ Cardinality({i}) = 1
    BY FS_Singleton
  <2>2. IsFiniteSet({i} \cup {j}) /\ Cardinality({i} \cup {j}) = 2
    BY <2>1, FS_AddElement
  <2>3. {i} \cup {j} = {i, j}
    OBVIOUS
  <2> QED BY <2>2, <2>3
<1>2. {i, j} \in SUBSET Inputs(n)
  OBVIOUS
<1>3. IsFiniteSet(Inputs(n)) /\ Cardinality(Inputs(n)) \in Nat
  BY FiniteInputs, FS_CardinalityType
<1> QED BY <1>1, <1>2, <1>3, FS_Subset

\* A batch that is added is in one place more, and every other one in as many as
\* before, unless the entry it is added to has data for the input.
Refills(data, c) ==
    /\ IsMerge(c.to)
    /\ IndexFor(data, c) \in DOMAIN data.waiting[c.to]
    /\ data.waiting[c.to][IndexFor(data, c)].main[c.input] # NoData

EntryHas(data, c, i, batch) ==
    /\ IndexFor(data, c) \in DOMAIN data.waiting[c.to]
    /\ data.waiting[c.to][IndexFor(data, c)].main[i] = batch

GivenAt(c, run, n, i, batch) ==
    n = c.to /\ i = c.input /\ batch = {<<c.from, run, c.output>>}

LEMMA MainCounts ==
    ASSUME Known, NEW data, Sound(data), NEW c \in Connections, NEW run \in 0..MaxRuns,
           IsMerge(c.to), ~Refills(data, c), NEW i \in Inputs(c.to), NEW batch, batch # NoData
    PROVE  One(MainFor(data, c, run)[i] = batch)
             = One(EntryHas(data, c, i, batch)) + One(GivenAt(c, run, c.to, i, batch))
<1> DEFINE entries == data.waiting[c.to]
           index == IndexFor(data, c)
           main == MainFor(data, c, run)
           old == EntryFor(data, c)
           items == {<<c.from, run, c.output>>}
<1>1. main[c.input] = items /\ \A j \in Inputs(c.to) : j # c.input => main[j] = old.main[j]
  BY MainIs
<1>2. index \in DOMAIN entries => entries[index].main[c.input] = NoData
  BY DEF Refills
<1>3. old = IF index \in DOMAIN entries THEN entries[index]
            ELSE [main |-> Nothing(c.to), source |-> Nothing(c.to)]
  BY <1>2 DEF EntryFor
<1> DEFINE goal == One(main[i] = batch)
                     = One(index \in DOMAIN entries /\ entries[index].main[i] = batch)
                       + One(i = c.input /\ batch = items)
<1> SUFFICES goal
  BY DEF EntryHas, GivenAt, One
<1> HIDE DEF index, main, old, items, entries
<1>4. CASE i = c.input
  BY <1>1, <1>2, <1>4 DEF One
<1>5. CASE i # c.input /\ index \in DOMAIN entries
  BY <1>1, <1>3, <1>5 DEF One
<1>6. CASE i # c.input /\ index \notin DOMAIN entries
  <2>1. main[i] = NoData
    BY <1>1, <1>3, <1>6 DEF Nothing
  <2> QED BY <1>6, <2>1 DEF One
<1> QED BY <1>4, <1>5, <1>6

LEMMA CountAdded ==
    ASSUME Known, NEW data, Sound(data), NEW c \in Connections, NEW run \in 0..MaxRuns,
           ~Refills(data, c), NEW new, new = AddNodeToBeExecuted(data, c, run),
           NEW n \in Nodes, NEW i \in Inputs(n), NEW batch, batch # NoData
    PROVE  Stored(new, n, i, batch) = Stored(data, n, i, batch)
             + One(GivenAt(c, run, n, i, batch))
<1> DEFINE items == {<<c.from, run, c.output>>}
           before == InItems(data.stack, n, i, batch)
<1>1. /\ Keeps(data, new, c.to)
      /\ \/ AddsItem(data, new, c, run)
         \/ AddsWhole(data, new, c, run)
         \/ AddsEntry(data, new, c, run)
  BY AddDoes
<1>2. data.stack \in Seq(Items)
  BY SoundStack
<1>3. before \in Nat
  BY <1>2, CountNat
<1>4. EntriesSound(n, data.waiting[n]) /\ IsFiniteSet(DOMAIN data.waiting[n])
  BY SoundEntries DEF EntriesSound
<1>5. ASSUME NEW item, IsItem(item), new.stack = <<item>> \o data.stack
      PROVE  InItems(new.stack, n, i, batch) = before + One(At(item, n, i, batch))
  <2>1. item \in Items
    BY <1>5, ItemSet
  <2> QED BY <1>2, <1>5, <2>1, CountPushed
<1>6. ASSUME NEW main, Pushes(data, new, c.to, main), DOMAIN main = Inputs(c.to)
      PROVE  InItems(new.stack, n, i, batch) = before + One(n = c.to /\ main[i] = batch)
  <2>1. PICK item : /\ IsItem(item) /\ item.node = c.to /\ item.main = main
                    /\ new.stack = <<item>> \o data.stack
    BY <1>6 DEF Pushes
  <2>2. InItems(new.stack, n, i, batch) = before + One(At(item, n, i, batch))
    BY <1>5, <2>1
  <2>3. At(item, n, i, batch) <=> n = c.to /\ main[i] = batch
    BY <1>6, <2>1 DEF At, Has
  <2>4. One(At(item, n, i, batch)) = One(n = c.to /\ main[i] = batch)
    BY <2>3 DEF One
  <2> QED BY <2>2, <2>4
<1>7. Stored(data, n, i, batch) = before + InEntries(data.waiting[n], i, batch)
  BY DEF Stored
<1>8. Stored(new, n, i, batch) = InItems(new.stack, n, i, batch) + InEntries(new.waiting[n], i, batch)
  BY DEF Stored
<1>9. InEntries(data.waiting[n], i, batch) \in Nat
  BY <1>4, CountWithout
<1> HIDE DEF before
<1>10. CASE n # c.to
  <2>1. new.waiting[n] = data.waiting[n]
    BY <1>1, <1>10 DEF Keeps
  <2>2. InItems(new.stack, n, i, batch) = before
    <3>1. ASSUME NEW main, Pushes(data, new, c.to, main), DOMAIN main = Inputs(c.to)
          PROVE  InItems(new.stack, n, i, batch) = before
      BY <1>3, <1>6, <1>10, <3>1 DEF One
    <3>2. CASE AddsItem(data, new, c, run)
      BY <3>1, <3>2 DEF AddsItem
    <3>3. CASE AddsWhole(data, new, c, run)
      <4>1. DOMAIN MainFor(data, c, run) = Inputs(c.to)
        BY MainIs
      <4> QED BY <3>1, <3>3, <4>1 DEF AddsWhole
    <3>4. CASE AddsEntry(data, new, c, run)
      BY <3>4 DEF AddsEntry, before
    <3> QED BY <1>1, <3>2, <3>3, <3>4
  <2> QED BY <1>3, <1>7, <1>8, <1>9, <1>10, <2>1, <2>2 DEF One, GivenAt
<1>11. CASE n = c.to /\ AddsItem(data, new, c, run)
  <2> DEFINE main == [j \in Inputs(c.to) |-> items]
  <2>1. InItems(new.stack, n, i, batch) = before + One(n = c.to /\ main[i] = batch)
    <3>1. DOMAIN main = Inputs(c.to) /\ Pushes(data, new, c.to, main)
      BY <1>11 DEF AddsItem
    <3> HIDE DEF main
    <3> QED BY <1>6, <3>1
  <2>2. i = c.input
    <3>1. c.input \in Inputs(c.to) /\ i \in Inputs(c.to) /\ ~(Cardinality(Inputs(c.to)) > 1)
      BY <1>11, ConnectionFacts DEF AddsItem, IsMerge
    <3> QED BY <3>1, TwoInputs
  <2>3. main[i] = items
    BY <1>11
  <2>4. new.waiting[n] = data.waiting[n]
    BY <1>11 DEF AddsItem
  <2>5. One(n = c.to /\ main[i] = batch) = One(n = c.to /\ i = c.input /\ batch = items)
    BY <2>2, <2>3 DEF One
  <2>6. One(n = c.to /\ i = c.input /\ batch = items) \in Nat
    BY DEF One
  <2> HIDE DEF main, items
  <2>7. Stored(new, n, i, batch) = Stored(data, n, i, batch)
                                   + One(n = c.to /\ i = c.input /\ batch = items)
    BY <1>3, <1>7, <1>8, <1>9, <2>1, <2>4, <2>5, <2>6
  <2> QED BY <2>7 DEF items, GivenAt, One
<1>12. CASE n = c.to /\ ~AddsItem(data, new, c, run)
  <2> DEFINE entries == data.waiting[c.to]
             index == IndexFor(data, c)
             main == MainFor(data, c, run)
             held == One(EntryHas(data, c, i, batch))
             got == One(GivenAt(c, run, c.to, i, batch))
             rest == InEntries(Without(entries, index), i, batch)
  <2>1. IsMerge(c.to)
    BY <1>1, <1>12 DEF AddsWhole, AddsEntry
  <2>2. One(main[i] = batch) = held + got
    <3>1. i \in Inputs(c.to)
      BY <1>12
    <3> QED BY <2>1, <3>1, MainCounts
  <2>3. /\ InEntries(data.waiting[n], i, batch) = rest + held /\ rest \in Nat
        /\ held \in Nat /\ got \in Nat
    BY <1>4, <1>12, CountWithout DEF One, EntryHas
  <2>4. InItems(new.stack, n, i, batch) + InEntries(new.waiting[n], i, batch)
          = before + rest + One(main[i] = batch)
    <3>1. CASE AddsWhole(data, new, c, run)
      <4>1. DOMAIN main = Inputs(c.to) /\ Pushes(data, new, c.to, main)
        BY <3>1, MainIs DEF AddsWhole
      <4>2. InEntries(new.waiting[n], i, batch) = rest
        BY <1>12, <3>1 DEF AddsWhole
      <4> HIDE DEF main, rest, index, entries
      <4>3. InItems(new.stack, n, i, batch) = before + One(n = c.to /\ main[i] = batch)
        BY <1>6, <4>1
      <4>4. One(n = c.to /\ main[i] = batch) = One(main[i] = batch) /\ One(main[i] = batch) \in Nat
        BY <1>12 DEF One
      <4> QED BY <1>3, <2>3, <4>2, <4>3, <4>4
    <3>2. CASE AddsEntry(data, new, c, run)
      <4>1. PICK entry \in Entries(c.to) :
                entry.main = main /\ new.waiting[c.to] = With(entries, index, entry)
        BY <3>2 DEF AddsEntry
      <4>2. InEntries(With(entries, index, entry), i, batch) = rest + One(entry.main[i] = batch)
        BY <1>4, <1>12, CountWith
      <4>3. new.stack = data.stack
        BY <3>2 DEF AddsEntry
      <4>4. InItems(new.stack, n, i, batch) = before
        BY <4>3 DEF before
      <4>5. One(entry.main[i] = batch) = One(main[i] = batch) /\ One(main[i] = batch) \in Nat
        BY <4>1 DEF One
      <4> HIDE DEF main, rest, index, entries
      <4>6. InEntries(new.waiting[n], i, batch) = rest + One(main[i] = batch)
        BY <1>12, <4>1, <4>2, <4>5
      <4> QED BY <1>3, <2>3, <4>4, <4>5, <4>6
    <3> QED BY <1>1, <1>12, <3>1, <3>2
  <2>5. One(GivenAt(c, run, n, i, batch)) = got
    BY <1>12
  <2> HIDE DEF held, got, rest, main, index, entries
  <2>6. Stored(new, n, i, batch) = Stored(data, n, i, batch) + got
    BY <1>3, <1>7, <1>8, <2>2, <2>3, <2>4
  <2> QED BY <2>5, <2>6
<1> QED BY <1>1, <1>10, <1>11, <1>12

-------------------------------------------------------------------------------
(***************************************************************************)
(* Nothing is lost, as long as no entry is added to that has data for the  *)
(* input.                                                                  *)
(***************************************************************************)
Follows(c, n, outputs) == c.from = n /\ c.output \in outputs

Batch(c, run) == {<<c.from, run, c.output>>}

\* What is passed on along a connection.
PassedAlong(c, r, n, run, outputs) == Follows(c, n, outputs) /\ r = run

\* Some connection is followed to an entry that has data for the input.
Overwriting(data, n, run, outputs) ==
    \E k \in 1..Len(workflow.connections) :
        LET c == workflow.connections[k]
        IN  Follows(c, n, outputs) /\ Refills(Passed(data, n, run, outputs)[k - 1], c)

LEMMA SameBatch ==
    ASSUME Known, NEW c \in Connections, NEW d \in Connections, NEW r, NEW run,
           c.to = d.to, c.input = d.input, Batch(c, r) = Batch(d, run)
    PROVE  c = d /\ r = run
<1>1. c.from = d.from /\ r = run /\ c.output = d.output
  <2> DEFINE x == <<c.from, r, c.output>>
             y == <<d.from, run, d.output>>
  <2>1. {x} = {y}
    BY DEF Batch
  <2>2. x = y
    <3> HIDE DEF x, y
    <3> QED BY <2>1
  <2> QED BY <2>2
<1> QED BY <1>1, ConnectionFacts

LEMMA StoredNat ==
    ASSUME NEW data, Sound(data), NEW n \in Nodes, NEW i, NEW batch
    PROVE  Stored(data, n, i, batch) \in Nat
<1>1. data.stack \in Seq(Items) /\ IsFiniteSet(DOMAIN data.waiting[n])
  BY SoundStack, SoundEntries DEF EntriesSound
<1>2. InItems(data.stack, n, i, batch) \in Nat
  BY <1>1, CountNat
<1>3. InEntries(data.waiting[n], i, batch) \in Nat
  BY <1>1, CountWithout
<1> QED BY <1>2, <1>3 DEF Stored

LEMMA CountPassed ==
    ASSUME Known, IsInjective(workflow.connections), NEW data, Sound(data), NEW n, NEW run,
           NEW outputs, outputs # {} => run \in 0..MaxRuns,
           ~Overwriting(data, n, run, outputs), NEW d \in Connections, NEW r \in 0..MaxRuns
    PROVE  Stored(Passed(data, n, run, outputs)[Len(workflow.connections)],
                  d.to, d.input, Batch(d, r))
             = Stored(data, d.to, d.input, Batch(d, r)) + One(PassedAlong(d, r, n, run, outputs))
<1> DEFINE size == Len(workflow.connections)
           f == Passed(data, n, run, outputs)
           count(k) == Stored(f[k], d.to, d.input, Batch(d, r))
           along == PassedAlong(d, r, n, run, outputs)
<1>1. /\ size \in Nat /\ f[0] = data
      /\ \A k \in 1..size :
            LET c == workflow.connections[k]
            IN  /\ c \in Connections
                /\ f[k] = IF c.from = n /\ c.output \in outputs
                          THEN AddNodeToBeExecuted(f[k - 1], c, run) ELSE f[k - 1]
  BY PassedSteps
<1>2. PICK p \in 1..size : workflow.connections[p] = d
  BY PassedSteps
<1>3. \A k \in 1..size : workflow.connections[k] = d => k = p
  <2>1. DOMAIN workflow.connections = 1..size
    BY WorkflowsAssumption, LenProperties DEF Known
  <2> QED BY <1>2, <2>1 DEF IsInjective
<1>4. \A k \in 0..size : Sound(f[k])
  BY PassedKeeps
<1>5. d.to \in Nodes /\ d.input \in Inputs(d.to) /\ Batch(d, r) # NoData
  BY ConnectionFacts, Batching DEF Batch
<1>6. \A k \in 1..size :
          Follows(workflow.connections[k], n, outputs) => ~Refills(f[k - 1], workflow.connections[k])
  BY DEF Overwriting
<1> DEFINE S == { k \in Nat : k \in 0..size => count(k) = count(0) + One(p <= k /\ along) }
<1> HIDE DEF f, size
<1>7. count(0) \in Nat
  BY <1>1, <1>5, StoredNat
<1>8. 0 \in S
  BY <1>2, <1>7 DEF One
<1>9. ASSUME NEW k \in Nat, k \in S, k + 1 \in 0..size
      PROVE  count(k + 1) = count(0) + One(p <= k + 1 /\ along)
  <2> DEFINE c == workflow.connections[k + 1]
  <2>1. count(k) = count(0) + One(p <= k /\ along) /\ Sound(f[k]) /\ count(k) \in Nat
    <3>1. k \in 0..size
      BY <1>1, <1>9
    <3>2. Sound(f[k])
      BY <1>4, <3>1
    <3> QED BY <1>5, <1>9, <3>1, <3>2, StoredNat
  <2>2. k + 1 \in 1..size /\ (k + 1) - 1 = k
    BY <1>1, <1>9
  <2>3. c \in Connections /\ f[k + 1] = IF c.from = n /\ c.output \in outputs
                                        THEN AddNodeToBeExecuted(f[k], c, run) ELSE f[k]
    BY <1>1, <2>2
  <2>4. c = d <=> k + 1 = p
    BY <1>2, <1>3, <2>2
  <2>5. Follows(c, n, outputs) => ~Refills(f[k], c)
    BY <1>6, <2>2
  <2> HIDE DEF c
  <2>6. CASE Follows(c, n, outputs)
    <3>1. run \in 0..MaxRuns /\ f[k + 1] = AddNodeToBeExecuted(f[k], c, run)
      BY <2>3, <2>6 DEF Follows
    <3>2. count(k + 1) = count(k) + One(GivenAt(c, run, d.to, d.input, Batch(d, r)))
      BY <1>5, <2>1, <2>3, <2>5, <2>6, <3>1, CountAdded
    <3>3. GivenAt(c, run, d.to, d.input, Batch(d, r)) <=> c = d /\ r = run
      <4>1. GivenAt(c, run, d.to, d.input, Batch(d, r))
              <=> d.to = c.to /\ d.input = c.input /\ Batch(d, r) = Batch(c, run)
        BY DEF GivenAt, Batch
      <4> QED BY <2>3, <4>1, SameBatch
    <3> HIDE DEF count, along
    <3>4. CASE k + 1 = p
      <4>1. along <=> r = run
        BY <2>4, <2>6, <3>4 DEF along, PassedAlong
      <4>2. ~(p <= k) /\ p <= k + 1
        BY <1>2, <3>4
      <4>3. One(p <= k /\ along) = 0 /\ One(p <= k + 1 /\ along) = One(along)
        BY <4>2 DEF One
      <4>4. One(GivenAt(c, run, d.to, d.input, Batch(d, r))) = One(along)
        BY <2>4, <3>3, <3>4, <4>1 DEF One
      <4>5. count(0) \in Nat /\ One(along) \in Nat
        BY <1>7 DEF One
      <4> QED BY <2>1, <3>2, <4>3, <4>4, <4>5
    <3>5. CASE k + 1 # p
      <4>1. p <= k <=> p <= k + 1
        BY <1>2, <3>5
      <4> QED BY <1>2, <2>1, <2>4, <3>2, <3>3, <3>5, <4>1 DEF One
    <3> QED BY <3>4, <3>5
  <2>7. CASE ~Follows(c, n, outputs)
    <3>1. count(k + 1) = count(k)
      BY <2>3, <2>7 DEF Follows
    <3>2. k + 1 = p => ~along
      BY <2>4, <2>7 DEF PassedAlong
    <3>3. k + 1 # p => (p <= k <=> p <= k + 1)
      BY <1>2
    <3> HIDE DEF count, along
    <3> QED BY <1>2, <2>1, <3>1, <3>2, <3>3 DEF One
  <2> QED BY <2>6, <2>7
<1>10. \A k \in Nat : k \in S
  <2>1. ASSUME NEW k \in Nat, k \in S
        PROVE  k + 1 \in S
    BY <1>9, <2>1
  <2> HIDE DEF S
  <2> QED BY <1>8, <2>1, Induct
<1>11. count(size) = count(0) + One(p <= size /\ along)
  <2>1. size \in Nat /\ size \in 0..size
    BY <1>1
  <2> HIDE DEF count, along
  <2> QED BY <1>10, <2>1
<1>12. One(p <= size /\ along) = One(along)
  BY <1>1, <1>2 DEF One
<1> QED BY <1>1, <1>11, <1>12 DEF f, size

LEMMA CountServed ==
    ASSUME Known, NEW data, Sound(data), NEW n \in Nodes, NEW i \in Inputs(n),
           NEW batch, batch \notin {NoData, {}}
    PROVE  Stored(ServeWaiting(data), n, i, batch) = Stored(data, n, i, batch)
<1> DEFINE new == ServeWaiting(data)
<1>1. new = data \/ \E m \in Nodes : Serves(data, new, m)
  BY ServeDoes
<1>2. ASSUME NEW m \in Nodes, Serves(data, new, m)
      PROVE  Stored(new, n, i, batch) = Stored(data, n, i, batch)
  <2> DEFINE index == FirstIndex(data, m)
             entries == data.waiting[m]
             main == Completed(m, entries[index].main)
  <2>1. PICK item : /\ IsItem(item) /\ item.node = m /\ item.main = main
                    /\ new.stack = <<item>> \o data.stack
    BY <1>2 DEF Serves, Pushes
  <2>2. data.stack \in Seq(Items) /\ item \in Items
    BY <2>1, SoundStack, ItemSet
  <2>3. /\ InItems(new.stack, n, i, batch)
             = InItems(data.stack, n, i, batch) + One(At(item, n, i, batch))
        /\ InItems(data.stack, n, i, batch) \in Nat
    BY <2>1, <2>2, CountPushed
  <2>4. IsFiniteSet(DOMAIN entries) /\ IsFiniteSet(DOMAIN data.waiting[n])
    BY SoundEntries DEF EntriesSound
  <2>5. new.waiting[m] = Without(entries, index) /\ index \in DOMAIN entries
    BY <1>2 DEF Serves
  <2>6. InEntries(data.waiting[n], i, batch) \in Nat
    BY <2>4, CountWithout
  <2>7. Stored(new, n, i, batch) = InItems(new.stack, n, i, batch) + InEntries(new.waiting[n], i, batch)
    BY DEF Stored
  <2>8. Stored(data, n, i, batch) = InItems(data.stack, n, i, batch)
                                    + InEntries(data.waiting[n], i, batch)
    BY DEF Stored
  <2>9. CASE n = m
    <3>1. main[i] = batch <=> entries[index].main[i] = batch
      BY <2>9 DEF Completed
    <3>2. At(item, n, i, batch) <=> entries[index].main[i] = batch
      <4>1. DOMAIN main = Inputs(m)
        BY DEF Completed
      <4> HIDE DEF main, entries, index
      <4> QED BY <2>1, <2>9, <3>1, <4>1 DEF At, Has
    <3> HIDE DEF main
    <3>3. One(At(item, n, i, batch)) = One(index \in DOMAIN entries /\ entries[index].main[i] = batch)
      BY <2>5, <3>2 DEF One
    <3>4. /\ InEntries(entries, i, batch) = InEntries(Without(entries, index), i, batch)
               + One(index \in DOMAIN entries /\ entries[index].main[i] = batch)
          /\ InEntries(Without(entries, index), i, batch) \in Nat
      BY <2>4, CountWithout
    <3>5. One(At(item, n, i, batch)) \in Nat
      BY DEF One
    <3>6. entries = data.waiting[n] /\ new.waiting[n] = Without(entries, index)
      BY <2>5, <2>9
    <3> HIDE DEF entries, index, new
    <3> QED BY <2>3, <2>7, <2>8, <3>3, <3>4, <3>5, <3>6
  <2>10. CASE n # m
    <3>1. new.waiting[n] = data.waiting[n]
      BY <1>2, <2>10 DEF Serves, Keeps
    <3>2. One(At(item, n, i, batch)) = 0
      BY <2>1, <2>10 DEF One, At
    <3> HIDE DEF new
    <3> QED BY <2>3, <2>6, <2>7, <2>8, <3>1, <3>2
  <2> QED BY <2>9, <2>10
<1> QED BY <1>1, <1>2

\* The run of a node in which it gave data to a connection.
Ran(runs, d, r) == r + 1 \in DOMAIN runs[d.from] /\ d.output \in runs[d.from][r + 1]

Recorded(runs, n, outputs) == [runs EXCEPT ![n] = Append(@, outputs)]
Dropped(runs, n) == [runs EXCEPT ![n] = Front(@)]

LEMMA RanAppended ==
    ASSUME Known, NEW runs \in [Nodes -> Seq(SUBSET Nat)], NEW n \in Nodes,
           NEW outputs \in SUBSET Nat, NEW d \in Connections, NEW r \in Nat
    PROVE  One(Ran(Recorded(runs, n, outputs), d, r))
             = One(Ran(runs, d, r)) + One(PassedAlong(d, r, n, Len(runs[n]), outputs))
<1> DEFINE new == Recorded(runs, n, outputs)
           size == Len(runs[n])
<1>1. d.from \in Nodes
  BY ConnectionFacts
<1>2. /\ size \in Nat /\ DOMAIN runs[n] = 1..size
      /\ DOMAIN Append(runs[n], outputs) = 1..(size + 1)
      /\ Append(runs[n], outputs)[size + 1] = outputs
      /\ \A k \in 1..size : Append(runs[n], outputs)[k] = runs[n][k]
  <2> DEFINE Lists == SUBSET Nat
  <2>1. runs[n] \in Seq(Lists) /\ outputs \in Lists
    OBVIOUS
  <2> HIDE DEF Lists
  <2>2. /\ size \in Nat /\ DOMAIN runs[n] = 1..size
        /\ Append(runs[n], outputs) \in Seq(Lists) /\ Len(Append(runs[n], outputs)) = size + 1
        /\ Append(runs[n], outputs)[size + 1] = outputs
        /\ \A k \in 1..size : Append(runs[n], outputs)[k] = runs[n][k]
    BY <2>1, AppendProperties, LenProperties
  <2> QED BY <2>2, LenProperties
<1>3. new[d.from] = IF d.from = n THEN Append(runs[n], outputs) ELSE runs[d.from]
  BY <1>1 DEF Recorded
<1> HIDE DEF new, size
<1>4. CASE d.from # n
  BY <1>3, <1>4 DEF One, Ran, PassedAlong, Follows, new
<1>5. CASE d.from = n /\ r = size
  <2>1. r + 1 \notin 1..size /\ r + 1 \in 1..(size + 1)
    BY <1>2, <1>5
  <2>2. ~Ran(runs, d, r) /\ (Ran(new, d, r) <=> d.output \in outputs)
    BY <1>2, <1>3, <1>5, <2>1 DEF Ran
  <2>3. PassedAlong(d, r, n, size, outputs) <=> d.output \in outputs
    BY <1>5 DEF PassedAlong, Follows
  <2> QED BY <2>2, <2>3 DEF One, new, size
<1>6. CASE d.from = n /\ r # size
  <2>1. r + 1 \in 1..(size + 1) <=> r + 1 \in 1..size
    BY <1>2, <1>6
  <2>2. Ran(new, d, r) <=> Ran(runs, d, r)
    BY <1>2, <1>3, <1>6, <2>1 DEF Ran
  <2>3. ~PassedAlong(d, r, n, size, outputs)
    BY <1>6 DEF PassedAlong
  <2> QED BY <2>2, <2>3 DEF One, new, size
<1> QED BY <1>4, <1>5, <1>6

\* The last run of a node, when it passed nothing on.
IdleLast(runs, n) == runs[n] # <<>> /\ runs[n][Len(runs[n])] = {}

LEMMA RanDropped ==
    ASSUME Known, NEW runs \in [Nodes -> Seq(SUBSET Nat)], NEW n \in Nodes, IdleLast(runs, n),
           NEW d \in Connections, NEW r \in Nat
    PROVE  Ran(Dropped(runs, n), d, r) <=> Ran(runs, d, r)
<1> DEFINE new == Dropped(runs, n)
           size == Len(runs[n])
<1>1. d.from \in Nodes
  BY ConnectionFacts
<1>2. /\ size \in Nat \ {0} /\ DOMAIN runs[n] = 1..size
      /\ DOMAIN Front(runs[n]) = 1..(size - 1)
      /\ \A k \in 1..(size - 1) : Front(runs[n])[k] = runs[n][k]
      /\ runs[n][size] = {}
  <2> DEFINE Lists == SUBSET Nat
  <2>1. runs[n] \in Seq(Lists) /\ runs[n] # <<>>
    BY DEF IdleLast
  <2> HIDE DEF Lists
  <2> QED BY <2>1, FrontIs DEF IdleLast
<1>3. new[d.from] = IF d.from = n THEN Front(runs[n]) ELSE runs[d.from]
  BY <1>1 DEF Dropped
<1> HIDE DEF new, size
<1>4. CASE d.from # n
  BY <1>3, <1>4 DEF Ran, new
<1>5. CASE d.from = n
  <2>1. r + 1 \in 1..(size - 1) => r + 1 \in 1..size
    BY <1>2
  <2>2. r + 1 \in 1..size => r + 1 \in 1..(size - 1) \/ r + 1 = size
    BY <1>2
  <2>3. Ran(new, d, r) <=> Ran(runs, d, r)
    BY <1>2, <1>3, <1>5, <2>1, <2>2 DEF Ran
  <2> QED BY <2>3 DEF new
<1> QED BY <1>4, <1>5

\* No data is passed on in a run beyond the bound.
Early(runs) == \A n \in Nodes : \A k \in DOMAIN runs[n] : k > MaxRuns => runs[n][k] = {}

LEMMA EarlyAppended ==
    ASSUME Known, NEW runs \in [Nodes -> Seq(SUBSET Nat)], NEW n \in Nodes,
           NEW outputs \in SUBSET Nat, Early(runs), outputs # {} => Len(runs[n]) + 1 <= MaxRuns
    PROVE  Early(Recorded(runs, n, outputs))
<1> DEFINE new == Recorded(runs, n, outputs)
           size == Len(runs[n])
<1>2. /\ size \in Nat /\ DOMAIN runs[n] = 1..size
      /\ DOMAIN Append(runs[n], outputs) = 1..(size + 1)
      /\ Append(runs[n], outputs)[size + 1] = outputs
      /\ \A k \in 1..size : Append(runs[n], outputs)[k] = runs[n][k]
  <2> DEFINE Lists == SUBSET Nat
  <2>1. runs[n] \in Seq(Lists) /\ outputs \in Lists
    OBVIOUS
  <2> HIDE DEF Lists
  <2>2. /\ size \in Nat /\ DOMAIN runs[n] = 1..size
        /\ Append(runs[n], outputs) \in Seq(Lists) /\ Len(Append(runs[n], outputs)) = size + 1
        /\ Append(runs[n], outputs)[size + 1] = outputs
        /\ \A k \in 1..size : Append(runs[n], outputs)[k] = runs[n][k]
    BY <2>1, AppendProperties, LenProperties
  <2> QED BY <2>2, LenProperties
<1>3. \A m \in Nodes : new[m] = IF m = n THEN Append(runs[n], outputs) ELSE runs[m]
  BY DEF Recorded
<1> HIDE DEF new
<1>4. ASSUME NEW m \in Nodes, NEW k \in DOMAIN new[m], k > MaxRuns
      PROVE  new[m][k] = {}
  <2>1. CASE m # n
    BY <1>3, <1>4, <2>1 DEF Early
  <2>2. CASE m = n /\ k = size + 1
    <3>1. ~(size + 1 <= MaxRuns)
      BY <1>2, <1>4, <2>2, BoundsAssumption
    <3> QED BY <1>2, <1>3, <2>2, <3>1
  <2>3. CASE m = n /\ k # size + 1
    <3>1. k \in 1..size
      <4>1. DOMAIN new[m] = 1..(size + 1)
        BY <1>2, <1>3, <2>3
      <4> HIDE DEF size
      <4> QED BY <1>2, <1>4, <2>3, <4>1
    <3> HIDE DEF size
    <3> QED BY <1>2, <1>3, <1>4, <2>3, <3>1 DEF Early
  <2> QED BY <2>1, <2>2, <2>3
<1> QED BY <1>4 DEF Early, new

LEMMA EarlyDropped ==
    ASSUME NEW runs \in [Nodes -> Seq(SUBSET Nat)], NEW n \in Nodes, runs[n] # <<>>, Early(runs)
    PROVE  Early(Dropped(runs, n))
<1> DEFINE new == Dropped(runs, n)
           size == Len(runs[n])
<1>2. /\ size \in Nat \ {0} /\ DOMAIN runs[n] = 1..size
      /\ DOMAIN Front(runs[n]) = 1..(size - 1)
      /\ \A k \in 1..(size - 1) : Front(runs[n])[k] = runs[n][k]
  <2> DEFINE Lists == SUBSET Nat
  <2>1. runs[n] \in Seq(Lists) /\ runs[n] # <<>>
    OBVIOUS
  <2> HIDE DEF Lists
  <2> QED BY <2>1, FrontIs
<1>3. \A m \in Nodes : new[m] = IF m = n THEN Front(runs[n]) ELSE runs[m]
  BY DEF Dropped
<1>4. \A k \in 1..(size - 1) : k \in 1..size
  BY <1>2
<1> HIDE DEF new, size
<1>5. ASSUME NEW m \in Nodes, NEW k \in DOMAIN new[m], k > MaxRuns
      PROVE  new[m][k] = {}
  BY <1>2, <1>3, <1>4, <1>5 DEF Early
<1> QED BY <1>5 DEF Early, new

AccountedIn(data, held, done, runs) ==
    \A d \in Connections, r \in 0..MaxRuns :
        Stored(data, d.to, d.input, Batch(d, r)) + InItems(held, d.to, d.input, Batch(d, r))
            + InItems(done, d.to, d.input, Batch(d, r)) = One(Ran(runs, d, r))

\* The run of a node that paused or failed passed nothing on.
Resting(data, runs, how) ==
    how \in {"waiting", "error"} => IdleLast(runs, Head(data.stack).node)

\* The invariant: what a connection was given in a run is in one place when that
\* run is recorded, and in none otherwise.
AInv ==
    /\ AccountedIn(executionData, Held, consumed, runData)
    /\ Early(runData)
    /\ Resting(executionData, runData, result)

LEMMA SameAccounts ==
    ASSUME workflow' = workflow
    PROVE  /\ \A data, held, done, runs :
                  AccountedIn(data, held, done, runs)' <=> AccountedIn(data, held, done, runs)
           /\ \A runs : Early(runs)' <=> Early(runs)
<1>1. Connections' = Connections /\ Nodes' = Nodes
  BY DEF Connections, Nodes
<1>2. \A data, n, i, batch : Stored(data, n, i, batch)' = Stored(data, n, i, batch)
  BY DEF Stored, InItems, InEntries, Has
<1>3. \A items, n, i, batch : InItems(items, n, i, batch)' = InItems(items, n, i, batch)
  BY DEF InItems, Has
<1>4. \A runs, d, r : Ran(runs, d, r)' <=> Ran(runs, d, r)
  BY DEF Ran
<1>5. \A d, r : Batch(d, r)' = Batch(d, r)
  BY DEF Batch
<1> QED BY <1>1, <1>2, <1>3, <1>4, <1>5 DEF AccountedIn, Early, One

LEMMA StepAccounts ==
    ASSUME workflow' = workflow,
           AccountedIn(executionData', Held', consumed', runData'), Early(runData'),
           Resting(executionData', runData', result')
    PROVE  AInv'
<1>1. AccountedIn(executionData, Held, consumed, runData)'
  BY SameAccounts
<1>2. Early(runData)'
  BY SameAccounts
<1>3. Resting(executionData, runData, result)'
  BY DEF Resting, IdleLast
<1> QED BY <1>1, <1>2, <1>3 DEF AInv

LEMMA CountOne ==
    ASSUME NEW item, NEW n, NEW i, NEW batch
    PROVE  /\ InItems(<<item>>, n, i, batch) = One(At(item, n, i, batch))
           /\ One(At(item, n, i, batch)) \in Nat
<1> DEFINE S == {item}
           none == <<>>
           here == One(At(item, n, i, batch))
           whole == <<item>> \o none
<1>1. item \in S /\ none \in Seq(S) /\ whole = <<item>>
  OBVIOUS
<1>2. InItems(none, n, i, batch) = 0
  BY CountNone
<1>3. here \in Nat
  BY DEF One
<1> HIDE DEF S, none
<1>4. InItems(whole, n, i, batch) = InItems(none, n, i, batch) + here
  BY <1>1, CountPushed
<1> HIDE DEF here, whole
<1>5. InItems(whole, n, i, batch) = here
  BY <1>2, <1>3, <1>4
<1> QED BY <1>1, <1>3, <1>5 DEF here

\* Nothing changes but the node that is executed, or how the run ends.
LEMMA UnmovedAccounts ==
    ASSUME AInv, UNCHANGED <<workflow, executionData, runData, consumed>>,
           Held' = Held, result' \in {"waiting", "error"} => result' = result
    PROVE  AInv'
<1>1. AccountedIn(executionData', Held', consumed', runData') /\ Early(runData')
  BY DEF AInv
<1>2. Resting(executionData', runData', result')
  BY DEF AInv, Resting
<1> QED BY <1>1, <1>2, StepAccounts

LEMMA Idle == NoItem = <<>> /\ \A item, run, try, output :
    [item |-> item, run |-> run, try |-> try, output |-> output] # NoItem
<1>1. \A item, run, try, output :
          "item" \in DOMAIN [item |-> item, run |-> run, try |-> try, output |-> output]
  OBVIOUS
<1>2. DOMAIN NoItem = {}
  BY EmptySeq, LenProperties DEF NoItem
<1> QED BY <1>1, <1>2 DEF NoItem

LEMMA TakeNodeAccounts == IInv /\ AInv /\ TakeNode => AInv'
<1> SUFFICES ASSUME IInv, AInv, TakeNode
             PROVE  AInv'
  OBVIOUS
<1> DEFINE item == Head(executionData.stack)
           stack == Tail(executionData.stack)
<1>1. /\ current' = [item |-> item, run |-> Len(runData[item.node]), try |-> 1, output |-> 0]
      /\ executionData' = [executionData EXCEPT !.stack = Tail(@)]
      /\ executionData.stack # <<>> /\ result = "none" /\ current = NoItem
      /\ UNCHANGED <<workflow, runData, status, result, retries, consumed>>
  BY DEF TakeNode
<1>2. Held = <<>> /\ Held' = <<item>>
  BY <1>1, Idle DEF Held
<1>3. ItemsSound(stack) /\ executionData.stack \in Seq(Items)
  BY <1>1, SoundStack, Taken DEF IInv
<1>4. executionData' = [executionData EXCEPT !.stack = stack]
  BY <1>1
<1>5. executionData'.stack = stack /\ executionData'.waiting = executionData.waiting
  <2> HIDE DEF stack
  <2> QED BY <1>3, <1>4, StackKeeps DEF IInv
<1>6. ASSUME NEW n, NEW i, NEW batch
      PROVE  InItems(executionData.stack, n, i, batch)
               = InItems(stack, n, i, batch) + InItems(<<item>>, n, i, batch)
  BY <1>1, <1>3, CountTaken, CountOne
<1>7. ASSUME NEW n, NEW i, NEW batch
      PROVE  InItems(stack, n, i, batch) \in Nat /\ InItems(<<item>>, n, i, batch) \in Nat
  <2>1. stack \in Seq(Items)
    BY <1>3, ItemLists DEF ItemsSound
  <2> QED BY <2>1, CountNat, CountOne
<1>8. AccountedIn(executionData', Held', consumed', runData')
  <2> SUFFICES ASSUME NEW d \in Connections, NEW r \in 0..MaxRuns
               PROVE  Stored(executionData', d.to, d.input, Batch(d, r))
                        + InItems(<<item>>, d.to, d.input, Batch(d, r))
                        + InItems(consumed, d.to, d.input, Batch(d, r)) = One(Ran(runData, d, r))
    BY <1>1, <1>2 DEF AccountedIn
  <2> DEFINE batch == Batch(d, r)
             waiting == InEntries(executionData.waiting[d.to], d.input, batch)
             done == InItems(consumed, d.to, d.input, batch)
  <2>1. Stored(executionData, d.to, d.input, batch) + InItems(<<>>, d.to, d.input, batch) + done
          = One(Ran(runData, d, r))
    BY <1>2 DEF AInv, AccountedIn
  <2>2. Stored(executionData', d.to, d.input, batch) = InItems(stack, d.to, d.input, batch) + waiting
    BY <1>5 DEF Stored
  <2>3. Stored(executionData, d.to, d.input, batch)
          = InItems(executionData.stack, d.to, d.input, batch) + waiting
    BY DEF Stored
  <2>4. waiting \in Nat /\ done \in Nat
    <3>1. d.to \in Nodes
      BY ConnectionFacts DEF IInv
    <3>2. IsFiniteSet(DOMAIN executionData.waiting[d.to])
      BY <3>1, SoundEntries DEF IInv, EntriesSound
    <3>3. consumed \in Seq(Items)
      BY ItemLists DEF IInv, ItemsSound
    <3> QED BY <3>2, <3>3, CountWithout, CountNat
  <2> HIDE DEF batch, waiting, done, item, stack
  <2>5. InItems(<<>>, d.to, d.input, batch) = 0
    BY CountNone
  <2>6. InItems(executionData.stack, d.to, d.input, batch)
          = InItems(stack, d.to, d.input, batch) + InItems(<<item>>, d.to, d.input, batch)
    BY <1>6
  <2>7. InItems(stack, d.to, d.input, batch) \in Nat /\ InItems(<<item>>, d.to, d.input, batch) \in Nat
    BY <1>7
  <2>8. Stored(executionData', d.to, d.input, batch) + InItems(<<item>>, d.to, d.input, batch) + done
          = One(Ran(runData, d, r))
    BY <2>1, <2>2, <2>3, <2>4, <2>5, <2>6, <2>7
  <2> QED BY <2>8 DEF batch, done
<1>9. Early(runData') /\ Resting(executionData', runData', result')
  BY <1>1 DEF AInv, Resting
<1> QED BY <1>1, <1>8, <1>9, StepAccounts

\* What is passed on is added to an entry that has data for the input: the index
\* of a new entry, the number of entries, is that of one there is.
Overwrites ==
    /\ Executing /\ runData' # runData
    /\ Overwriting(executionData, Node, current.run, runData'[Node][current.run + 1])

LEMMA Accounts ==
    ASSUME IInv, AInv, NEW d \in Connections, NEW r \in 0..MaxRuns
    PROVE  /\ d.to \in Nodes /\ d.input \in Inputs(d.to) /\ Batch(d, r) \notin {NoData, {}}
           /\ Stored(executionData, d.to, d.input, Batch(d, r)) \in Nat
           /\ InItems(consumed, d.to, d.input, Batch(d, r)) \in Nat
           /\ Stored(executionData, d.to, d.input, Batch(d, r))
                + InItems(Held, d.to, d.input, Batch(d, r))
                + InItems(consumed, d.to, d.input, Batch(d, r)) = One(Ran(runData, d, r))
<1>1. d.to \in Nodes /\ d.input \in Inputs(d.to) /\ Batch(d, r) \notin {NoData, {}}
  BY ConnectionFacts, Batching DEF IInv, Batch
<1>2. Stored(executionData, d.to, d.input, Batch(d, r)) \in Nat
  BY <1>1, StoredNat DEF IInv
<1>3. InItems(consumed, d.to, d.input, Batch(d, r)) \in Nat
  BY ItemLists, CountNat DEF IInv, ItemsSound
<1> QED BY <1>1, <1>2, <1>3 DEF AInv, AccountedIn

\* An item that was executed is counted once more, and not as held.
LEMMA Consumes ==
    ASSUME IInv, Executing, consumed' = Append(consumed, current.item), current' = NoItem,
           NEW n, NEW i, NEW batch
    PROVE  /\ InItems(Held, n, i, batch) \in Nat /\ InItems(Held', n, i, batch) = 0
           /\ InItems(consumed', n, i, batch)
                = InItems(consumed, n, i, batch) + InItems(Held, n, i, batch)
<1>1. Held = <<current.item>> /\ Held' = <<>>
  BY DEF Executing, Held
<1>2. consumed \in Seq(Items) /\ current.item \in Items
  BY NodeExecuted, ItemLists, ItemSet DEF IInv, ItemsSound
<1>3. InItems(Append(consumed, current.item), n, i, batch)
        = InItems(consumed, n, i, batch) + One(At(current.item, n, i, batch))
  BY <1>2, CountAppended
<1>4. /\ InItems(<<current.item>>, n, i, batch) = One(At(current.item, n, i, batch))
      /\ One(At(current.item, n, i, batch)) \in Nat
  BY CountOne
<1>5. InItems(<<>>, n, i, batch) = 0
  BY CountNone
<1> QED BY <1>1, <1>3, <1>4, <1>5

LEMMA NodeReturnsNullAccounts == IInv /\ AInv /\ NodeReturnsNull => AInv'
<1> SUFFICES ASSUME IInv, AInv, NodeReturnsNull
             PROVE  AInv'
  OBVIOUS
<1>1. /\ Executing /\ consumed' = Append(consumed, current.item) /\ current' = NoItem
      /\ UNCHANGED <<workflow, executionData, runData, status, result, retries>>
  BY DEF NodeReturnsNull
<1>2. ASSUME NEW d \in Connections, NEW r \in 0..MaxRuns
      PROVE  Stored(executionData', d.to, d.input, Batch(d, r))
               + InItems(Held', d.to, d.input, Batch(d, r))
               + InItems(consumed', d.to, d.input, Batch(d, r)) = One(Ran(runData', d, r))
  <2> DEFINE stored == Stored(executionData, d.to, d.input, Batch(d, r))
             held == InItems(Held, d.to, d.input, Batch(d, r))
             done == InItems(consumed, d.to, d.input, Batch(d, r))
             heldAfter == InItems(Held', d.to, d.input, Batch(d, r))
             doneAfter == InItems(consumed', d.to, d.input, Batch(d, r))
  <2>1. stored \in Nat /\ done \in Nat /\ stored + held + done = One(Ran(runData, d, r))
    BY Accounts
  <2>2. held \in Nat /\ heldAfter = 0 /\ doneAfter = done + held
    BY <1>1, Consumes
  <2>3. executionData' = executionData /\ runData' = runData
    BY <1>1
  <2> HIDE DEF stored, held, done, heldAfter, doneAfter
  <2>4. stored + heldAfter + doneAfter = One(Ran(runData, d, r))
    BY <2>1, <2>2
  <2> QED BY <2>3, <2>4 DEF stored, heldAfter, doneAfter
<1>3. AccountedIn(executionData', Held', consumed', runData')
  BY <1>2 DEF AccountedIn
<1>4. Early(runData') /\ Resting(executionData', runData', result')
  BY <1>1 DEF AInv, Resting, Executing
<1> QED BY <1>1, <1>3, <1>4, StepAccounts

LEMMA ContinueAccounts ==
    ASSUME IInv, AInv, Executing, NEW given \in SUBSET (Outputs(Node) \cup {workflow.errorOutput[Node]}),
           Continue(given), IsInjective(workflow.connections), ~Overwrites
    PROVE  AInv'
<1> DEFINE outputs == IF current.run + 1 < MaxRuns THEN given ELSE {}
           run == current.run
           passed == Passed(executionData, Node, run, outputs)[Len(workflow.connections)]
<1>1. /\ runData' = Recorded(runData, Node, outputs)
      /\ executionData' = PassOn(executionData, Node, run, outputs)
      /\ consumed' = Append(consumed, current.item) /\ current' = NoItem
      /\ workflow' = workflow /\ status' = status /\ result' = result /\ retries' = retries
  BY DEF Continue, Recorded
<1>2. outputs # {} => run \in 0..MaxRuns /\ run + 1 <= MaxRuns
  BY NodeExecuted, BoundsAssumption
<1>3. outputs \in SUBSET Nat
  <2>1. outputs \subseteq Outputs(Node) \cup {workflow.errorOutput[Node]}
    OBVIOUS
  <2> QED BY <2>1, OutputNumbers, NodeExecuted
<1>4. Known /\ Node \in Nodes /\ run = Len(runData[Node]) /\ run \in Nat
  BY NodeExecuted
<1>5. runData \in [Nodes -> Seq(SUBSET Nat)] /\ Sound(executionData)
  BY DEF IInv, RunsSound
<1> HIDE DEF outputs, run
<1>6. runData' # runData /\ runData'[Node][run + 1] = outputs
  <2> DEFINE Lists == SUBSET Nat
  <2>1. runData[Node] \in Seq(Lists) /\ outputs \in Lists
    BY <1>3, <1>4, <1>5
  <2> HIDE DEF Lists
  <2>2. Len(Append(runData[Node], outputs)) = run + 1 /\ Append(runData[Node], outputs)[run + 1] = outputs
    BY <1>4, <2>1, AppendProperties
  <2>3. runData'[Node] = Append(runData[Node], outputs)
    BY <1>1, <1>4, <1>5 DEF Recorded
  <2> QED BY <1>4, <2>2, <2>3
<1>7. ~Overwriting(executionData, Node, run, outputs)
  BY <1>6 DEF Overwrites, run
<1>8. Sound(passed) /\ executionData' = ServeWaiting(passed)
  <2>1. Sound(passed)
    <3>1. Len(workflow.connections) \in 0..Len(workflow.connections)
      BY <1>4, PassedSteps
    <3> QED BY <1>2, <1>4, <1>5, <3>1, PassedKeeps
  <2> QED BY <1>1, <2>1 DEF PassOn
<1>9. ASSUME NEW d \in Connections, NEW r \in 0..MaxRuns
      PROVE  Stored(executionData', d.to, d.input, Batch(d, r))
               + InItems(Held', d.to, d.input, Batch(d, r))
               + InItems(consumed', d.to, d.input, Batch(d, r)) = One(Ran(runData', d, r))
  <2> DEFINE stored == Stored(executionData, d.to, d.input, Batch(d, r))
             held == InItems(Held, d.to, d.input, Batch(d, r))
             done == InItems(consumed, d.to, d.input, Batch(d, r))
             storedAfter == Stored(executionData', d.to, d.input, Batch(d, r))
             heldAfter == InItems(Held', d.to, d.input, Batch(d, r))
             doneAfter == InItems(consumed', d.to, d.input, Batch(d, r))
             along == One(PassedAlong(d, r, Node, run, outputs))
  <2>1. /\ stored \in Nat /\ done \in Nat /\ stored + held + done = One(Ran(runData, d, r))
        /\ d.to \in Nodes /\ d.input \in Inputs(d.to) /\ Batch(d, r) \notin {NoData, {}}
    BY Accounts
  <2>2. held \in Nat /\ heldAfter = 0 /\ doneAfter = done + held
    BY <1>1, Consumes
  <2>3. Stored(passed, d.to, d.input, Batch(d, r)) = stored + along
    BY <1>2, <1>4, <1>5, <1>7, CountPassed
  <2>4. storedAfter = Stored(passed, d.to, d.input, Batch(d, r))
    <3> HIDE DEF passed
    <3> QED BY <1>4, <1>8, <2>1, CountServed
  <2>5. One(Ran(runData', d, r)) = One(Ran(runData, d, r)) + along
    BY <1>1, <1>3, <1>4, <1>5, RanAppended
  <2>6. along \in Nat
    BY DEF One
  <2> HIDE DEF stored, held, done, storedAfter, heldAfter, doneAfter, along, passed
  <2>7. storedAfter + heldAfter + doneAfter = One(Ran(runData', d, r))
    BY <2>1, <2>2, <2>3, <2>4, <2>5, <2>6
  <2> QED BY <2>7 DEF storedAfter, heldAfter, doneAfter
<1>10. AccountedIn(executionData', Held', consumed', runData')
  BY <1>9 DEF AccountedIn
<1>11. Early(runData')
  BY <1>1, <1>2, <1>3, <1>4, <1>5, EarlyAppended DEF AInv
<1>12. Resting(executionData', runData', result')
  BY <1>1 DEF Resting, Executing
<1> QED BY <1>1, <1>10, <1>11, <1>12, StepAccounts

LEMMA BreakAccounts ==
    ASSUME IInv, AInv, Executing, NEW how \in {"waiting", "error"}, Break(how)
    PROVE  AInv'
<1>1. /\ runData' = Recorded(runData, Node, {})
      /\ executionData' = Push(executionData, current.item)
      /\ current' = NoItem /\ workflow' = workflow /\ consumed' = consumed
  BY DEF Break, Push, Recorded
<1>2. /\ Known /\ Node \in Nodes /\ Len(runData[Node]) \in Nat
      /\ runData \in [Nodes -> Seq(SUBSET Nat)] /\ IsItem(current.item)
  BY NodeExecuted DEF IInv, RunsSound
<1>3. /\ executionData'.stack = <<current.item>> \o executionData.stack
      /\ executionData'.waiting = executionData.waiting
  BY <1>1, NodeExecuted, PushKeeps DEF IInv
<1>4. executionData.stack \in Seq(Items) /\ current.item \in Items
  BY <1>2, SoundStack, ItemSet DEF IInv
<1>5. Held = <<current.item>> /\ Held' = <<>>
  BY <1>1 DEF Executing, Held
<1>6. ASSUME NEW d \in Connections, NEW r \in 0..MaxRuns
      PROVE  Stored(executionData', d.to, d.input, Batch(d, r))
               + InItems(Held', d.to, d.input, Batch(d, r))
               + InItems(consumed', d.to, d.input, Batch(d, r)) = One(Ran(runData', d, r))
  <2> DEFINE stored == Stored(executionData, d.to, d.input, Batch(d, r))
             held == InItems(Held, d.to, d.input, Batch(d, r))
             done == InItems(consumed, d.to, d.input, Batch(d, r))
             storedAfter == Stored(executionData', d.to, d.input, Batch(d, r))
             heldAfter == InItems(Held', d.to, d.input, Batch(d, r))
             onStack == InItems(executionData.stack, d.to, d.input, Batch(d, r))
             waiting == InEntries(executionData.waiting[d.to], d.input, Batch(d, r))
             here == One(At(current.item, d.to, d.input, Batch(d, r)))
  <2>1. /\ stored \in Nat /\ done \in Nat /\ stored + held + done = One(Ran(runData, d, r))
        /\ d.to \in Nodes
    BY Accounts
  <2>2. held = here /\ heldAfter = 0 /\ here \in Nat
    BY <1>5, CountOne, CountNone
  <2>3. /\ onStack \in Nat
        /\ InItems(<<current.item>> \o executionData.stack, d.to, d.input, Batch(d, r))
             = onStack + here
    BY <1>4, CountPushed
  <2>4. waiting \in Nat
    <3>1. IsFiniteSet(DOMAIN executionData.waiting[d.to])
      BY <2>1, SoundEntries DEF IInv, EntriesSound
    <3> QED BY <3>1, CountWithout
  <2>5. stored = onStack + waiting
    BY DEF Stored
  <2>6. storedAfter = InItems(<<current.item>> \o executionData.stack, d.to, d.input, Batch(d, r))
                      + waiting
    BY <1>3 DEF Stored
  <2>7. One(Ran(runData', d, r)) = One(Ran(runData, d, r))
    <3>1. One(Ran(Recorded(runData, Node, {}), d, r))
            = One(Ran(runData, d, r)) + One(PassedAlong(d, r, Node, Len(runData[Node]), {}))
      BY <1>2, RanAppended
    <3>2. One(PassedAlong(d, r, Node, Len(runData[Node]), {})) = 0
      BY DEF PassedAlong, Follows, One
    <3>3. One(Ran(runData, d, r)) \in Nat
      BY DEF One
    <3> QED BY <1>1, <3>1, <3>2, <3>3
  <2>8. consumed' = consumed
    BY <1>1
  <2> HIDE DEF stored, held, done, storedAfter, heldAfter, onStack, waiting, here
  <2>9. storedAfter + heldAfter + done = One(Ran(runData', d, r))
    BY <2>1, <2>2, <2>3, <2>4, <2>5, <2>6, <2>7
  <2> QED BY <2>8, <2>9 DEF storedAfter, heldAfter, done
<1>7. AccountedIn(executionData', Held', consumed', runData')
  BY <1>6 DEF AccountedIn
<1>8. Early(runData')
  <2>1. {} \in SUBSET Nat
    OBVIOUS
  <2> QED BY <1>1, <1>2, <2>1, EarlyAppended DEF AInv
<1>9. Resting(executionData', runData', result')
  <2>1. Head(executionData'.stack) = current.item
    <3>1. \A s \in Seq(Items) : \A x \in Items : Head(<<x>> \o s) = x
      OBVIOUS
    <3> QED BY <1>3, <1>4, <3>1
  <2>2. IdleLast(runData', Node)
    <3> DEFINE Lists == SUBSET Nat
               last == {}
    <3>1. runData[Node] \in Seq(Lists) /\ last \in Lists
      BY <1>2
    <3>a. runData'[Node] = Append(runData[Node], last)
      BY <1>1, <1>2 DEF Recorded
    <3> HIDE DEF Lists, last
    <3>2. /\ Append(runData[Node], last) \in Seq(Lists)
          /\ Len(Append(runData[Node], last)) = Len(runData[Node]) + 1
          /\ Append(runData[Node], last)[Len(runData[Node]) + 1] = last
      BY <3>1, AppendProperties
    <3>3. Append(runData[Node], last) # <<>>
      BY <1>2, <3>2, EmptySeq
    <3> QED BY <3>a, <3>2, <3>3 DEF IdleLast, last
  <2> QED BY <2>1, <2>2 DEF Resting, Node
<1> QED BY <1>1, <1>7, <1>8, <1>9, StepAccounts

\* What a pause that is over leaves of the stack.
LEMMA Resumed ==
    ASSUME IInv, Resume
    PROVE  /\ executionData'.waiting = executionData.waiting
           /\ executionData'.order = executionData.order
           /\ DOMAIN executionData'.stack = DOMAIN executionData.stack
           /\ \A j \in DOMAIN executionData.stack :
                 /\ executionData'.stack[j].node = executionData.stack[j].node
                 /\ executionData'.stack[j].main = executionData.stack[j].main
<1> DEFINE before == executionData.stack
           stack == [before EXCEPT ![1] = [@ EXCEPT !.disabled = TRUE]]
<1>1. result = "waiting" /\ executionData' = [executionData EXCEPT !.stack = stack]
  BY DEF Resume
<1>2. /\ before # <<>> /\ IsItem(before[1]) /\ before \in Seq(Items)
  BY <1>1, HeadOfStack, SoundStack DEF IInv
<1>3. DOMAIN stack = DOMAIN before
  OBVIOUS
<1>4. ASSUME NEW j \in DOMAIN before
      PROVE  stack[j].node = before[j].node /\ stack[j].main = before[j].main
  <2>1. CASE j = 1
    <3> DEFINE item == before[1]
               disabled == [item EXCEPT !.disabled = TRUE]
    <3>1. PICK inputs \in {Inputs(item.node), {1}} :
              item \in [node : Nodes, main : [inputs -> Batches],
                        source : [inputs -> Sources \cup {NoData}], disabled : BOOLEAN]
      BY <1>2 DEF IsItem
    <3>2. stack[j] = disabled
      BY <2>1
    <3> HIDE DEF item
    <3>3. disabled.node = item.node /\ disabled.main = item.main
      BY <3>1
    <3> QED BY <2>1, <3>2, <3>3 DEF item
  <2>2. CASE j # 1
    BY <2>2
  <2> QED BY <2>1, <2>2
<1>5. /\ executionData'.stack = stack /\ executionData'.waiting = executionData.waiting
      /\ executionData'.order = executionData.order
  <2>1. executionData = [stack |-> executionData.stack, order |-> executionData.order,
                         waiting |-> [n \in Nodes |-> executionData.waiting[n]]]
    BY DEF IInv, Sound, DataOK
  <2> HIDE DEF stack
  <2> QED BY <1>1, <2>1
<1> QED BY <1>3, <1>4, <1>5

\* A run is dropped, and the execution goes on at the head of the stack.
LEMMA DropAccounts ==
    ASSUME IInv, AInv, result \in {"waiting", "error"}, result' = "none",
           runData' = Dropped(runData, Head(executionData.stack).node),
           \A n \in Nodes : \A i, batch :
               Stored(executionData', n, i, batch) = Stored(executionData, n, i, batch),
           UNCHANGED <<workflow, current, consumed>>
    PROVE  AInv'
<1> DEFINE n == Head(executionData.stack).node
<1>1. /\ n \in Nodes /\ IdleLast(runData, n) /\ Known
      /\ runData \in [Nodes -> Seq(SUBSET Nat)]
  BY HeadOfStack DEF IInv, RunsSound, AInv, Resting
<1>2. runData' = Dropped(runData, n) /\ Held' = Held
  BY DEF Held
<1> HIDE DEF n
<1>3. ASSUME NEW d \in Connections, NEW r \in 0..MaxRuns
      PROVE  Stored(executionData', d.to, d.input, Batch(d, r))
               + InItems(Held', d.to, d.input, Batch(d, r))
               + InItems(consumed', d.to, d.input, Batch(d, r)) = One(Ran(runData', d, r))
  <2>1. Ran(runData', d, r) <=> Ran(runData, d, r)
    BY <1>1, <1>2, RanDropped
  <2>2. One(Ran(runData', d, r)) = One(Ran(runData, d, r))
    BY <2>1 DEF One
  <2>3. Stored(executionData', d.to, d.input, Batch(d, r))
          = Stored(executionData, d.to, d.input, Batch(d, r))
    BY Accounts
  <2>4. Stored(executionData, d.to, d.input, Batch(d, r))
          + InItems(Held, d.to, d.input, Batch(d, r))
          + InItems(consumed, d.to, d.input, Batch(d, r)) = One(Ran(runData, d, r))
    BY Accounts
  <2> QED BY <1>2, <2>2, <2>3, <2>4
<1>4. AccountedIn(executionData', Held', consumed', runData')
  BY <1>3 DEF AccountedIn
<1>5. Early(runData')
  BY <1>1, <1>2, EarlyDropped DEF AInv, IdleLast
<1>6. Resting(executionData', runData', result')
  BY DEF Resting
<1> QED BY <1>4, <1>5, <1>6, StepAccounts

LEMMA RetryAccounts == IInv /\ AInv /\ Retry => AInv'
BY DropAccounts DEF Retry, Dropped

LEMMA ResumeAccounts == IInv /\ AInv /\ Resume => AInv'
<1> SUFFICES ASSUME IInv, AInv, Resume
             PROVE  AInv'
  OBVIOUS
<1>1. /\ result = "waiting" /\ result' = "none"
      /\ runData' = Dropped(runData, Head(executionData.stack).node)
      /\ UNCHANGED <<workflow, current, consumed>>
  BY DEF Resume, Dropped
<1>2. /\ executionData'.waiting = executionData.waiting
      /\ DOMAIN executionData'.stack = DOMAIN executionData.stack
      /\ \A j \in DOMAIN executionData.stack :
            /\ executionData'.stack[j].node = executionData.stack[j].node
            /\ executionData'.stack[j].main = executionData.stack[j].main
  BY Resumed
<1>3. ASSUME NEW n \in Nodes, NEW i, NEW batch
      PROVE  Stored(executionData', n, i, batch) = Stored(executionData, n, i, batch)
  <2>1. InItems(executionData'.stack, n, i, batch) = InItems(executionData.stack, n, i, batch)
    BY <1>2, CountSame
  <2> QED BY <1>2, <2>1 DEF Stored
<1> QED BY <1>1, <1>3, DropAccounts

LEMMA InitAccounts == Init => AInv
<1> SUFFICES ASSUME Init
             PROVE  AInv
  OBVIOUS
<1> DEFINE item == Item(workflow.start, [i \in {1} |-> {<<workflow.start, 0, 0>>}],
                        [i \in {1} |-> NoData])
<1>1. /\ executionData.stack = <<item>> /\ Held = <<>> /\ consumed = <<>> /\ result = "none"
      /\ \A n \in Nodes : executionData.waiting[n] = <<>> /\ runData[n] = <<>>
      /\ Known
  BY DEF Init, Held, Known
<1>2. \A n \in Nodes : DOMAIN runData[n] = {} /\ DOMAIN executionData.waiting[n] = {}
  BY <1>1, EmptySeq, LenProperties
<1>3. ASSUME NEW d \in Connections, NEW r \in 0..MaxRuns
      PROVE  Stored(executionData, d.to, d.input, Batch(d, r))
               + InItems(Held, d.to, d.input, Batch(d, r))
               + InItems(consumed, d.to, d.input, Batch(d, r)) = One(Ran(runData, d, r))
  <2> DEFINE batch == Batch(d, r)
  <2>1. d.to \in Nodes /\ d.from \in Nodes /\ d.output # 0
    BY <1>1, ConnectionFacts
  <2>2. InItems(executionData.stack, d.to, d.input, batch) = 0
    <3>1. ~At(item, d.to, d.input, batch)
      <4> DEFINE x == <<workflow.start, 0, 0>>
                 y == <<d.from, r, d.output>>
      <4>1. x # y
        BY <2>1
      <4>2. {x} # {y}
        <5> HIDE DEF x, y
        <5> QED BY <4>1
      <4>3. DOMAIN item.main = {1} /\ item.main[1] = {x} /\ batch = {y}
        BY DEF Item, Batch
      <4> HIDE DEF item, x, y, batch
      <4> QED BY <4>2, <4>3 DEF At, Has
    <3> HIDE DEF item, batch
    <3>2. InItems(<<item>>, d.to, d.input, batch) = One(At(item, d.to, d.input, batch))
      BY CountOne
    <3> QED BY <1>1, <3>1, <3>2 DEF One
  <2>3. InEntries(executionData.waiting[d.to], d.input, batch) = 0
    <3>1. { k \in DOMAIN executionData.waiting[d.to] :
              executionData.waiting[d.to][k].main[d.input] = batch } = {}
      BY <1>2, <2>1
    <3> QED BY <3>1, FS_EmptySet DEF InEntries
  <2>4. InItems(Held, d.to, d.input, batch) = 0 /\ InItems(consumed, d.to, d.input, batch) = 0
    BY <1>1, CountNone
  <2>5. One(Ran(runData, d, r)) = 0
    BY <1>2, <2>1 DEF One, Ran
  <2> QED BY <2>2, <2>3, <2>4, <2>5 DEF Stored
<1>4. AccountedIn(executionData, Held, consumed, runData)
  BY <1>3 DEF AccountedIn
<1>5. Early(runData)
  BY <1>2 DEF Early
<1> QED BY <1>1, <1>4, <1>5 DEF AInv, Resting

\* The node is tried or run once more.
LEMMA OnceMoreAccounts ==
    ASSUME IInv, AInv, Executing, NEW try, NEW output,
           current' = [item |-> current.item, run |-> current.run, try |-> try, output |-> output],
           UNCHANGED <<workflow, executionData, runData, status, result, retries, consumed>>
    PROVE  AInv'
<1>1. current' # NoItem /\ current'.item = current.item
  BY Idle
<1>2. Held' = Held
  BY <1>1 DEF Held, Executing
<1> QED BY <1>2, UnmovedAccounts

LEMMA NodeThrowsAccounts ==
    IInv /\ AInv /\ IsInjective(workflow.connections) /\ NodeThrows /\ ~Overwrites => AInv'
<1> SUFFICES ASSUME IInv, AInv, IsInjective(workflow.connections), ~Overwrites, Executing,
                    \/ TriesAgain
                    \/ LastTry /\ Continue(PassedThrough)
                    \/ LastTry /\ Break("error")
             PROVE  AInv'
  BY DEF NodeThrows
<1>1. CASE TriesAgain
  <2>1. current' = [item |-> current.item, run |-> current.run, try |-> current.try + 1,
                    output |-> 0]
    BY <1>1, NodeExecuted DEF TriesAgain
  <2> QED BY <1>1, <2>1, OnceMoreAccounts DEF TriesAgain
<1>2. CASE Continue(PassedThrough)
  BY <1>2, OutputsKeep, ContinueAccounts
<1>3. CASE Break("error")
  BY <1>3, BreakAccounts
<1> QED BY <1>1, <1>2, <1>3

LEMMA NodeEmitsErrorAccounts ==
    IInv /\ AInv /\ IsInjective(workflow.connections) /\ NodeEmitsError /\ ~Overwrites => AInv'
<1> SUFFICES ASSUME IInv, AInv, IsInjective(workflow.connections), NodeEmitsError, ~Overwrites
             PROVE  AInv'
  OBVIOUS
<1>0. Executing
  BY DEF NodeEmitsError
<1>1. CASE LastTry
  BY <1>0, <1>1, OutputsKeep, ContinueAccounts DEF NodeEmitsError
<1>2. CASE ~LastTry
  <2>1. /\ current' = [current EXCEPT !.output = workflow.errorOutput[Node]]
        /\ UNCHANGED <<workflow, executionData, runData, status, result, retries, consumed>>
    BY <1>2 DEF NodeEmitsError
  <2>2. current' = [item |-> current.item, run |-> current.run, try |-> current.try,
                    output |-> workflow.errorOutput[Node]]
    BY <1>0, <2>1, NodeExecuted
  <2> QED BY <1>0, <2>1, <2>2, OnceMoreAccounts
<1> QED BY <1>1, <1>2

LEMMA RerunReturnsAccounts ==
    IInv /\ AInv /\ IsInjective(workflow.connections) /\ RerunReturns /\ ~Overwrites => AInv'
<1> SUFFICES ASSUME IInv, AInv, IsInjective(workflow.connections), RerunReturns, ~Overwrites
             PROVE  AInv'
  OBVIOUS
<1>0. Executing /\ current.output = workflow.errorOutput[Node]
  BY NodeExecuted DEF RerunReturns
<1>1. CASE current.try + 1 = workflow.maxTries[Node]
  BY <1>0, <1>1, OutputsKeep, ContinueAccounts DEF RerunReturns
<1>2. CASE current.try + 1 # workflow.maxTries[Node]
  <2>1. /\ current' = [current EXCEPT !.try = @ + 1]
        /\ UNCHANGED <<workflow, executionData, runData, status, result, retries, consumed>>
    BY <1>2 DEF RerunReturns
  <2>2. current' = [item |-> current.item, run |-> current.run, try |-> current.try + 1,
                    output |-> current.output]
    BY <1>0, <2>1, NodeExecuted
  <2> QED BY <1>0, <2>1, <2>2, OnceMoreAccounts
<1> QED BY <1>1, <1>2

LEMMA StepsAccount ==
    ASSUME IInv, AInv, IsInjective(workflow.connections), [Next]_vars, [~Overwrites]_vars
    PROVE  AInv'
<1>1. CASE UNCHANGED vars
  <2>1. Held' = Held
    BY <1>1 DEF Held, vars
  <2> QED BY <1>1, <2>1, UnmovedAccounts DEF vars
<1> SUFFICES ASSUME Next, ~Overwrites
             PROVE  AInv'
  BY <1>1
<1>2. CASE TakeNode
  BY <1>2, TakeNodeAccounts
<1>3. CASE Finish
  <2>1. Held' = Held
    BY <1>3 DEF Held, Finish
  <2> QED BY <1>3, <2>1, UnmovedAccounts DEF Finish
<1>4. CASE NodeSucceeds
  <2>1. PICK outputs \in SUBSET Outputs(Node) : Executing /\ Continue(Given(outputs))
    BY <1>4 DEF NodeSucceeds
  <2>2. Given(outputs) \in SUBSET (Outputs(Node) \cup {workflow.errorOutput[Node]})
    BY <2>1, OutputsKeep
  <2> QED BY <2>1, <2>2, ContinueAccounts
<1>5. CASE NodeDisabled
  <2>1. Executing /\ Continue(Given(PassedThrough))
    BY <1>5 DEF NodeDisabled
  <2>2. Given(PassedThrough) \in SUBSET (Outputs(Node) \cup {workflow.errorOutput[Node]})
    BY <2>1, OutputsKeep
  <2> QED BY <2>1, <2>2, ContinueAccounts
<1>6. CASE NodeReturnsNull
  BY <1>6, NodeReturnsNullAccounts
<1>7. CASE NodeWaits
  BY <1>7, BreakAccounts DEF NodeWaits
<1>8. CASE NodeThrows
  BY <1>8, NodeThrowsAccounts
<1>9. CASE NodeEmitsError
  BY <1>9, NodeEmitsErrorAccounts
<1>10. CASE RerunReturns
  BY <1>10, RerunReturnsAccounts
<1>11. CASE Cancel
  <2>1. Held' = Held
    BY <1>11 DEF Held, Cancel
  <2> QED BY <1>11, <2>1, UnmovedAccounts DEF Cancel
<1>12. CASE Resume
  BY <1>12, ResumeAccounts
<1>13. CASE Retry
  BY <1>13, RetryAccounts
<1> QED BY <1>2, <1>3, <1>4, <1>5, <1>6, <1>7, <1>8, <1>9, <1>10, <1>11, <1>12, <1>13
        DEF Next, EngineStep

LEMMA SameWorkflow == [Next]_vars => workflow' = workflow
BY DEF Next, EngineStep, TakeNode, Finish, NodeSucceeds, NodeDisabled, NodeReturnsNull,
       NodeWaits, NodeThrows, NodeEmitsError, RerunReturns, Cancel, Resume, Retry,
       Continue, Break, TriesAgain, vars

LEMMA AccountedIs == IInv /\ AInv => NothingLost
<1> SUFFICES ASSUME IInv, AInv, NEW d \in Connections, NEW k \in DOMAIN runData[d.from],
                    d.output \in runData[d.from][k]
             PROVE  Places(d.to, d.input, {<<d.from, k - 1, d.output>>}) = 1
  BY DEF NothingLost
<1>1. d.from \in Nodes /\ Early(runData)
  BY ConnectionFacts DEF IInv, AInv
<1>2. k \in Nat \ {0}
  <2>1. runData[d.from] \in Seq(SUBSET Nat)
    BY <1>1 DEF IInv, RunsSound
  <2> QED BY <2>1, LenProperties
<1>3. ~(k > MaxRuns)
  BY <1>1 DEF Early
<1>4. k - 1 \in 0..MaxRuns /\ (k - 1) + 1 = k
  BY <1>2, <1>3, BoundsAssumption
<1>5. One(Ran(runData, d, k - 1)) = 1
  BY <1>4 DEF Ran, One
<1>6. Stored(executionData, d.to, d.input, Batch(d, k - 1))
        + InItems(Held, d.to, d.input, Batch(d, k - 1))
        + InItems(consumed, d.to, d.input, Batch(d, k - 1)) = 1
  BY <1>4, <1>5, Accounts
<1> QED BY <1>6 DEF Places, Batch

\* In every workflow that lists no connection twice, whatever its nodes return and
\* throw, what a node gives is executed once by each node it is connected to, or is
\* in one place on the way there: data can be lost only where a new entry gets the
\* index of one there is (the index is the number of entries), and nowhere else.
THEOREM NothingLostElse ==
    Spec /\ [][~Overwrites]_vars => [](IsInjective(workflow.connections) => NothingLost)
<1> DEFINE Inv == IsInjective(workflow.connections) => AInv
<1>1. Init => Inv
  BY InitAccounts
<1>2. IInv /\ Inv /\ [Next]_vars /\ [~Overwrites]_vars => Inv'
  BY StepsAccount, SameWorkflow
<1>3. IInv /\ Inv => (IsInjective(workflow.connections) => NothingLost)
  BY AccountedIs
<1> QED BY <1>1, <1>2, <1>3, Invariance, PTL DEF Spec

-------------------------------------------------------------------------------
(***************************************************************************)
(* The nodes before a node.                                                *)
(***************************************************************************)
Within(size, n, f) ==
    f = [depth \in 0..size |->
            IF depth = 0 THEN Parents(workflow, n)
            ELSE f[depth - 1] \cup UNION { Parents(workflow, p) : p \in f[depth - 1] }]

LEMMA WithinExists ==
    ASSUME NEW n
    PROVE  \A size \in Nat : \E f : Within(size, n, f)
<1> DEFINE S == { size \in Nat : \E f : Within(size, n, f) }
           start == Parents(workflow, n)
           Step(before) == before \cup UNION { Parents(workflow, p) : p \in before }
           UpTo(size, f) == f = [k \in 0..size |-> IF k = 0 THEN start ELSE Step(f[k - 1])]
<1>1. \A size, f : Within(size, n, f) <=> UpTo(size, f)
  BY DEF Within
<1> HIDE DEF Step, start
<1>2. 0 \in S
  <2> DEFINE f == [k \in 0..0 |-> start]
  <2>1. UpTo(0, f)
    OBVIOUS
  <2> QED BY <1>1, <2>1
<1>3. ASSUME NEW size \in Nat, size \in S
      PROVE  size + 1 \in S
  <2>1. PICK f : UpTo(size, f)
    BY <1>1, <1>3
  <2> DEFINE g == [k \in 0..(size + 1) |-> IF k = 0 THEN start ELSE Step(f[k - 1])]
  <2>2. \A k \in 0..size : g[k] = f[k]
    BY <2>1
  <2>a. g = [k \in 0..(size + 1) |-> IF k = 0 THEN start ELSE Step(f[k - 1])]
    OBVIOUS
  <2> HIDE DEF g
  <2>3. \A k \in 0..(size + 1) : k # 0 => g[k - 1] = f[k - 1]
    <3>1. \A k \in 0..(size + 1) : k # 0 => k - 1 \in 0..size
      OBVIOUS
    <3> QED BY <2>2, <3>1
  <2>4. UpTo(size + 1, g)
    BY <2>a, <2>3
  <2>5. Within(size + 1, n, g)
    BY <1>1, <2>4
  <2> HIDE DEF UpTo
  <2> QED BY <2>5
<1> HIDE DEF S
<1>4. \A size \in Nat : size \in S
  BY <1>2, <1>3, Induct
<1> QED BY <1>4 DEF S

LEMMA BeforeIs ==
    ASSUME NEW n, Cardinality(workflow.nodes) \in Nat
    PROVE  \E f : /\ Within(Cardinality(workflow.nodes), n, f)
                  /\ ParentNodes(n) = f[Cardinality(workflow.nodes)] \ {n}
<1> DEFINE f == CHOOSE f : Within(Cardinality(workflow.nodes), n, f)
<1>1. Within(Cardinality(workflow.nodes), n, f)
  BY WithinExists
<1>2. ParentNodes(n) = f[Cardinality(workflow.nodes)] \ {n}
  BY Zenon DEF ParentNodes, NodesBefore, Within
<1> QED BY <1>1, <1>2

\* The parents of a node are before it, and those of a node before it are too.
LEMMA NodesBeforeAre ==
    ASSUME Known, NEW n \in Nodes
    PROVE  /\ n \notin ParentNodes(n)
           /\ Parents(workflow, n) \ {n} \subseteq ParentNodes(n)
           /\ \A m \in ParentNodes(n) : Parents(workflow, m) \ {n} \subseteq ParentNodes(n)
<1> DEFINE size == Cardinality(workflow.nodes)
           Closed(nodes) == \A m \in nodes : Parents(workflow, m) \subseteq nodes
<1>1. IsFiniteSet(workflow.nodes) /\ size \in Nat
  BY WorkflowsAssumption, FS_CardinalityType DEF Known
<1>2. PICK f : Within(size, n, f) /\ ParentNodes(n) = f[size] \ {n}
  BY <1>1, BeforeIs
<1>3. \A m : Parents(workflow, m) \subseteq workflow.nodes
  BY ConnectionFacts DEF Parents, Connections, Nodes
<1> HIDE DEF size
<1>4. f[0] = Parents(workflow, n)
  BY <1>1, <1>2 DEF Within
<1>5. \A k \in Nat : k + 1 \in 0..size =>
          f[k + 1] = f[k] \cup UNION { Parents(workflow, p) : p \in f[k] }
  <2> SUFFICES ASSUME NEW k \in Nat, k + 1 \in 0..size
               PROVE  f[k + 1] = f[k] \cup UNION { Parents(workflow, p) : p \in f[k] }
    OBVIOUS
  <2>1. (k + 1) - 1 = k /\ k + 1 # 0
    OBVIOUS
  <2> QED BY <1>2, <2>1 DEF Within
<1> DEFINE S == { k \in Nat : k \in 0..size =>
                      /\ Parents(workflow, n) \subseteq f[k] /\ f[k] \subseteq workflow.nodes
                      /\ Closed(f[k]) \/ Cardinality(f[k]) > k }
<1>6. 0 \in S
  <2>1. IsFiniteSet(f[0])
    BY <1>1, <1>3, <1>4, FS_Subset
  <2>2. Cardinality(f[0]) \in Nat /\ (Cardinality(f[0]) = 0 => f[0] = {})
    BY <2>1, FS_EmptySet, FS_CardinalityType
  <2>3. Closed(f[0]) \/ Cardinality(f[0]) > 0
    BY <2>2
  <2> QED BY <1>3, <1>4, <2>3
<1>7. ASSUME NEW k \in Nat, k \in S
      PROVE  k + 1 \in S
  <2> SUFFICES ASSUME k + 1 \in 0..size
               PROVE  /\ Parents(workflow, n) \subseteq f[k + 1] /\ f[k + 1] \subseteq workflow.nodes
                      /\ Closed(f[k + 1]) \/ Cardinality(f[k + 1]) > k + 1
    OBVIOUS
  <2>1. k \in 0..size
    BY <1>1
  <2>2. /\ Parents(workflow, n) \subseteq f[k] /\ f[k] \subseteq workflow.nodes
        /\ Closed(f[k]) \/ Cardinality(f[k]) > k
    BY <1>7, <2>1
  <2>3. f[k + 1] = f[k] \cup UNION { Parents(workflow, p) : p \in f[k] }
    BY <1>5
  <2>4. Parents(workflow, n) \subseteq f[k + 1] /\ f[k + 1] \subseteq workflow.nodes
    BY <1>3, <2>2, <2>3
  <2>5. CASE Closed(f[k])
    <3>1. f[k + 1] = f[k]
      BY <2>3, <2>5
    <3> QED BY <2>4, <2>5, <3>1
  <2>6. CASE ~Closed(f[k])
    <3>1. f[k] \subseteq f[k + 1] /\ f[k] # f[k + 1]
      BY <2>3, <2>6
    <3>2. IsFiniteSet(f[k + 1]) /\ Cardinality(f[k + 1]) \in Nat
      BY <1>1, <2>4, FS_Subset, FS_CardinalityType
    <3>3. IsFiniteSet(f[k]) /\ Cardinality(f[k]) \in Nat /\ Cardinality(f[k]) <= Cardinality(f[k + 1])
          /\ Cardinality(f[k]) # Cardinality(f[k + 1])
      BY <3>1, <3>2, FS_Subset, FS_CardinalityType
    <3> QED BY <2>2, <2>4, <2>6, <3>2, <3>3
  <2> QED BY <2>5, <2>6
<1> HIDE DEF S
<1>8. \A k \in Nat : k \in S
  BY <1>6, <1>7, Induct
<1>9. /\ Parents(workflow, n) \subseteq f[size] /\ f[size] \subseteq workflow.nodes
      /\ Closed(f[size]) \/ Cardinality(f[size]) > size
  BY <1>1, <1>8 DEF S
<1>10. Cardinality(f[size]) <= size /\ Cardinality(f[size]) \in Nat
  BY <1>1, <1>9, FS_Subset, FS_CardinalityType DEF size
<1>11. Closed(f[size])
  BY <1>1, <1>9, <1>10
<1> QED BY <1>2, <1>9, <1>11

-------------------------------------------------------------------------------
(***************************************************************************)
(* No data comes late.                                                     *)
(***************************************************************************)

\* An entry lacks what an earlier one lacks.
Nested(n, entries) ==
    \A k, l \in DOMAIN entries : \A i \in Inputs(n) :
        k < l /\ entries[k].main[i] = NoData => entries[l].main[i] = NoData
NestedData(data) == \A n \in Nodes : Nested(n, data.waiting[n])

\* A new entry of a node with more than two inputs gets an index, the number of
\* entries, below that of one there is.
Displaces(data, c) ==
    /\ Cardinality(Inputs(c.to)) > 2
    /\ \A k \in DOMAIN data.waiting[c.to] : data.waiting[c.to][k].main[c.input] # NoData
    /\ \E k \in DOMAIN data.waiting[c.to] : k > IndexFor(data, c)

\* A node with two inputs.
LEMMA OtherInput ==
    ASSUME Known, NEW n, NEW i \in Inputs(n), NEW j \in Inputs(n), NEW k \in Inputs(n),
           ~(Cardinality(Inputs(n)) > 2), i # j, i # k
    PROVE  j = k
BY ThreeInputs

LEMMA AddNests ==
    ASSUME Known, NEW data, Sound(data), NEW c \in Connections, NEW run \in 0..MaxRuns,
           NestedData(data), ~Displaces(data, c)
    PROVE  NestedData(AddNodeToBeExecuted(data, c, run))
<1> DEFINE new == AddNodeToBeExecuted(data, c, run)
           n == c.to
           entries == data.waiting[n]
           index == IndexFor(data, c)
           main == MainFor(data, c, run)
           old == EntryFor(data, c)
<1>1. /\ Keeps(data, new, n)
      /\ \/ AddsItem(data, new, c, run)
         \/ AddsWhole(data, new, c, run)
         \/ AddsEntry(data, new, c, run)
  BY AddDoes
<1>2. n \in Nodes /\ c.input \in Inputs(n) /\ Nested(n, entries) /\ EntriesSound(n, entries)
  BY ConnectionFacts, SoundEntries DEF NestedData
<1>3. ASSUME NEW m \in Nodes, m # n
      PROVE  Nested(m, new.waiting[m])
  BY <1>1, <1>3 DEF Keeps, NestedData
<1>4. Nested(n, new.waiting[n])
  <2>1. CASE AddsItem(data, new, c, run)
    BY <1>2, <2>1 DEF AddsItem
  <2>2. CASE AddsWhole(data, new, c, run)
    <3>1. new.waiting[n] = Without(entries, index)
      BY <2>2 DEF AddsWhole
    <3>2. /\ DOMAIN Without(entries, index) = DOMAIN entries \ {index}
          /\ \A k \in DOMAIN entries \ {index} : Without(entries, index)[k] = entries[k]
      BY DEF Without
    <3> HIDE DEF new, n, entries, index
    <3> QED BY <1>2, <3>1, <3>2 DEF Nested
  <2>3. CASE AddsEntry(data, new, c, run)
    <3>1. PICK entry \in Entries(n) : entry.main = main /\ new.waiting[n] = With(entries, index, entry)
      BY <2>3 DEF AddsEntry
    <3> DEFINE joined == With(entries, index, entry)
    <3>2. /\ DOMAIN joined = DOMAIN entries \cup {index} /\ joined[index] = entry
          /\ \A k \in DOMAIN entries : k # index => joined[k] = entries[k]
      BY DEF With
    <3>3. /\ main[c.input] # NoData /\ index \in Nat
          /\ \A i \in Inputs(n) : i # c.input => main[i] = old.main[i]
      <4>1. {<<c.from, run, c.output>>} # NoData
        BY ConnectionFacts, Batching
      <4> QED BY <4>1, MainIs
    <3>4. \A k \in DOMAIN entries : k \in Nat /\ \E i \in Inputs(n) : entries[k].main[i] = NoData
      BY <1>2 DEF EntriesSound, Entries
    <3> DEFINE lacking == { k \in DOMAIN entries : entries[k].main[c.input] = NoData }
    <3>5. index = IF lacking # {} THEN Smallest(lacking) ELSE Cardinality(DOMAIN entries)
      BY DEF IndexFor, EntryIndex
    <3>6. lacking # {} => index \in lacking /\ \A k \in lacking : index <= k
      <4>1. lacking \in SUBSET Nat
        BY <3>4
      <4> HIDE DEF lacking, index, entries, n
      <4> QED BY <3>5, <4>1, SmallestIs
    <3>7. CASE lacking # {}
      <4>1. index \in DOMAIN entries /\ entries[index].main[c.input] = NoData
        BY <3>6, <3>7
      <4>2. old = entries[index]
        BY <4>1 DEF EntryFor
      <4>3. \A k \in DOMAIN entries : entries[k].main[c.input] = NoData => index <= k
        BY <3>6
      <4> HIDE DEF joined, index, entries, n, main, old, new, lacking
      <4>4. ASSUME NEW k \in DOMAIN joined, NEW l \in DOMAIN joined, NEW i \in Inputs(n),
                   k < l, joined[k].main[i] = NoData
            PROVE  joined[l].main[i] = NoData
        <5>1. k \in DOMAIN entries /\ l \in DOMAIN entries /\ k \in Nat /\ l \in Nat
          BY <3>2, <3>4, <4>1
        <5>2. CASE k = index
          <6>1. i # c.input /\ entries[k].main[i] = NoData
            BY <3>1, <3>2, <3>3, <4>2, <4>4, <5>2
          <6> QED BY <1>2, <3>2, <4>4, <5>1, <5>2, <6>1 DEF Nested
        <5>3. CASE l = index
          <6>1. entries[k].main[i] = NoData
            BY <3>2, <4>4, <5>1, <5>3
          <6>2. i # c.input
            BY <3>3, <4>3, <4>4, <5>1, <5>3, <6>1
          <6>3. entries[l].main[i] = NoData
            BY <1>2, <4>4, <5>1, <6>1 DEF Nested
          <6> QED BY <3>1, <3>2, <3>3, <4>2, <5>3, <6>2, <6>3
        <5>4. CASE k # index /\ l # index
          BY <1>2, <3>2, <4>4, <5>1, <5>4 DEF Nested
        <5> QED BY <5>2, <5>3, <5>4
      <4> QED BY <3>1, <4>4 DEF Nested, joined
    <3>8. CASE lacking = {}
      <4>1. \A k \in DOMAIN entries : entries[k].main[c.input] # NoData
        BY <3>8
      <4>2. \A i \in Inputs(n) : i # c.input => main[i] = NoData
        <5>1. old.main = Nothing(n)
          BY <4>1 DEF EntryFor
        <5> QED BY <3>3, <5>1 DEF Nothing
      <4>3. \/ \A k \in DOMAIN entries : k <= index
            \/ ~(Cardinality(Inputs(n)) > 2)
        <5>1. \A k \in DOMAIN entries : ~(k > index) => k <= index
          BY <3>3, <3>4
        <5> QED BY <4>1, <5>1 DEF Displaces
      <4>4. Known
        OBVIOUS
      <4> HIDE DEF joined, index, entries, n, main, old, new, lacking
      <4>5. ASSUME NEW k \in DOMAIN joined, NEW l \in DOMAIN joined, NEW i \in Inputs(n),
                   k < l, joined[k].main[i] = NoData
            PROVE  joined[l].main[i] = NoData
        <5>1. k \in Nat /\ l \in Nat
          BY <3>2, <3>3, <3>4
        <5>2. CASE k = index
          <6>1. l \in DOMAIN entries /\ l # index
            BY <3>2, <4>5, <5>1, <5>2
          <6>2. ~(Cardinality(Inputs(n)) > 2)
            BY <3>3, <4>3, <4>5, <5>1, <5>2, <6>1
          <6>3. PICK j \in Inputs(n) : entries[l].main[j] = NoData
            BY <3>4, <6>1
          <6>4. j # c.input /\ i # c.input
            BY <3>1, <3>2, <3>3, <4>1, <4>5, <5>2, <6>1, <6>3
          <6>5. i = j
            BY <1>2, <6>2, <6>4, OtherInput
          <6> QED BY <3>2, <6>1, <6>3, <6>5
        <5>3. CASE l = index
          <6>1. k \in DOMAIN entries /\ k # index /\ entries[k].main[i] = NoData
            BY <3>2, <4>5, <5>1, <5>3
          <6>2. i # c.input
            BY <4>1, <6>1
          <6> QED BY <3>1, <3>2, <4>2, <5>3, <6>2
        <5>4. CASE k # index /\ l # index
          BY <1>2, <3>2, <4>5, <5>4 DEF Nested
        <5> QED BY <5>2, <5>3, <5>4
      <4> QED BY <3>1, <4>5 DEF Nested, joined
    <3> QED BY <3>7, <3>8
  <2> QED BY <1>1, <2>1, <2>2, <2>3
<1> HIDE DEF new, n
<1>5. NestedData(new)
  BY <1>3, <1>4 DEF NestedData
<1> QED BY <1>5 DEF new

LEMMA ServeNests ==
    ASSUME Known, NEW data, Sound(data), NestedData(data)
    PROVE  NestedData(ServeWaiting(data))
<1> DEFINE new == ServeWaiting(data)
<1>1. new = data \/ \E n \in Nodes : Serves(data, new, n)
  BY ServeDoes
<1> HIDE DEF new
<1>2. ASSUME NEW n \in Nodes, Serves(data, new, n)
      PROVE  NestedData(new)
  <2> DEFINE entries == data.waiting[n]
             index == FirstIndex(data, n)
  <2>1. new.waiting[n] = Without(entries, index) /\ Keeps(data, new, n)
    BY <1>2 DEF Serves
  <2>2. /\ DOMAIN Without(entries, index) = DOMAIN entries \ {index}
        /\ \A k \in DOMAIN entries \ {index} : Without(entries, index)[k] = entries[k]
    BY DEF Without
  <2>3. Nested(n, entries)
    BY DEF NestedData
  <2> HIDE DEF entries, index
  <2>4. Nested(n, new.waiting[n])
    BY <2>1, <2>2, <2>3 DEF Nested
  <2>5. \A m \in Nodes : m # n => Nested(m, new.waiting[m])
    BY <2>1 DEF Keeps, NestedData
  <2> QED BY <2>4, <2>5 DEF NestedData
<1> QED BY <1>1, <1>2 DEF new

\* Where an item lacks data for an input, every node before it is done, and what
\* is left for the node lacks that data too.
Settled(data, active, n, i) ==
    /\ ParentNodes(n) \cap ToSet(data.order) = {}
    /\ \A item \in active :
          item.node \notin ParentNodes(n) /\ (item.node = n => Lacks(item, i))
    /\ \A k \in DOMAIN data.waiting[n] : data.waiting[n][k].main[i] = NoData

InTime(data, active, done) ==
    \A n \in Nodes : \A i \in Inputs(n) :
        (\E item \in active \cup done : item.node = n /\ Lacks(item, i))
            => Settled(data, active, n, i)

LEMMA BeforeAcyclic ==
    ASSUME Known, Acyclic, NEW n \in Nodes
    PROVE  /\ n \notin ParentNodes(n)
           /\ Parents(workflow, n) \subseteq ParentNodes(n)
           /\ \A m \in ParentNodes(n) : Parents(workflow, m) \subseteq ParentNodes(n)
<1>1. \A m : Parents(workflow, m) \subseteq Nodes
  BY ConnectionFacts DEF Parents, Connections
<1>2. /\ n \notin ParentNodes(n)
      /\ Parents(workflow, n) \ {n} \subseteq ParentNodes(n)
      /\ \A m \in ParentNodes(n) : Parents(workflow, m) \ {n} \subseteq ParentNodes(n)
  BY NodesBeforeAre
<1>3. ASSUME NEW m \in ParentNodes(n), n \in Parents(workflow, m)
      PROVE  FALSE
  <2>1. m \in Nodes \/ m \notin Nodes
    OBVIOUS
  <2>2. n # m
    BY <1>2
  <2>3. CASE m \in Nodes
    <3>1. n \in ParentNodes(m)
      BY <1>3, <2>2, <2>3, NodesBeforeAre
    <3> QED BY <3>1 DEF Acyclic
  <2>4. CASE m \notin Nodes
    <3>1. Parents(workflow, m) = {}
      BY <2>4, ConnectionFacts DEF Parents, Connections
    <3> QED BY <1>3, <3>1
  <2> QED BY <2>3, <2>4
<1> QED BY <1>2, <1>3 DEF Acyclic

\* The items that an action adds to the stack.
LEMMA PushedItems ==
    ASSUME NEW data, Sound(data), NEW new, NEW n, NEW main, Pushes(data, new, n, main)
    PROVE  \E item : /\ IsItem(item) /\ item.node = n /\ item.main = main
                     /\ ToSet(new.stack) = ToSet(data.stack) \cup {item}
<1>1. PICK item : /\ IsItem(item) /\ item.node = n /\ item.main = main
                  /\ new.stack = <<item>> \o data.stack
  BY DEF Pushes
<1>2. data.stack \in Seq(Items) /\ item \in Items
  BY <1>1, SoundStack, ItemSet
<1>3. ToSet(<<item>> \o data.stack) = ToSet(data.stack) \cup {item}
  BY <1>2, Pushed
<1> QED BY <1>1, <1>3

LEMMA AddBrings ==
    ASSUME Known, NEW data, Sound(data), NEW c \in Connections, NEW run \in 0..MaxRuns,
           NEW new, new = AddNodeToBeExecuted(data, c, run)
    PROVE  \/ ToSet(new.stack) = ToSet(data.stack)
           \/ \E item : /\ item.node = c.to /\ \A i : ~Lacks(item, i)
                        /\ ToSet(new.stack) = ToSet(data.stack) \cup {item}
<1>1. \/ AddsItem(data, new, c, run)
      \/ AddsWhole(data, new, c, run)
      \/ AddsEntry(data, new, c, run)
  BY AddDoes
<1>2. ASSUME NEW main, Pushes(data, new, c.to, main), \A i \in DOMAIN main : main[i] # {}
      PROVE  \E item : /\ item.node = c.to /\ \A i : ~Lacks(item, i)
                       /\ ToSet(new.stack) = ToSet(data.stack) \cup {item}
  <2>1. PICK item : /\ item.node = c.to /\ item.main = main
                    /\ ToSet(new.stack) = ToSet(data.stack) \cup {item}
    BY <1>2, PushedItems
  <2>2. \A i : ~Lacks(item, i)
    BY <1>2, <2>1 DEF Lacks, Has
  <2> QED BY <2>1, <2>2
<1>3. CASE AddsItem(data, new, c, run)
  <2> DEFINE main == [i \in Inputs(c.to) |-> {<<c.from, run, c.output>>}]
  <2>1. Pushes(data, new, c.to, main) /\ \A i \in DOMAIN main : main[i] # {}
    BY <1>3 DEF AddsItem
  <2> HIDE DEF main
  <2> QED BY <1>2, <2>1
<1>4. CASE AddsWhole(data, new, c, run)
  <2>1. \A i \in DOMAIN MainFor(data, c, run) : MainFor(data, c, run)[i] # {}
    BY <1>4, MainIs DEF AddsWhole
  <2> QED BY <1>2, <1>4, <2>1 DEF AddsWhole
<1>5. CASE AddsEntry(data, new, c, run)
  BY <1>5 DEF AddsEntry
<1> QED BY <1>1, <1>3, <1>4, <1>5

\* A node that is executed is not before one that lacks data.
LEMMA AddInTime ==
    ASSUME Known, Acyclic, NEW data, Sound(data), NEW c \in Connections, NEW run \in 0..MaxRuns,
           NEW held, NEW done, \E item \in held : item.node = c.from,
           InTime(data, ToSet(data.stack) \cup held, done),
           NEW new, new = AddNodeToBeExecuted(data, c, run)
    PROVE  InTime(new, ToSet(new.stack) \cup held, done)
<1>1. Keeps(data, new, c.to)
  BY AddDoes
<1>2. c.to \in Nodes /\ c.from \in Parents(workflow, c.to)
  BY ConnectionFacts DEF Parents, Connections
<1>3. ASSUME NEW n \in Nodes, NEW i \in Inputs(n),
             NEW item \in (ToSet(new.stack) \cup held) \cup done, item.node = n, Lacks(item, i)
      PROVE  Settled(new, ToSet(new.stack) \cup held, n, i)
  <2>1. item \in (ToSet(data.stack) \cup held) \cup done
    BY <1>3, AddBrings
  <2>2. Settled(data, ToSet(data.stack) \cup held, n, i)
    BY <1>3, <2>1 DEF InTime
  <2>3. c.from \notin ParentNodes(n)
    BY <2>2 DEF Settled
  <2>4. c.to \notin ParentNodes(n) /\ c.to # n
    BY <1>2, <2>3, BeforeAcyclic
  <2>5. ParentNodes(n) \cap ToSet(new.order) = {}
    BY <1>1, <2>2, <2>4 DEF Keeps, Settled
  <2>6. new.waiting[n] = data.waiting[n]
    BY <1>1, <2>4 DEF Keeps
  <2>7. ASSUME NEW x \in ToSet(new.stack) \cup held
        PROVE  x.node \notin ParentNodes(n) /\ (x.node = n => Lacks(x, i))
    <3>1. x \in ToSet(data.stack) \cup held \/ x.node = c.to
      BY <2>7, AddBrings
    <3> QED BY <2>2, <2>4, <3>1 DEF Settled
  <2> QED BY <2>2, <2>5, <2>6, <2>7 DEF Settled
<1> QED BY <1>3 DEF InTime

LEMMA ServeInTime ==
    ASSUME Known, Acyclic, NEW data, Sound(data), NestedData(data), NEW done,
           InTime(data, ToSet(data.stack), done), NEW new, new = ServeWaiting(data)
    PROVE  InTime(new, ToSet(new.stack), done)
<1>1. new = data \/ \E m \in Nodes : Serves(data, new, m)
  BY ServeDoes
<1>2. ASSUME NEW m \in Nodes, Serves(data, new, m)
      PROVE  InTime(new, ToSet(new.stack), done)
  <2> DEFINE entries == data.waiting[m]
             index == FirstIndex(data, m)
             main == Completed(m, entries[index].main)
  <2>1. PICK item : /\ IsItem(item) /\ item.node = m /\ item.main = main
                    /\ ToSet(new.stack) = ToSet(data.stack) \cup {item}
    BY <1>2, PushedItems DEF Serves
  <2>2. ToSet(data.stack) = {}
    BY <1>2, EmptySeq, LenProperties DEF Serves, ToSet
  <2>3. /\ index \in DOMAIN entries /\ MayRun(data, m) /\ Keeps(data, new, m)
        /\ new.waiting[m] = Without(entries, index)
    BY <1>2 DEF Serves
  <2>4. \A k \in DOMAIN entries : k \in Nat /\ index <= k
    <3>1. DOMAIN entries \in SUBSET Nat
      BY SoundEntries DEF EntriesSound
    <3> QED BY <2>3, <3>1, SmallestIs DEF FirstIndex
  <2>5. m \in ToSet(data.order)
    BY <2>3 DEF Sound, DataOK
  <2>6. ParentNodes(m) \cap ToSet(data.order) = {} /\ m \notin ParentNodes(m)
    BY <2>3, BeforeAcyclic DEF MayRun
  <2>7. /\ DOMAIN new.waiting[m] = DOMAIN entries \ {index}
        /\ \A k \in DOMAIN entries \ {index} : new.waiting[m][k] = entries[k]
    BY <2>3 DEF Without
  <2>8. ASSUME NEW i \in Inputs(m), Lacks(item, i)
        PROVE  \A k \in DOMAIN entries \ {index} : entries[k].main[i] = NoData
    <3>1. main[i] = {}
      BY <2>1, <2>8 DEF Lacks, Has
    <3>2. entries[index].main[i] = NoData
      <4>1. entries[index] \in Entries(m)
        BY <2>3, SoundEntries DEF EntriesSound
      <4>2. entries[index].main[i] # {}
        BY <4>1, Batching DEF Entries
      <4> QED BY <3>1, <4>2 DEF Completed
    <3>3. Nested(m, entries)
      BY DEF NestedData
    <3> HIDE DEF entries, index
    <3> QED BY <2>3, <2>4, <3>2, <3>3 DEF Nested
  <2> HIDE DEF entries, index, main
  <2>9. ASSUME NEW n \in Nodes, NEW i \in Inputs(n), NEW x \in ToSet(new.stack) \cup done,
               x.node = n, Lacks(x, i)
        PROVE  Settled(new, ToSet(new.stack), n, i)
    <3>1. CASE n = m /\ x = item
      <4>1. \A k \in DOMAIN new.waiting[n] : new.waiting[n][k].main[i] = NoData
        BY <2>7, <2>8, <2>9, <3>1
      <4>2. \A y \in ToSet(new.stack) : y = item
        BY <2>1, <2>2
      <4>3. ParentNodes(n) \cap ToSet(new.order) = {}
        BY <2>3, <2>6, <3>1 DEF Keeps
      <4> QED BY <2>6, <2>9, <3>1, <4>1, <4>2, <4>3 DEF Settled
    <3>2. CASE x \in done
      <4>1. Settled(data, ToSet(data.stack), n, i)
        BY <2>9, <3>2 DEF InTime
      <4>2. m \notin ParentNodes(n)
        BY <2>5, <4>1 DEF Settled
      <4>3. ParentNodes(n) \cap ToSet(new.order) = {}
        BY <2>3, <4>1, <4>2 DEF Keeps, Settled
      <4>4. \A k \in DOMAIN new.waiting[n] : new.waiting[n][k].main[i] = NoData
        <5>1. CASE n = m
          BY <2>7, <4>1, <5>1 DEF Settled, entries
        <5>2. CASE n # m
          BY <2>3, <4>1, <5>2 DEF Settled, Keeps
        <5> QED BY <5>1, <5>2
      <4>5. n = m => Lacks(item, i)
        <5> SUFFICES ASSUME n = m
                     PROVE  Lacks(item, i)
          OBVIOUS
        <5>1. entries[index].main[i] = NoData
          BY <2>3, <4>1 DEF Settled, entries
        <5>2. i \in DOMAIN main /\ main[i] = {}
          BY <2>9, <5>1 DEF main, Completed
        <5> QED BY <2>1, <5>2 DEF Lacks, Has
      <4>6. \A y \in ToSet(new.stack) : y = item
        BY <2>1, <2>2
      <4> QED BY <2>1, <4>2, <4>3, <4>4, <4>5, <4>6 DEF Settled
    <3> QED BY <2>1, <2>2, <2>9, <3>1, <3>2
  <2> QED BY <2>9 DEF InTime
<1> QED BY <1>1, <1>2

\* Some connection is followed to a node whose new entry is put before one there is.
Displacing(data, n, run, outputs) ==
    \E k \in 1..Len(workflow.connections) :
        LET c == workflow.connections[k]
        IN  Follows(c, n, outputs) /\ Displaces(Passed(data, n, run, outputs)[k - 1], c)

LEMMA PassedInTime ==
    ASSUME Known, NEW data, Sound(data), NEW n, NEW run, NEW outputs,
           outputs # {} => run \in 0..MaxRuns, ~Displacing(data, n, run, outputs),
           NEW held, NEW done, \E item \in held : item.node = n, NestedData(data),
           Acyclic => InTime(data, ToSet(data.stack) \cup held, done),
           NEW passed, passed = Passed(data, n, run, outputs)[Len(workflow.connections)]
    PROVE  /\ NestedData(passed)
           /\ Acyclic => InTime(passed, ToSet(passed.stack) \cup held, done)
<1> DEFINE size == Len(workflow.connections)
           f == Passed(data, n, run, outputs)
           Timed(x) == NestedData(x) /\ (Acyclic => InTime(x, ToSet(x.stack) \cup held, done))
           S == { k \in Nat : k \in 0..size => Timed(f[k]) }
<1>1. /\ size \in Nat /\ f[0] = data
      /\ \A k \in 1..size :
            LET c == workflow.connections[k]
            IN  /\ c \in Connections
                /\ f[k] = IF c.from = n /\ c.output \in outputs
                          THEN AddNodeToBeExecuted(f[k - 1], c, run) ELSE f[k - 1]
  BY PassedSteps
<1>2. \A k \in 0..size : Sound(f[k])
  BY PassedKeeps
<1>3. \A k \in 1..size :
          Follows(workflow.connections[k], n, outputs) => ~Displaces(f[k - 1], workflow.connections[k])
  BY DEF Displacing
<1>4. passed = f[size]
  OBVIOUS
<1> HIDE DEF f, size
<1>5. 0 \in S
  BY <1>1
<1>6. ASSUME NEW k \in Nat, k \in S, k + 1 \in 0..size
      PROVE  Timed(f[k + 1])
  <2> DEFINE c == workflow.connections[k + 1]
  <2>1. Sound(f[k]) /\ Timed(f[k])
    <3>1. k \in 0..size
      BY <1>1, <1>6
    <3> QED BY <1>2, <1>6, <3>1
  <2>2. k + 1 \in 1..size /\ (k + 1) - 1 = k
    BY <1>1, <1>6
  <2>3. c \in Connections /\ f[k + 1] = IF c.from = n /\ c.output \in outputs
                                        THEN AddNodeToBeExecuted(f[k], c, run) ELSE f[k]
    BY <1>1, <2>2
  <2>4. Follows(c, n, outputs) => ~Displaces(f[k], c)
    BY <1>3, <2>2
  <2> HIDE DEF c
  <2>5. CASE Follows(c, n, outputs)
    <3>1. run \in 0..MaxRuns /\ f[k + 1] = AddNodeToBeExecuted(f[k], c, run)
      BY <2>3, <2>5 DEF Follows
    <3>2. NestedData(f[k + 1])
      BY <2>1, <2>3, <2>4, <2>5, <3>1, AddNests
    <3>3. \E item \in held : item.node = c.from
      BY <2>5 DEF Follows
    <3>4. ASSUME Acyclic
          PROVE  InTime(f[k + 1], ToSet(f[k + 1].stack) \cup held, done)
      BY <2>1, <2>3, <3>1, <3>3, <3>4, AddInTime
    <3> QED BY <3>2, <3>4
  <2>6. CASE ~Follows(c, n, outputs)
    <3>1. f[k + 1] = f[k]
      BY <2>3, <2>6 DEF Follows
    <3> HIDE DEF Timed
    <3> QED BY <2>1, <3>1
  <2> QED BY <2>5, <2>6
<1>7. \A k \in Nat : k \in S
  <2> HIDE DEF Timed
  <2>1. ASSUME NEW k \in Nat, k \in S
        PROVE  k + 1 \in S
    BY <1>6, <2>1
  <2> HIDE DEF S
  <2> QED BY <1>5, <2>1, Induct
<1>8. Timed(f[size])
  <2>1. size \in Nat /\ size \in 0..size
    BY <1>1
  <2> HIDE DEF Timed
  <2> QED BY <1>7, <2>1
<1> QED BY <1>4, <1>8

\* There are no more items than before, of the same nodes and with the same data.
LEMMA FewerInTime ==
    ASSUME NEW data, NEW new, new.waiting = data.waiting, new.order = data.order,
           NEW active, NEW fewer, NEW done, InTime(data, active, done),
           \A x \in fewer : \E y \in active : y.node = x.node /\ y.main = x.main
    PROVE  InTime(new, fewer, done)
<1>1. \A x, y, i : y.main = x.main => (Lacks(y, i) <=> Lacks(x, i))
  BY DEF Lacks, Has
<1>2. ASSUME NEW n \in Nodes, NEW i \in Inputs(n), NEW x \in fewer \cup done,
             x.node = n, Lacks(x, i)
      PROVE  Settled(new, fewer, n, i)
  <2>1. \E y \in active \cup done : y.node = n /\ Lacks(y, i)
    BY <1>1, <1>2
  <2>2. Settled(data, active, n, i)
    BY <2>1 DEF InTime
  <2>3. \A z \in fewer : z.node \notin ParentNodes(n) /\ (z.node = n => Lacks(z, i))
    BY <1>1, <2>2 DEF Settled
  <2> QED BY <2>2, <2>3 DEF Settled
<1> QED BY <1>2 DEF InTime

\* An item was executed to the end.
LEMMA DoneInTime ==
    ASSUME NEW data, NEW active, NEW item, NEW done, InTime(data, active \cup {item}, done)
    PROVE  InTime(data, active, done \cup {item})
<1>1. (active \cup {item}) \cup done = active \cup (done \cup {item})
  OBVIOUS
<1>2. \A n, i : Settled(data, active \cup {item}, n, i) => Settled(data, active, n, i)
  BY DEF Settled
<1> QED BY <1>1, <1>2 DEF InTime

\* What a node lacked once it lacks in what it executes later.
LaterLacks(items) ==
    \A j, k \in DOMAIN items : \A i \in Inputs(items[j].node) :
        j < k /\ items[k].node = items[j].node /\ Lacks(items[j], i) => Lacks(items[k], i)

LEMMA DoneLater ==
    ASSUME NEW data, NEW active, NEW items \in Seq(Items), NEW item \in Items,
           InTime(data, active \cup {item}, ToSet(items)), LaterLacks(items)
    PROVE  LaterLacks(Append(items, item)) /\ ToSet(Append(items, item)) = ToSet(items) \cup {item}
<1> DEFINE new == Append(items, item)
           size == Len(items)
<1>1. /\ size \in Nat /\ DOMAIN items = 1..size
      /\ new \in Seq(Items) /\ Len(new) = size + 1 /\ DOMAIN new = 1..(size + 1)
      /\ new[size + 1] = item /\ \A k \in 1..size : new[k] = items[k]
  BY AppendProperties, LenProperties
<1>2. \A k \in 1..size : items[k].node \in Nodes /\ items[k] \in ToSet(items)
  <2>1. \A k \in 1..size : items[k] \in Items
    BY <1>1, ElementOfSeq
  <2> QED BY <1>1, <2>1, ItemSet DEF IsItem, ToSet
<1> HIDE DEF new, size
<1>3. ASSUME NEW j \in 1..(size + 1), NEW k \in 1..(size + 1), NEW i \in Inputs(new[j].node),
             j < k, new[k].node = new[j].node, Lacks(new[j], i)
      PROVE  Lacks(new[k], i)
  <2>1. j \in 1..size /\ new[j] = items[j]
    BY <1>1, <1>3
  <2>2. CASE k = size + 1
    <3>1. Settled(data, active \cup {item}, items[j].node, i)
      BY <1>2, <1>3, <2>1 DEF InTime
    <3> QED BY <1>1, <1>3, <2>1, <2>2, <3>1 DEF Settled
  <2>3. CASE k # size + 1
    <3>1. k \in 1..size /\ new[k] = items[k]
      BY <1>1, <1>3, <2>3
    <3> QED BY <1>1, <1>3, <2>1, <3>1 DEF LaterLacks
  <2> QED BY <2>2, <2>3
<1>4. LaterLacks(new)
  BY <1>1, <1>3 DEF LaterLacks
<1>5. ToSet(new) = ToSet(items) \cup {item}
  <2>1. 1..(size + 1) = (1..size) \cup {size + 1}
    BY <1>1
  <2>2. ToSet(new) = { new[k] : k \in 1..(size + 1) } /\ ToSet(items) = { items[k] : k \in 1..size }
    BY <1>1 DEF ToSet
  <2> QED BY <1>1, <2>1, <2>2
<1> QED BY <1>4, <1>5 DEF new

\* The invariant: entries are nested, and what nodes lacked does not come later.
Timely(data, held, done) ==
    /\ NestedData(data)
    /\ Acyclic => /\ InTime(data, ToSet(data.stack) \cup ToSet(held), ToSet(done))
                  /\ LaterLacks(done)

LInv == Timely(executionData, Held, consumed)

LEMMA SameTimely ==
    ASSUME workflow' = workflow
    PROVE  \A data, held, done : Timely(data, held, done)' <=> Timely(data, held, done)
<1>1. Acyclic' <=> Acyclic
  BY SameGraph DEF Acyclic, Parents
<1>2. \A data : NestedData(data)' <=> NestedData(data)
  BY SameGraph DEF NestedData, Nested
<1>3. \A item, i : Lacks(item, i)' <=> Lacks(item, i)
  BY DEF Lacks, Has
<1>4. \A data, active, n, i : Settled(data, active, n, i)' <=> Settled(data, active, n, i)
  BY <1>3, SameGraph DEF Settled
<1>5. \A data, active, done : InTime(data, active, done)' <=> InTime(data, active, done)
  BY <1>3, <1>4, SameGraph DEF InTime
<1>6. \A items : LaterLacks(items)' <=> LaterLacks(items)
  BY <1>3, SameGraph DEF LaterLacks
<1> QED BY <1>1, <1>2, <1>5, <1>6 DEF Timely

LEMMA StepTimely ==
    ASSUME workflow' = workflow, Timely(executionData', Held', consumed')
    PROVE  LInv'
<1>1. Timely(executionData, Held, consumed)'
  BY SameTimely
<1> QED BY <1>1 DEF LInv

LEMMA ToSetOne == ToSet(<<>>) = {} /\ \A x : ToSet(<<x>>) = {x}
<1>1. ToSet(<<>>) = {}
  BY EmptySeq, LenProperties DEF ToSet
<1>2. ASSUME NEW x
      PROVE  ToSet(<<x>>) = {x}
  <2>1. DOMAIN <<x>> = {1} /\ <<x>>[1] = x
    OBVIOUS
  <2> QED BY <2>1 DEF ToSet
<1> QED BY <1>1, <1>2

\* Items move, and none is executed.
LEMMA MovedTimely ==
    ASSUME LInv, workflow' = workflow, consumed' = consumed,
           executionData'.waiting = executionData.waiting,
           executionData'.order = executionData.order,
           \A x \in ToSet(executionData'.stack) \cup ToSet(Held') :
               \E y \in ToSet(executionData.stack) \cup ToSet(Held) :
                   y.node = x.node /\ y.main = x.main
    PROVE  LInv'
<1>1. NestedData(executionData')
  BY DEF LInv, Timely, NestedData
<1>2. ASSUME Acyclic
      PROVE  InTime(executionData', ToSet(executionData'.stack) \cup ToSet(Held'), ToSet(consumed'))
  BY <1>2, FewerInTime DEF LInv, Timely
<1>3. Timely(executionData', Held', consumed')
  BY <1>1, <1>2 DEF LInv, Timely
<1> QED BY <1>3, StepTimely

LEMMA UnmovedTimely ==
    ASSUME LInv, UNCHANGED <<workflow, executionData, consumed>>, Held' = Held
    PROVE  LInv'
BY MovedTimely

LEMMA TakeNodeTimely == IInv /\ LInv /\ TakeNode => LInv'
<1> SUFFICES ASSUME IInv, LInv, TakeNode
             PROVE  LInv'
  OBVIOUS
<1> DEFINE items == executionData.stack
           item == Head(items)
           stack == Tail(items)
<1>1. /\ current' = [item |-> item, run |-> Len(runData[item.node]), try |-> 1, output |-> 0]
      /\ executionData' = [executionData EXCEPT !.stack = stack]
      /\ items # <<>> /\ UNCHANGED <<workflow, consumed>>
  BY DEF TakeNode
<1>2. Held' = <<item>>
  BY <1>1, Idle DEF Held
<1>3. ItemsSound(stack) /\ items \in Seq(Items) /\ items[1] = item /\ 1 \in DOMAIN items
  BY <1>1, SoundStack, Taken DEF IInv
<1>4. /\ executionData'.stack = stack /\ executionData'.waiting = executionData.waiting
      /\ executionData'.order = executionData.order
  <2> HIDE DEF stack
  <2> QED BY <1>1, <1>3, StackKeeps DEF IInv
<1>5. ToSet(stack) \subseteq ToSet(items) /\ item \in ToSet(items)
  <2> HIDE DEF items
  <2>1. Len(items) \in Nat \ {0} /\ DOMAIN items = 1..Len(items)
    BY <1>1, <1>3, LenProperties, EmptySeq
  <2>2. /\ stack \in Seq(Items) /\ Len(stack) = Len(items) - 1
        /\ \A i \in 1..(Len(items) - 1) : stack[i] = items[i + 1]
    BY <1>1, <1>3, <2>1, HeadTailProperties
  <2>3. DOMAIN stack = 1..(Len(items) - 1)
    BY <2>2, LenProperties
  <2>4. \A i \in 1..(Len(items) - 1) : i + 1 \in 1..Len(items)
    BY <2>1
  <2> HIDE DEF stack, item
  <2> QED BY <1>3, <2>1, <2>2, <2>3, <2>4 DEF ToSet
<1> HIDE DEF item, stack
<1> QED BY <1>1, <1>2, <1>4, <1>5, ToSetOne, MovedTimely DEF items

LEMMA BreakTimely ==
    ASSUME IInv, LInv, Executing, NEW how \in {"waiting", "error"}, Break(how)
    PROVE  LInv'
<1>1. /\ executionData' = Push(executionData, current.item)
      /\ current' = NoItem /\ workflow' = workflow /\ consumed' = consumed
  BY DEF Break, Push
<1>2. /\ executionData'.stack = <<current.item>> \o executionData.stack
      /\ executionData'.waiting = executionData.waiting
      /\ executionData'.order = executionData.order
  BY <1>1, NodeExecuted, PushKeeps DEF IInv
<1>3. executionData.stack \in Seq(Items) /\ current.item \in Items
  BY NodeExecuted, SoundStack, ItemSet DEF IInv
<1>4. ToSet(executionData'.stack) = ToSet(executionData.stack) \cup {current.item}
  BY <1>2, <1>3, Pushed
<1>5. Held = <<current.item>> /\ Held' = <<>>
  BY <1>1 DEF Executing, Held
<1> QED BY <1>1, <1>2, <1>4, <1>5, ToSetOne, MovedTimely

LEMMA ResumeTimely == IInv /\ LInv /\ Resume => LInv'
<1> SUFFICES ASSUME IInv, LInv, Resume
             PROVE  LInv'
  OBVIOUS
<1>1. UNCHANGED <<workflow, current, consumed>>
  BY DEF Resume
<1>2. /\ executionData'.waiting = executionData.waiting
      /\ executionData'.order = executionData.order
      /\ DOMAIN executionData'.stack = DOMAIN executionData.stack
      /\ \A j \in DOMAIN executionData.stack :
            /\ executionData'.stack[j].node = executionData.stack[j].node
            /\ executionData'.stack[j].main = executionData.stack[j].main
  BY Resumed
<1>3. \A x \in ToSet(executionData'.stack) :
          \E y \in ToSet(executionData.stack) : y.node = x.node /\ y.main = x.main
  BY <1>2 DEF ToSet
<1>4. Held' = Held
  BY <1>1 DEF Held
<1> QED BY <1>1, <1>2, <1>3, <1>4, MovedTimely

\* A node is executed to the end.
LEMMA DoneTimely ==
    ASSUME IInv, LInv, Executing, current' = NoItem, consumed' = Append(consumed, current.item)
    PROVE  /\ Held = <<current.item>> /\ Held' = <<>>
           /\ ToSet(consumed') = ToSet(consumed) \cup {current.item}
           /\ Acyclic => LaterLacks(consumed')
<1>1. Held = <<current.item>> /\ Held' = <<>>
  BY DEF Executing, Held
<1>2. consumed \in Seq(Items) /\ current.item \in Items
  BY NodeExecuted, ItemLists, ItemSet DEF IInv, ItemsSound
<1>3. ToSet(consumed') = ToSet(consumed) \cup {current.item}
  <2>1. /\ Len(consumed) \in Nat /\ DOMAIN consumed = 1..Len(consumed)
        /\ DOMAIN consumed' = 1..(Len(consumed) + 1)
        /\ consumed'[Len(consumed) + 1] = current.item
        /\ \A k \in 1..Len(consumed) : consumed'[k] = consumed[k]
    BY <1>2, AppendProperties, LenProperties
  <2>2. 1..(Len(consumed) + 1) = (1..Len(consumed)) \cup {Len(consumed) + 1}
    BY <2>1
  <2> QED BY <2>1, <2>2 DEF ToSet
<1>4. ASSUME Acyclic
      PROVE  LaterLacks(consumed')
  <2>1. /\ InTime(executionData, ToSet(executionData.stack) \cup {current.item}, ToSet(consumed))
        /\ LaterLacks(consumed)
    BY <1>1, <1>4, ToSetOne DEF LInv, Timely
  <2> QED BY <1>2, <2>1, DoneLater
<1> QED BY <1>1, <1>3, <1>4

LEMMA NodeReturnsNullTimely == IInv /\ LInv /\ NodeReturnsNull => LInv'
<1> SUFFICES ASSUME IInv, LInv, NodeReturnsNull
             PROVE  LInv'
  OBVIOUS
<1>1. /\ Executing /\ consumed' = Append(consumed, current.item) /\ current' = NoItem
      /\ UNCHANGED <<workflow, executionData>>
  BY DEF NodeReturnsNull
<1>2. /\ Held = <<current.item>> /\ Held' = <<>>
      /\ ToSet(consumed') = ToSet(consumed) \cup {current.item}
      /\ Acyclic => LaterLacks(consumed')
  BY <1>1, DoneTimely
<1>3. ASSUME Acyclic
      PROVE  InTime(executionData', ToSet(executionData'.stack) \cup ToSet(Held'), ToSet(consumed'))
  <2>1. InTime(executionData, ToSet(executionData.stack) \cup {current.item}, ToSet(consumed))
    BY <1>2, <1>3, ToSetOne DEF LInv, Timely
  <2>2. InTime(executionData, ToSet(executionData.stack), ToSet(consumed) \cup {current.item})
    BY <2>1, DoneInTime
  <2>3. ToSet(executionData'.stack) \cup ToSet(Held') = ToSet(executionData.stack)
    BY <1>1, <1>2, ToSetOne
  <2> QED BY <1>1, <1>2, <2>2, <2>3
<1>4. Timely(executionData', Held', consumed')
  BY <1>1, <1>2, <1>3 DEF LInv, Timely
<1> QED BY <1>1, <1>4, StepTimely

\* What is passed on goes to a node with more than two inputs whose new entry,
\* the index of which is the number of entries, comes before one there is.
OutOfOrder ==
    /\ Executing /\ runData' # runData
    /\ Displacing(executionData, Node, current.run, runData'[Node][current.run + 1])

LEMMA ContinueTimely ==
    ASSUME IInv, LInv, Executing, NEW given \in SUBSET (Outputs(Node) \cup {workflow.errorOutput[Node]}),
           Continue(given), ~OutOfOrder
    PROVE  LInv'
<1> DEFINE outputs == IF current.run + 1 < MaxRuns THEN given ELSE {}
           run == current.run
           passed == Passed(executionData, Node, run, outputs)[Len(workflow.connections)]
<1>1. /\ runData' = Recorded(runData, Node, outputs)
      /\ executionData' = PassOn(executionData, Node, run, outputs)
      /\ consumed' = Append(consumed, current.item) /\ current' = NoItem
      /\ workflow' = workflow
  BY DEF Continue, Recorded
<1>2. outputs # {} => run \in 0..MaxRuns
  BY NodeExecuted, BoundsAssumption
<1>3. outputs \in SUBSET Nat
  <2>1. outputs \subseteq Outputs(Node) \cup {workflow.errorOutput[Node]}
    OBVIOUS
  <2> QED BY <2>1, OutputNumbers, NodeExecuted
<1>4. Known /\ Node \in Nodes /\ run = Len(runData[Node]) /\ run \in Nat
  BY NodeExecuted
<1>5. runData \in [Nodes -> Seq(SUBSET Nat)] /\ Sound(executionData)
  BY DEF IInv, RunsSound
<1> HIDE DEF outputs, run
<1>6. runData' # runData /\ runData'[Node][run + 1] = outputs
  <2> DEFINE Lists == SUBSET Nat
  <2>1. runData[Node] \in Seq(Lists) /\ outputs \in Lists
    BY <1>3, <1>4, <1>5
  <2> HIDE DEF Lists
  <2>2. Len(Append(runData[Node], outputs)) = run + 1 /\ Append(runData[Node], outputs)[run + 1] = outputs
    BY <1>4, <2>1, AppendProperties
  <2>3. runData'[Node] = Append(runData[Node], outputs)
    BY <1>1, <1>4, <1>5 DEF Recorded
  <2> QED BY <1>4, <2>2, <2>3
<1>7. ~Displacing(executionData, Node, run, outputs)
  BY <1>6 DEF OutOfOrder, run
<1>8. /\ Held = <<current.item>> /\ Held' = <<>>
      /\ ToSet(consumed') = ToSet(consumed) \cup {current.item}
      /\ Acyclic => LaterLacks(consumed')
  BY <1>1, DoneTimely
<1>9. /\ NestedData(executionData)
      /\ Acyclic => InTime(executionData, ToSet(executionData.stack) \cup {current.item}, ToSet(consumed))
  BY <1>8, ToSetOne DEF LInv, Timely
<1>10. Sound(passed)
  <2>1. Len(workflow.connections) \in 0..Len(workflow.connections)
    BY <1>4, PassedSteps
  <2> QED BY <1>2, <1>4, <1>5, <2>1, PassedKeeps
<1>11. /\ NestedData(passed)
       /\ Acyclic => InTime(passed, ToSet(passed.stack) \cup {current.item}, ToSet(consumed))
  <2>1. \E item \in {current.item} : item.node = Node
    BY DEF Node
  <2> QED BY <1>2, <1>4, <1>5, <1>7, <1>9, <2>1, PassedInTime
<1>12. executionData' = ServeWaiting(passed)
  BY <1>1 DEF PassOn
<1> HIDE DEF passed
<1>13. NestedData(executionData')
  BY <1>4, <1>10, <1>11, <1>12, ServeNests
<1>14. ASSUME Acyclic
       PROVE  InTime(executionData', ToSet(executionData'.stack) \cup ToSet(Held'), ToSet(consumed'))
  <2>1. InTime(passed, ToSet(passed.stack), ToSet(consumed'))
    <3>1. InTime(passed, ToSet(passed.stack), ToSet(consumed) \cup {current.item})
      BY <1>11, <1>14, DoneInTime
    <3> QED BY <1>8, <3>1
  <2>2. InTime(executionData', ToSet(executionData'.stack), ToSet(consumed'))
    BY <1>4, <1>10, <1>11, <1>12, <1>14, <2>1, ServeInTime
  <2>3. ToSet(executionData'.stack) \cup ToSet(Held') = ToSet(executionData'.stack)
    BY <1>8, ToSetOne
  <2> QED BY <2>2, <2>3
<1>15. Timely(executionData', Held', consumed')
  BY <1>8, <1>13, <1>14 DEF Timely
<1> QED BY <1>1, <1>15, StepTimely

\* The node is tried or run once more.
LEMMA OnceMoreTimely ==
    ASSUME IInv, LInv, Executing, NEW try, NEW output,
           current' = [item |-> current.item, run |-> current.run, try |-> try, output |-> output],
           UNCHANGED <<workflow, executionData, runData, status, result, retries, consumed>>
    PROVE  LInv'
<1>1. current' # NoItem /\ current'.item = current.item
  BY Idle
<1>2. Held' = Held
  BY <1>1 DEF Held, Executing
<1> QED BY <1>2, UnmovedTimely

LEMMA NodeThrowsTimely == IInv /\ LInv /\ NodeThrows /\ ~OutOfOrder => LInv'
<1> SUFFICES ASSUME IInv, LInv, ~OutOfOrder, Executing,
                    \/ TriesAgain
                    \/ LastTry /\ Continue(PassedThrough)
                    \/ LastTry /\ Break("error")
             PROVE  LInv'
  BY DEF NodeThrows
<1>1. CASE TriesAgain
  <2>1. current' = [item |-> current.item, run |-> current.run, try |-> current.try + 1,
                    output |-> 0]
    BY <1>1, NodeExecuted DEF TriesAgain
  <2> QED BY <1>1, <2>1, OnceMoreTimely DEF TriesAgain
<1>2. CASE Continue(PassedThrough)
  BY <1>2, OutputsKeep, ContinueTimely
<1>3. CASE Break("error")
  BY <1>3, BreakTimely
<1> QED BY <1>1, <1>2, <1>3

LEMMA NodeEmitsErrorTimely == IInv /\ LInv /\ NodeEmitsError /\ ~OutOfOrder => LInv'
<1> SUFFICES ASSUME IInv, LInv, NodeEmitsError, ~OutOfOrder
             PROVE  LInv'
  OBVIOUS
<1>0. Executing
  BY DEF NodeEmitsError
<1>1. CASE LastTry
  BY <1>0, <1>1, OutputsKeep, ContinueTimely DEF NodeEmitsError
<1>2. CASE ~LastTry
  <2>1. /\ current' = [current EXCEPT !.output = workflow.errorOutput[Node]]
        /\ UNCHANGED <<workflow, executionData, runData, status, result, retries, consumed>>
    BY <1>2 DEF NodeEmitsError
  <2>2. current' = [item |-> current.item, run |-> current.run, try |-> current.try,
                    output |-> workflow.errorOutput[Node]]
    BY <1>0, <2>1, NodeExecuted
  <2> QED BY <1>0, <2>1, <2>2, OnceMoreTimely
<1> QED BY <1>1, <1>2

LEMMA RerunReturnsTimely == IInv /\ LInv /\ RerunReturns /\ ~OutOfOrder => LInv'
<1> SUFFICES ASSUME IInv, LInv, RerunReturns, ~OutOfOrder
             PROVE  LInv'
  OBVIOUS
<1>0. Executing /\ current.output = workflow.errorOutput[Node]
  BY NodeExecuted DEF RerunReturns
<1>1. CASE current.try + 1 = workflow.maxTries[Node]
  BY <1>0, <1>1, OutputsKeep, ContinueTimely DEF RerunReturns
<1>2. CASE current.try + 1 # workflow.maxTries[Node]
  <2>1. /\ current' = [current EXCEPT !.try = @ + 1]
        /\ UNCHANGED <<workflow, executionData, runData, status, result, retries, consumed>>
    BY <1>2 DEF RerunReturns
  <2>2. current' = [item |-> current.item, run |-> current.run, try |-> current.try + 1,
                    output |-> current.output]
    BY <1>0, <2>1, NodeExecuted
  <2> QED BY <1>0, <2>1, <2>2, OnceMoreTimely
<1> QED BY <1>1, <1>2

LEMMA StepsInTime ==
    ASSUME IInv, LInv, [Next]_vars, [~OutOfOrder]_vars
    PROVE  LInv'
<1>1. CASE UNCHANGED vars
  <2>1. Held' = Held
    BY <1>1 DEF Held, vars
  <2> QED BY <1>1, <2>1, UnmovedTimely DEF vars
<1> SUFFICES ASSUME Next, ~OutOfOrder
             PROVE  LInv'
  BY <1>1
<1>2. CASE TakeNode
  BY <1>2, TakeNodeTimely
<1>3. CASE Finish
  <2>1. Held' = Held
    BY <1>3 DEF Held, Finish
  <2> QED BY <1>3, <2>1, UnmovedTimely DEF Finish
<1>4. CASE NodeSucceeds
  <2>1. PICK outputs \in SUBSET Outputs(Node) : Executing /\ Continue(Given(outputs))
    BY <1>4 DEF NodeSucceeds
  <2>2. Given(outputs) \in SUBSET (Outputs(Node) \cup {workflow.errorOutput[Node]})
    BY <2>1, OutputsKeep
  <2> QED BY <2>1, <2>2, ContinueTimely
<1>5. CASE NodeDisabled
  <2>1. Executing /\ Continue(Given(PassedThrough))
    BY <1>5 DEF NodeDisabled
  <2>2. Given(PassedThrough) \in SUBSET (Outputs(Node) \cup {workflow.errorOutput[Node]})
    BY <2>1, OutputsKeep
  <2> QED BY <2>1, <2>2, ContinueTimely
<1>6. CASE NodeReturnsNull
  BY <1>6, NodeReturnsNullTimely
<1>7. CASE NodeWaits
  BY <1>7, BreakTimely DEF NodeWaits
<1>8. CASE NodeThrows
  BY <1>8, NodeThrowsTimely
<1>9. CASE NodeEmitsError
  BY <1>9, NodeEmitsErrorTimely
<1>10. CASE RerunReturns
  BY <1>10, RerunReturnsTimely
<1>11. CASE Cancel
  <2>1. Held' = Held
    BY <1>11 DEF Held, Cancel
  <2> QED BY <1>11, <2>1, UnmovedTimely DEF Cancel
<1>12. CASE Resume
  BY <1>12, ResumeTimely
<1>13. CASE Retry
  <2>1. Held' = Held
    BY <1>13 DEF Held, Retry
  <2> QED BY <1>13, <2>1, UnmovedTimely DEF Retry
<1> QED BY <1>2, <1>3, <1>4, <1>5, <1>6, <1>7, <1>8, <1>9, <1>10, <1>11, <1>12, <1>13
        DEF Next, EngineStep

LEMMA InitTimely == Init => LInv
<1> SUFFICES ASSUME Init
             PROVE  LInv
  OBVIOUS
<1> DEFINE item == Item(workflow.start, [i \in {1} |-> {<<workflow.start, 0, 0>>}],
                        [i \in {1} |-> NoData])
<1>1. /\ executionData.stack = <<item>> /\ Held = <<>> /\ consumed = <<>>
      /\ \A n \in Nodes : executionData.waiting[n] = <<>>
  BY DEF Init, Held
<1>2. \A i : ~Lacks(item, i)
  <2>1. DOMAIN item.main = {1} /\ item.main[1] # {}
    BY DEF Item
  <2> HIDE DEF item
  <2> QED BY <2>1 DEF Lacks, Has
<1> HIDE DEF item
<1>3. /\ ToSet(executionData.stack) \cup ToSet(Held) = {item} /\ ToSet(consumed) = {}
      /\ DOMAIN consumed = {} /\ \A n \in Nodes : DOMAIN executionData.waiting[n] = {}
  BY <1>1, ToSetOne, EmptySeq, LenProperties
<1>4. NestedData(executionData)
  BY <1>3 DEF NestedData, Nested
<1>5. InTime(executionData, {item}, {})
  BY <1>2 DEF InTime
<1>6. LaterLacks(consumed)
  BY <1>3 DEF LaterLacks
<1> QED BY <1>3, <1>4, <1>5, <1>6 DEF LInv, Timely

LEMMA TimelyIs == IInv /\ LInv => NoLateData
<1> SUFFICES ASSUME IInv, LInv, Acyclic, NEW j \in DOMAIN consumed,
                    NEW i \in Inputs(consumed[j].node), Lacks(consumed[j], i)
             PROVE  /\ \A k \in DOMAIN consumed :
                          k > j /\ consumed[k].node = consumed[j].node => Lacks(consumed[k], i)
                    /\ \A items \in {executionData.stack, Held} : \A k \in DOMAIN items :
                          items[k].node = consumed[j].node => Lacks(items[k], i)
                    /\ \A k \in DOMAIN executionData.waiting[consumed[j].node] :
                          executionData.waiting[consumed[j].node][k].main[i] = NoData
  BY DEF NoLateData
<1> DEFINE n == consumed[j].node
           active == ToSet(executionData.stack) \cup ToSet(Held)
<1>1. DOMAIN consumed \subseteq Nat
  <2>1. consumed \in Seq(Items)
    BY ItemLists DEF IInv, ItemsSound
  <2> QED BY <2>1, LenProperties
<1>2. consumed[j] \in ToSet(consumed) /\ n \in Nodes
  <2>1. consumed[j] \in ToSet(consumed)
    BY DEF ToSet
  <2> QED BY <2>1 DEF IInv, ItemsSound, AreItems, IsItem
<1>3. Settled(executionData, active, n, i)
  BY <1>2 DEF LInv, Timely, InTime
<1>4. ASSUME NEW k \in DOMAIN consumed, k > j, consumed[k].node = n
      PROVE  Lacks(consumed[k], i)
  <2>1. j < k
    BY <1>1, <1>4
  <2> QED BY <1>4, <2>1 DEF LInv, Timely, LaterLacks
<1>5. \A items \in {executionData.stack, Held} : \A k \in DOMAIN items : items[k] \in active
  BY DEF ToSet
<1> HIDE DEF active
<1>6. \A items \in {executionData.stack, Held} : \A k \in DOMAIN items :
          items[k].node = n => Lacks(items[k], i)
  BY <1>3, <1>5 DEF Settled
<1> QED BY <1>3, <1>4, <1>6 DEF Settled

\* In every workflow without loops, a node that was executed without data for an
\* input gets none for it later, whatever the nodes return and throw: data comes
\* late only where a new entry of a node with more than two inputs, whose index is
\* the number of entries, is put before one there is.
THEOREM NoLateDataElse == Spec /\ [][~OutOfOrder]_vars => []NoLateData
<1>1. IInv /\ LInv /\ [Next]_vars /\ [~OutOfOrder]_vars => LInv'
  BY StepsInTime
<1> QED BY <1>1, InitTimely, TimelyIs, Invariance, PTL DEF Spec

\* In a workflow without loops whose nodes have two inputs at most, a node that was
\* executed without data for an input never gets data for it later: the search for
\* waiting nodes executes none too early.
THEOREM NoLateDataOfTwo ==
    Spec => []((\A n \in Nodes : Cardinality(Inputs(n)) <= 2) => NoLateData)
<1> DEFINE Narrow == \A n \in Nodes : Cardinality(Inputs(n)) <= 2
           Inv == Narrow => LInv
<1>1. Init => Inv
  BY InitTimely
<1>2. IInv /\ Inv /\ [Next]_vars => Inv'
  <2> SUFFICES ASSUME IInv, Inv, [Next]_vars, Narrow'
               PROVE  LInv'
    OBVIOUS
  <2>1. Narrow
    BY SameWorkflow, SameGraph
  <2>2. ~OutOfOrder
    <3>1. \A data, c : c \in Connections => ~Displaces(data, c)
      <4> SUFFICES ASSUME NEW c \in Connections
                   PROVE  ~(Cardinality(Inputs(c.to)) > 2)
        BY DEF Displaces
      <4>1. c.to \in Nodes /\ IsFiniteSet(Inputs(c.to))
        BY ConnectionFacts, FiniteInputs DEF IInv
      <4> QED BY <2>1, <4>1, FS_CardinalityType
    <3>2. \A k \in 1..Len(workflow.connections) : workflow.connections[k] \in Connections
      BY PassedSteps DEF IInv
    <3> QED BY <3>1, <3>2 DEF OutOfOrder, Displacing
  <2> QED BY <2>1, <2>2, StepsInTime
<1>3. IInv /\ Inv => (Narrow => NoLateData)
  BY TimelyIs
<1> QED BY <1>1, <1>2, <1>3, Invariance, PTL DEF Spec

-------------------------------------------------------------------------------
(***************************************************************************)
(* Workflows whose nodes are executed once.                                *)
(***************************************************************************)

\* No loops, no connection to the start, and one connection to each input.
SingleFed ==
    /\ Acyclic /\ Inputs(workflow.start) = {} /\ IsInjective(workflow.connections)
    /\ \A c, d \in Connections : c.to = d.to /\ c.input = d.input => c = d

NodesOf(items) == { item.node : item \in items }
Distinct(items) == \A j, k \in DOMAIN items : items[j].node = items[k].node => j = k

\* A node is on the stack, held, done or waiting, and that once.
Once(data, held, done) ==
    /\ Distinct(data.stack)
    /\ NodesOf(ToSet(data.stack)) \cap NodesOf(held) = {}
    /\ NodesOf(ToSet(data.stack) \cup held) \cap NodesOf(done) = {}
    /\ \A n \in Nodes : n \in NodesOf((ToSet(data.stack) \cup held) \cup done)
                            => DOMAIN data.waiting[n] = {}
    /\ \A n \in Nodes : \A k, l \in DOMAIN data.waiting[n] : k = l

\* Nothing came along a connection.
Unfed(data, items, d) ==
    /\ \A k \in DOMAIN data.waiting[d.to] : data.waiting[d.to][k].main[d.input] = NoData
    /\ \A item \in items : item.node = d.to => Lacks(item, d.input)

Fed(data, items, nodes) == \A d \in Connections : d.from \notin nodes => Unfed(data, items, d)

LEMMA DistinctPushed ==
    ASSUME NEW items \in Seq(Items), Distinct(items), NEW item \in Items,
           item.node \notin NodesOf(ToSet(items))
    PROVE  Distinct(<<item>> \o items)
<1> DEFINE new == <<item>> \o items
<1>1. /\ Len(items) \in Nat /\ DOMAIN items = 1..Len(items) /\ Len(new) = Len(items) + 1
      /\ DOMAIN new = 1..(Len(items) + 1) /\ new[1] = item
      /\ \A k \in 2..(Len(items) + 1) : new[k] = items[k - 1]
  <2>1. <<item>> \in Seq(Items) /\ Len(<<item>>) = 1 /\ <<item>>[1] = item
    OBVIOUS
  <2>2. /\ new \in Seq(Items) /\ Len(items) \in Nat /\ Len(new) = 1 + Len(items)
        /\ \A k \in 1..(1 + Len(items)) :
               new[k] = IF k <= 1 THEN <<item>>[k] ELSE items[k - 1]
    BY <2>1, ConcatProperties, LenProperties
  <2>3. DOMAIN new = 1..Len(new) /\ DOMAIN items = 1..Len(items)
    BY <2>2, LenProperties
  <2> HIDE DEF new
  <2> QED BY <2>1, <2>2, <2>3
<1> HIDE DEF new
<1>2. \A k \in 1..(Len(items) + 1) :
          \/ k = 1 /\ new[k] = item
          \/ k - 1 \in 1..Len(items) /\ new[k] = items[k - 1] /\ new[k].node \in NodesOf(ToSet(items))
  <2> SUFFICES ASSUME NEW k \in 1..(Len(items) + 1), k # 1
               PROVE  k - 1 \in 1..Len(items) /\ new[k] = items[k - 1]
                      /\ new[k].node \in NodesOf(ToSet(items))
    BY <1>1
  <2>1. k - 1 \in 1..Len(items) /\ new[k] = items[k - 1]
    BY <1>1
  <2> QED BY <1>1, <2>1 DEF NodesOf, ToSet
<1>3. ASSUME NEW j \in 1..(Len(items) + 1), NEW k \in 1..(Len(items) + 1), new[j].node = new[k].node
      PROVE  j = k
  <2>1. j = 1 <=> k = 1
    BY <1>2, <1>3
  <2>2. CASE j # 1
    <3>1. /\ j - 1 \in DOMAIN items /\ k - 1 \in DOMAIN items
          /\ items[j - 1].node = items[k - 1].node
      BY <1>1, <1>2, <1>3, <2>1, <2>2
    <3>2. j - 1 = k - 1
      BY <3>1 DEF Distinct
    <3> QED BY <1>1, <3>2
  <2> QED BY <2>1, <2>2
<1> QED BY <1>1, <1>3 DEF Distinct, new

LEMMA DistinctTaken ==
    ASSUME NEW items \in Seq(Items), items # <<>>, Distinct(items)
    PROVE  /\ Distinct(Tail(items)) /\ Head(items).node \notin NodesOf(ToSet(Tail(items)))
           /\ ToSet(items) = ToSet(Tail(items)) \cup {Head(items)}
<1> DEFINE tail == Tail(items)
<1>1. /\ Len(items) \in Nat \ {0} /\ DOMAIN items = 1..Len(items)
      /\ DOMAIN tail = 1..(Len(items) - 1) /\ Head(items) = items[1]
      /\ \A k \in 1..(Len(items) - 1) : tail[k] = items[k + 1]
  <2>1. Len(items) \in Nat \ {0} /\ DOMAIN items = 1..Len(items)
    BY LenProperties, EmptySeq
  <2>2. /\ Head(items) = items[1] /\ tail \in Seq(Items) /\ Len(tail) = Len(items) - 1
        /\ \A k \in 1..(Len(items) - 1) : tail[k] = items[k + 1]
    BY <2>1, HeadTailProperties
  <2> QED BY <2>1, <2>2, LenProperties
<1>2. \A k \in 1..(Len(items) - 1) : k + 1 \in 1..Len(items) /\ k + 1 # 1 /\ 1 \in 1..Len(items)
  BY <1>1
<1> HIDE DEF tail
<1>3. Distinct(tail)
  <2> SUFFICES ASSUME NEW j \in 1..(Len(items) - 1), NEW k \in 1..(Len(items) - 1),
                      tail[j].node = tail[k].node
               PROVE  j = k
    BY <1>1 DEF Distinct
  <2>1. j + 1 = k + 1
    BY <1>1, <1>2 DEF Distinct
  <2> QED BY <1>1, <2>1
<1>4. \A k \in 1..(Len(items) - 1) : tail[k].node # Head(items).node
  BY <1>1, <1>2 DEF Distinct
<1>5. \A k \in 1..Len(items) : k = 1 \/ (k - 1 \in 1..(Len(items) - 1) /\ (k - 1) + 1 = k)
  BY <1>1
<1>6. ToSet(items) = ToSet(tail) \cup {Head(items)}
  <2>1. ToSet(tail) = { tail[k] : k \in 1..(Len(items) - 1) }
    BY <1>1 DEF ToSet
  <2>2. ToSet(items) = { items[k] : k \in 1..Len(items) }
    BY <1>1 DEF ToSet
  <2>3. \A k \in 1..(Len(items) - 1) : tail[k] \in ToSet(items)
    BY <1>1, <1>2, <2>2
  <2>4. items[1] \in ToSet(items)
    BY <1>1, <2>2
  <2>5. \A k \in 1..Len(items) : items[k] \in ToSet(tail) \cup {items[1]}
    <3> SUFFICES ASSUME NEW k \in 1..Len(items), k # 1
                 PROVE  items[k] \in ToSet(tail)
      OBVIOUS
    <3>1. k - 1 \in 1..(Len(items) - 1) /\ tail[k - 1] = items[k]
      BY <1>1, <1>5
    <3> QED BY <2>1, <3>1
  <2> QED BY <1>1, <2>1, <2>2, <2>3, <2>4, <2>5
<1> QED BY <1>1, <1>3, <1>4, <1>6 DEF NodesOf, ToSet, tail

\* An item is put on the stack, of a node that was nowhere.
LEMMA PushedOnce ==
    ASSUME NEW data, Sound(data), NEW held, NEW done, Once(data, held, done), NEW n \in Nodes,
           n \notin NodesOf((ToSet(data.stack) \cup held) \cup done),
           NEW new, NEW main, Pushes(data, new, n, main), Keeps(data, new, n),
           DOMAIN new.waiting[n] = {}
    PROVE  Once(new, held, done)
<1>1. PICK item : IsItem(item) /\ item.node = n /\ new.stack = <<item>> \o data.stack
  BY DEF Pushes
<1>2. data.stack \in Seq(Items) /\ item \in Items
  BY <1>1, SoundStack, ItemSet
<1>3. ToSet(new.stack) = ToSet(data.stack) \cup {item}
  BY <1>1, <1>2, Pushed
<1>4. Distinct(new.stack)
  <2>1. item.node \notin NodesOf(ToSet(data.stack))
    BY <1>1 DEF NodesOf
  <2> QED BY <1>1, <1>2, <2>1, DistinctPushed DEF Once
<1>5. NodesOf(ToSet(new.stack)) \cap NodesOf(held) = {}
  BY <1>1, <1>3 DEF Once, NodesOf
<1>6. NodesOf(ToSet(new.stack) \cup held) \cap NodesOf(done) = {}
  BY <1>1, <1>3 DEF Once, NodesOf
<1>7. ASSUME NEW m \in Nodes, m \in NodesOf((ToSet(new.stack) \cup held) \cup done)
      PROVE  DOMAIN new.waiting[m] = {}
  <2>1. m = n \/ m \in NodesOf((ToSet(data.stack) \cup held) \cup done)
    BY <1>1, <1>3, <1>7 DEF NodesOf
  <2> QED BY <2>1 DEF Once, Keeps
<1>8. \A m \in Nodes : \A k, l \in DOMAIN new.waiting[m] : k = l
  BY DEF Once, Keeps
<1> QED BY <1>4, <1>5, <1>6, <1>7, <1>8 DEF Once

\* What a node gives along a connection that was not followed yet.
LEMMA AddOnce ==
    ASSUME Known, SingleFed, NEW data, Sound(data), NEW c \in Connections, NEW run \in 0..MaxRuns,
           NEW held, NEW done, \E item \in held : item.node = c.from, Once(data, held, done),
           InTime(data, ToSet(data.stack) \cup held, done),
           Unfed(data, (ToSet(data.stack) \cup held) \cup done, c),
           NEW new, new = AddNodeToBeExecuted(data, c, run)
    PROVE  /\ ~Refills(data, c) /\ ~Displaces(data, c) /\ Once(new, held, done)
           /\ \A d \in Connections :
                 d # c /\ Unfed(data, (ToSet(data.stack) \cup held) \cup done, d)
                     => Unfed(new, (ToSet(new.stack) \cup held) \cup done, d)
<1> DEFINE n == c.to
           entries == data.waiting[n]
           index == IndexFor(data, c)
           main == MainFor(data, c, run)
           items == (ToSet(data.stack) \cup held) \cup done
<1>1. /\ n \in Nodes /\ c.input \in Inputs(n) /\ c.from \in Parents(workflow, n)
      /\ EntriesSound(n, entries) /\ \A k, l \in DOMAIN entries : k = l
  BY ConnectionFacts, SoundEntries DEF Parents, Connections, Once
<1>2. n \notin NodesOf(items)
  <2> SUFFICES ASSUME NEW x \in items, x.node = n
               PROVE  FALSE
    BY DEF NodesOf
  <2>1. Lacks(x, c.input)
    BY DEF Unfed
  <2>2. Settled(data, ToSet(data.stack) \cup held, n, c.input)
    BY <1>1, <2>1 DEF InTime
  <2>3. c.from \notin ParentNodes(n)
    BY <2>2 DEF Settled
  <2> QED BY <1>1, <2>3, BeforeAcyclic DEF SingleFed
<1>3. \A k \in DOMAIN entries : entries[k].main[c.input] = NoData
  BY DEF Unfed
<1>4. DOMAIN entries # {} => index \in DOMAIN entries
  <2> DEFINE lacking == { k \in DOMAIN entries : entries[k].main[c.input] = NoData }
  <2>1. lacking = DOMAIN entries
    BY <1>3
  <2>2. DOMAIN entries # {} => index = Smallest(lacking)
    BY <2>1 DEF IndexFor, EntryIndex
  <2>3. DOMAIN entries \in SUBSET Nat
    BY <1>1 DEF EntriesSound
  <2> HIDE DEF lacking, entries, index
  <2> QED BY <2>1, <2>2, <2>3, SmallestIs
<1>5. ~Refills(data, c) /\ ~Displaces(data, c)
  BY <1>3 DEF Refills, Displaces
<1>6. /\ Keeps(data, new, n)
      /\ \/ AddsItem(data, new, c, run)
         \/ AddsWhole(data, new, c, run)
         \/ AddsEntry(data, new, c, run)
  BY AddDoes
<1>7. ASSUME NEW j \in Inputs(n), j # c.input,
             \A k \in DOMAIN entries : entries[k].main[j] = NoData
      PROVE  IsMerge(n) /\ main[j] = NoData
  <2>1. IsMerge(n)
    BY <1>1, <1>7, TwoInputs DEF IsMerge
  <2>2. main[j] = EntryFor(data, c).main[j]
    BY <1>7, MainIs
  <2>3. EntryFor(data, c).main[j] = NoData
    <3>1. \/ index \in DOMAIN entries /\ EntryFor(data, c) = entries[index]
          \/ EntryFor(data, c) = [main |-> Nothing(n), source |-> Nothing(n)]
      BY DEF EntryFor
    <3>2. CASE index \in DOMAIN entries /\ EntryFor(data, c) = entries[index]
      BY <1>7, <3>2
    <3>3. CASE EntryFor(data, c) = [main |-> Nothing(n), source |-> Nothing(n)]
      BY <3>3 DEF Nothing
    <3> QED BY <3>1, <3>2, <3>3
  <2> QED BY <2>1, <2>2, <2>3
<1>8. \A d \in Connections : d # c /\ d.to = n => d.input \in Inputs(n) /\ d.input # c.input
  <2>1. \A d \in Connections : d.input \in Inputs(d.to)
    BY ConnectionFacts
  <2> QED BY <2>1 DEF SingleFed
<1>9. CASE AddsItem(data, new, c, run)
  <2>1. ~IsMerge(n) /\ new.waiting[n] = entries
        /\ Pushes(data, new, n, [i \in Inputs(n) |-> {<<c.from, run, c.output>>}])
    BY <1>9 DEF AddsItem
  <2>2. DOMAIN entries = {}
    <3> SUFFICES ASSUME NEW k \in DOMAIN entries
                 PROVE  FALSE
      OBVIOUS
    <3>1. entries[k] \in Entries(n)
      BY <1>1 DEF EntriesSound
    <3>2. \E j \in Inputs(n) : entries[k].main[j] # NoData
      BY <3>1 DEF Entries
    <3>3. PICK j \in Inputs(n) : entries[k].main[j] # NoData
      BY <3>2
    <3>4. j # c.input
      BY <1>3, <3>3
    <3> QED BY <1>1, <2>1, <3>4, TwoInputs DEF IsMerge
  <2> DEFINE given == [i \in Inputs(n) |-> {<<c.from, run, c.output>>}]
  <2>3. Pushes(data, new, n, given)
    BY <2>1
  <2> HIDE DEF given
  <2>4. Once(new, held, done)
    BY <1>1, <1>2, <1>6, <2>1, <2>2, <2>3, PushedOnce
  <2>5. ASSUME NEW d \in Connections, d # c, Unfed(data, items, d)
        PROVE  Unfed(new, (ToSet(new.stack) \cup held) \cup done, d)
    <3>1. d.to # n
      <4> SUFFICES ASSUME d.to = n
                   PROVE  FALSE
        OBVIOUS
      <4>1. d.input \in Inputs(n) /\ d.input # c.input
        BY <1>8, <2>5
      <4> QED BY <1>1, <2>1, <4>1, TwoInputs DEF IsMerge
    <3>2. new.waiting[d.to] = data.waiting[d.to]
      BY <1>6, <3>1, ConnectionFacts DEF Keeps
    <3>3. \A x \in (ToSet(new.stack) \cup held) \cup done : x \in items \/ x.node = n
      BY <2>3, PushedItems
    <3> QED BY <2>5, <3>1, <3>2, <3>3 DEF Unfed
  <2> QED BY <1>5, <2>4, <2>5
<1>10. CASE AddsWhole(data, new, c, run)
  <2>1. /\ \A i \in Inputs(n) : main[i] # NoData
        /\ new.waiting[n] = Without(entries, index) /\ Pushes(data, new, n, main)
    BY <1>10 DEF AddsWhole
  <2>2. DOMAIN new.waiting[n] = {}
    <3>1. DOMAIN new.waiting[n] = DOMAIN entries \ {index}
      BY <2>1 DEF Without
    <3> QED BY <1>1, <1>4, <3>1
  <2> HIDE DEF main
  <2>4. Once(new, held, done)
    BY <1>1, <1>2, <1>6, <2>1, <2>2, PushedOnce
  <2>5. ASSUME NEW d \in Connections, d # c, Unfed(data, items, d)
        PROVE  Unfed(new, (ToSet(new.stack) \cup held) \cup done, d)
    <3>1. d.to # n
      <4> SUFFICES ASSUME d.to = n
                   PROVE  FALSE
        OBVIOUS
      <4>1. d.input \in Inputs(n) /\ d.input # c.input
        BY <1>8, <2>5
      <4>2. \A k \in DOMAIN entries : entries[k].main[d.input] = NoData
        BY <2>5 DEF Unfed
      <4> QED BY <1>7, <2>1, <4>1, <4>2 DEF main
    <3>2. new.waiting[d.to] = data.waiting[d.to]
      BY <1>6, <3>1, ConnectionFacts DEF Keeps
    <3>3. \A x \in (ToSet(new.stack) \cup held) \cup done : x \in items \/ x.node = n
      BY <2>1, PushedItems
    <3> QED BY <2>5, <3>1, <3>2, <3>3 DEF Unfed
  <2> QED BY <1>5, <2>4, <2>5
<1>11. CASE AddsEntry(data, new, c, run)
  <2>1. PICK entry \in Entries(n) :
            /\ new.stack = data.stack /\ entry.main = main
            /\ new.waiting[n] = With(entries, index, entry)
    BY <1>11 DEF AddsEntry
  <2>2. /\ DOMAIN new.waiting[n] = DOMAIN entries \cup {index} /\ new.waiting[n][index] = entry
        /\ \A k \in DOMAIN entries : k # index => new.waiting[n][k] = entries[k]
    BY <2>1 DEF With
  <2>3. DOMAIN new.waiting[n] = {index}
    BY <1>1, <1>4, <2>2
  <2>4. Once(new, held, done)
    <3>1. \A m \in Nodes : m # n => new.waiting[m] = data.waiting[m]
      BY <1>6 DEF Keeps
    <3>2. \A m \in Nodes : m \in NodesOf(items) => DOMAIN new.waiting[m] = {}
      BY <1>2, <3>1 DEF Once
    <3>3. \A m \in Nodes : \A k, l \in DOMAIN new.waiting[m] : k = l
      BY <2>3, <3>1 DEF Once
    <3> QED BY <2>1, <3>2, <3>3 DEF Once
  <2>5. ASSUME NEW d \in Connections, d # c, Unfed(data, items, d)
        PROVE  Unfed(new, (ToSet(new.stack) \cup held) \cup done, d)
    <3>1. CASE d.to # n
      <4>1. new.waiting[d.to] = data.waiting[d.to]
        BY <1>6, <3>1, ConnectionFacts DEF Keeps
      <4> QED BY <2>1, <2>5, <4>1 DEF Unfed
    <3>2. CASE d.to = n
      <4>1. d.input \in Inputs(n) /\ d.input # c.input
        BY <1>8, <2>5, <3>2
      <4>2. \A k \in DOMAIN entries : entries[k].main[d.input] = NoData
        BY <2>5, <3>2 DEF Unfed
      <4>3. main[d.input] = NoData
        BY <1>7, <4>1, <4>2
      <4> HIDE DEF main, entries, index
      <4>4. \A k \in DOMAIN new.waiting[n] : new.waiting[n][k].main[d.input] = NoData
        BY <2>1, <2>2, <2>3, <4>3
      <4> QED BY <2>1, <2>5, <3>2, <4>4 DEF Unfed
    <3> QED BY <3>1, <3>2
  <2> QED BY <1>5, <2>4, <2>5
<1> QED BY <1>6, <1>9, <1>10, <1>11

LEMMA ServeOnce ==
    ASSUME Known, NEW data, Sound(data), NEW held, NEW done, Once(data, held, done), NEW nodes,
           Fed(data, (ToSet(data.stack) \cup held) \cup done, nodes),
           NEW new, new = ServeWaiting(data)
    PROVE  /\ Once(new, held, done)
           /\ Fed(new, (ToSet(new.stack) \cup held) \cup done, nodes)
<1>1. new = data \/ \E n \in Nodes : Serves(data, new, n)
  BY ServeDoes
<1>2. ASSUME NEW n \in Nodes, Serves(data, new, n)
      PROVE  /\ Once(new, held, done)
             /\ Fed(new, (ToSet(new.stack) \cup held) \cup done, nodes)
  <2> DEFINE entries == data.waiting[n]
             index == FirstIndex(data, n)
             main == Completed(n, entries[index].main)
             items == (ToSet(data.stack) \cup held) \cup done
  <2>1. /\ index \in DOMAIN entries /\ Pushes(data, new, n, main) /\ Keeps(data, new, n)
        /\ new.waiting[n] = Without(entries, index)
    BY <1>2 DEF Serves
  <2>2. n \notin NodesOf(items)
    BY <2>1 DEF Once
  <2>3. DOMAIN new.waiting[n] = {}
    <3>1. DOMAIN new.waiting[n] = DOMAIN entries \ {index}
      BY <2>1 DEF Without
    <3> QED BY <2>1, <3>1 DEF Once
  <2>4. Once(new, held, done)
    <3> HIDE DEF main
    <3> QED BY <2>1, <2>2, <2>3, PushedOnce
  <2>5. PICK item : /\ item.node = n /\ item.main = main
                    /\ ToSet(new.stack) = ToSet(data.stack) \cup {item}
    BY <2>1, PushedItems
  <2>6. ASSUME NEW d \in Connections, Unfed(data, items, d)
        PROVE  Unfed(new, (ToSet(new.stack) \cup held) \cup done, d)
    <3>0. d.to \in Nodes /\ d.input \in Inputs(d.to)
      BY ConnectionFacts
    <3>1. CASE d.to # n
      <4>1. new.waiting[d.to] = data.waiting[d.to]
        BY <2>1, <3>0, <3>1 DEF Keeps
      <4> HIDE DEF main
      <4> QED BY <2>5, <2>6, <3>1, <4>1 DEF Unfed
    <3>2. CASE d.to = n
      <4>1. entries[index].main[d.input] = NoData
        BY <2>1, <2>6, <3>2 DEF Unfed
      <4>2. d.input \in DOMAIN main /\ main[d.input] = {}
        BY <3>0, <3>2, <4>1 DEF Completed
      <4>3. Lacks(item, d.input)
        BY <2>5, <4>2 DEF Lacks, Has
      <4> HIDE DEF main
      <4> QED BY <2>3, <2>5, <2>6, <3>2, <4>3 DEF Unfed
    <3> QED BY <3>1, <3>2
  <2>7. Fed(new, (ToSet(new.stack) \cup held) \cup done, nodes)
    BY <2>6 DEF Fed
  <2> QED BY <2>4, <2>7
<1> QED BY <1>1, <1>2

LEMMA PassedOnce ==
    ASSUME Known, SingleFed, NEW data, Sound(data), NEW n, NEW run, NEW outputs,
           outputs # {} => run \in 0..MaxRuns, NEW held, NEW done, NEW nodes,
           \E item \in held : item.node = n, n \notin nodes, Once(data, held, done),
           NestedData(data), InTime(data, ToSet(data.stack) \cup held, done),
           Fed(data, (ToSet(data.stack) \cup held) \cup done, nodes),
           NEW passed, passed = Passed(data, n, run, outputs)[Len(workflow.connections)]
    PROVE  /\ ~Overwriting(data, n, run, outputs) /\ ~Displacing(data, n, run, outputs)
           /\ Once(passed, held, done)
           /\ Fed(passed, (ToSet(passed.stack) \cup held) \cup done, nodes \cup {n})
<1> DEFINE size == Len(workflow.connections)
           f == Passed(data, n, run, outputs)
           Left(k, d) == d.from \notin nodes
                         /\ (d.from = n => \A j \in 1..k : workflow.connections[j] # d)
           Stage(x, k) ==
               /\ NestedData(x) /\ InTime(x, ToSet(x.stack) \cup held, done) /\ Once(x, held, done)
               /\ \A d \in Connections :
                     Left(k, d) => Unfed(x, (ToSet(x.stack) \cup held) \cup done, d)
           S == { k \in Nat : k \in 0..size => Stage(f[k], k) }
<1>1. /\ size \in Nat /\ f[0] = data
      /\ \A k \in 1..size :
            LET c == workflow.connections[k]
            IN  /\ c \in Connections
                /\ f[k] = IF c.from = n /\ c.output \in outputs
                          THEN AddNodeToBeExecuted(f[k - 1], c, run) ELSE f[k - 1]
  BY PassedSteps
<1>2. \A k \in 0..size : Sound(f[k])
  BY PassedKeeps
<1>3. \A j, k \in 1..size : workflow.connections[j] = workflow.connections[k] => j = k
  <2>1. DOMAIN workflow.connections = 1..size
    BY WorkflowsAssumption, LenProperties DEF Known
  <2> QED BY <2>1 DEF IsInjective, SingleFed
<1>4. Stage(data, 0)
  BY DEF Fed
<1> HIDE DEF f, size
<1>5. ASSUME NEW k \in Nat, k + 1 \in 0..size, Stage(f[k], k),
             Follows(workflow.connections[k + 1], n, outputs)
      PROVE  /\ ~Refills(f[k], workflow.connections[k + 1])
             /\ ~Displaces(f[k], workflow.connections[k + 1])
             /\ Stage(f[k + 1], k + 1)
  <2> DEFINE c == workflow.connections[k + 1]
             items == (ToSet(f[k].stack) \cup held) \cup done
  <2>1. k \in 0..size /\ k + 1 \in 1..size /\ (k + 1) - 1 = k
    BY <1>1, <1>5
  <2>2. c \in Connections /\ f[k + 1] = IF c.from = n /\ c.output \in outputs
                                        THEN AddNodeToBeExecuted(f[k], c, run) ELSE f[k]
    BY <1>1, <2>1
  <2>3. \A j \in 1..k : workflow.connections[j] # c
    <3>1. \A j \in 1..k : j \in 1..size /\ j # k + 1
      BY <1>1, <2>1
    <3> QED BY <1>3, <2>1, <3>1
  <2>4. Follows(c, n, outputs)
    BY <1>5
  <2>5. \A j \in 1..k : j \in 1..(k + 1)
    OBVIOUS
  <2>6. k + 1 \in 1..(k + 1)
    OBVIOUS
  <2>7. \A d \in Connections : Left(k + 1, d) => Left(k, d) /\ d # c
    <3> SUFFICES ASSUME NEW d \in Connections, Left(k + 1, d)
                 PROVE  Left(k, d) /\ d # c
      OBVIOUS
    <3>1. Left(k, d)
      BY <2>5
    <3>2. d # c
      <4>1. d = c => d.from = n
        BY <2>4 DEF Follows
      <4> QED BY <2>6, <4>1
    <3> QED BY <3>1, <3>2
  <2>a. Left(k, c)
    BY <2>3, <2>4 DEF Follows
  <2> HIDE DEF c, Left
  <2>8. /\ Sound(f[k]) /\ run \in 0..MaxRuns /\ f[k + 1] = AddNodeToBeExecuted(f[k], c, run)
        /\ \E item \in held : item.node = c.from
    BY <1>2, <2>1, <2>2, <2>4 DEF Follows
  <2>9. /\ NestedData(f[k]) /\ InTime(f[k], ToSet(f[k].stack) \cup held, done)
        /\ Once(f[k], held, done) /\ Unfed(f[k], items, c)
    BY <1>5, <2>2, <2>a
  <2>10. /\ ~Refills(f[k], c) /\ ~Displaces(f[k], c) /\ Once(f[k + 1], held, done)
         /\ \A d \in Connections : d # c /\ Unfed(f[k], items, d)
                => Unfed(f[k + 1], (ToSet(f[k + 1].stack) \cup held) \cup done, d)
    <3> DEFINE before == f[k]
               after == f[k + 1]
    <3>1. /\ Sound(before) /\ after = AddNodeToBeExecuted(before, c, run)
          /\ InTime(before, ToSet(before.stack) \cup held, done) /\ Once(before, held, done)
          /\ Unfed(before, (ToSet(before.stack) \cup held) \cup done, c)
      BY <2>8, <2>9
    <3> HIDE DEF before, after
    <3>2. /\ ~Refills(before, c) /\ ~Displaces(before, c) /\ Once(after, held, done)
          /\ \A d \in Connections :
                d # c /\ Unfed(before, (ToSet(before.stack) \cup held) \cup done, d)
                    => Unfed(after, (ToSet(after.stack) \cup held) \cup done, d)
      BY <2>2, <2>8, <3>1, AddOnce
    <3> QED BY <3>2 DEF before, after
  <2>11. NestedData(f[k + 1])
    BY <2>2, <2>8, <2>9, <2>10, AddNests
  <2>12. InTime(f[k + 1], ToSet(f[k + 1].stack) \cup held, done)
    BY <2>2, <2>8, <2>9, AddInTime DEF SingleFed
  <2>13. \A d \in Connections :
             Left(k + 1, d) => Unfed(f[k + 1], (ToSet(f[k + 1].stack) \cup held) \cup done, d)
    BY <1>5, <2>7, <2>10
  <2> QED BY <2>10, <2>11, <2>12, <2>13 DEF c
<1>6. ASSUME NEW k \in Nat, k + 1 \in 0..size, Stage(f[k], k),
             ~Follows(workflow.connections[k + 1], n, outputs)
      PROVE  Stage(f[k + 1], k + 1)
  <2>1. k + 1 \in 1..size /\ (k + 1) - 1 = k
    BY <1>1, <1>6
  <2>2. f[k + 1] = f[k]
    BY <1>1, <1>6, <2>1 DEF Follows
  <2>3. \A j \in 1..k : j \in 1..(k + 1)
    OBVIOUS
  <2>4. \A d : Left(k + 1, d) => Left(k, d)
    BY <2>3
  <2> HIDE DEF Left
  <2> QED BY <1>6, <2>2, <2>4
<1>7. \A k \in Nat : k \in S
  <2> HIDE DEF Stage
  <2>1. 0 \in S
    BY <1>1, <1>4
  <2>2. ASSUME NEW k \in Nat, k \in S
        PROVE  k + 1 \in S
    <3> SUFFICES ASSUME k + 1 \in 0..size
                 PROVE  Stage(f[k + 1], k + 1)
      OBVIOUS
    <3>1. k \in 0..size
      BY <1>1
    <3>2. Stage(f[k], k)
      BY <2>2, <3>1
    <3> QED BY <1>5, <1>6, <3>2
  <2> HIDE DEF S
  <2> QED BY <2>1, <2>2, Induct
<1>8. \A k \in 0..size : Stage(f[k], k)
  <2> HIDE DEF Stage
  <2>1. \A k \in 0..size : k \in Nat
    BY <1>1
  <2> QED BY <1>7, <2>1
<1>9. ASSUME NEW k \in 1..size, Follows(workflow.connections[k], n, outputs)
      PROVE  ~Refills(f[k - 1], workflow.connections[k]) /\ ~Displaces(f[k - 1], workflow.connections[k])
  <2>1. k - 1 \in Nat /\ k - 1 \in 0..size /\ (k - 1) + 1 = k /\ k \in 0..size
    BY <1>1
  <2> HIDE DEF Stage
  <2>2. Stage(f[k - 1], k - 1)
    BY <1>8, <2>1
  <2>3. (k - 1) + 1 \in 0..size /\ Follows(workflow.connections[(k - 1) + 1], n, outputs)
    BY <1>9, <2>1
  <2>4. /\ ~Refills(f[k - 1], workflow.connections[(k - 1) + 1])
        /\ ~Displaces(f[k - 1], workflow.connections[(k - 1) + 1])
    BY <1>5, <2>1, <2>2, <2>3
  <2> QED BY <2>1, <2>4
<1>10. ~Overwriting(data, n, run, outputs) /\ ~Displacing(data, n, run, outputs)
  BY <1>9 DEF Overwriting, Displacing, f, size
<1>11. Stage(f[size], size)
  <2>1. size \in 0..size
    BY <1>1
  <2> HIDE DEF Stage
  <2> QED BY <1>8, <2>1
<1>12. passed = f[size]
  BY DEF f, size
<1>13. Fed(passed, (ToSet(passed.stack) \cup held) \cup done, nodes \cup {n})
  <2>1. \A d : d.from \notin nodes \cup {n} => Left(size, d)
    OBVIOUS
  <2> HIDE DEF Left
  <2> QED BY <1>11, <1>12, <2>1 DEF Fed
<1> QED BY <1>10, <1>11, <1>12, <1>13

\* The invariant: nodes are executed once, and what comes from a node that is not
\* done is nowhere.
Single(data, held, done) ==
    /\ Once(data, ToSet(held), ToSet(done))
    /\ Fed(data, (ToSet(data.stack) \cup ToSet(held)) \cup ToSet(done), NodesOf(ToSet(done)))

SInv == Single(executionData, Held, consumed)

LEMMA SameSingle ==
    ASSUME workflow' = workflow
    PROVE  /\ \A data, held, done : Single(data, held, done)' <=> Single(data, held, done)
           /\ SingleFed' <=> SingleFed
<1>1. Acyclic' <=> Acyclic
  BY SameGraph DEF Acyclic, Parents
<1>2. \A item, i : Lacks(item, i)' <=> Lacks(item, i)
  BY DEF Lacks, Has
<1>3. \A data, items, d : Unfed(data, items, d)' <=> Unfed(data, items, d)
  BY <1>2 DEF Unfed
<1>4. \A data, items, nodes : Fed(data, items, nodes)' <=> Fed(data, items, nodes)
  BY <1>3, SameGraph DEF Fed
<1>5. \A data, held, done : Once(data, held, done)' <=> Once(data, held, done)
  BY SameGraph DEF Once, Distinct, NodesOf
<1>6. \A data, held, done : Single(data, held, done)' <=> Single(data, held, done)
  BY <1>4, <1>5 DEF Single, NodesOf
<1>7. SingleFed' <=> SingleFed
  BY <1>1, SameGraph DEF SingleFed, IsInjective
<1> QED BY <1>6, <1>7

LEMMA StepSingle ==
    ASSUME workflow' = workflow, Single(executionData', Held', consumed')
    PROVE  SInv'
<1>1. Single(executionData, Held, consumed)'
  BY SameSingle
<1> QED BY <1>1 DEF SInv

\* Items move, and none is executed.
LEMMA MovedSingle ==
    ASSUME SInv, workflow' = workflow, consumed' = consumed,
           executionData'.waiting = executionData.waiting,
           \A x \in ToSet(executionData'.stack) \cup ToSet(Held') :
               \E y \in ToSet(executionData.stack) \cup ToSet(Held) :
                   y.node = x.node /\ y.main = x.main,
           Distinct(executionData'.stack),
           NodesOf(ToSet(executionData'.stack)) \cap NodesOf(ToSet(Held')) = {}
    PROVE  SInv'
<1> DEFINE before == ToSet(executionData.stack) \cup ToSet(Held)
           after == ToSet(executionData'.stack) \cup ToSet(Held')
           done == ToSet(consumed)
<1>1. /\ Once(executionData, ToSet(Held), done)
      /\ Fed(executionData, before \cup done, NodesOf(done)) /\ consumed' = consumed
      /\ \A x \in after : \E y \in before : y.node = x.node /\ y.main = x.main
  BY DEF SInv, Single
<1>2. NodesOf(after) \subseteq NodesOf(before) /\ NodesOf(after \cup done) \subseteq NodesOf(before \cup done)
  BY <1>1 DEF NodesOf
<1>3. Once(executionData', ToSet(Held'), done)
  BY <1>1, <1>2 DEF Once
<1>4. \A x, y, i : y.main = x.main => (Lacks(y, i) <=> Lacks(x, i))
  BY DEF Lacks, Has
<1>5. \A d : Unfed(executionData, before \cup done, d) => Unfed(executionData', after \cup done, d)
  <2> SUFFICES ASSUME NEW d, Unfed(executionData, before \cup done, d)
               PROVE  Unfed(executionData', after \cup done, d)
    OBVIOUS
  <2>1. ASSUME NEW x \in after \cup done, x.node = d.to
        PROVE  Lacks(x, d.input)
    <3>1. \E y \in before \cup done : y.node = d.to /\ y.main = x.main
      BY <1>1, <2>1
    <3> QED BY <1>4, <3>1 DEF Unfed
  <2> QED BY <2>1 DEF Unfed
<1>6. Fed(executionData', after \cup done, NodesOf(done))
  BY <1>1, <1>5 DEF Fed
<1>7. Single(executionData', Held', consumed')
  BY <1>3, <1>6 DEF Single
<1> QED BY <1>7, StepSingle

LEMMA UnmovedSingle ==
    ASSUME SInv, UNCHANGED <<workflow, executionData, consumed>>, Held' = Held
    PROVE  SInv'
BY MovedSingle DEF SInv, Single, Once

LEMMA TakeNodeSingle == IInv /\ SInv /\ TakeNode => SInv'
<1> SUFFICES ASSUME IInv, SInv, TakeNode
             PROVE  SInv'
  OBVIOUS
<1> DEFINE items == executionData.stack
           item == Head(items)
           stack == Tail(items)
<1>1. /\ current' = [item |-> item, run |-> Len(runData[item.node]), try |-> 1, output |-> 0]
      /\ executionData' = [executionData EXCEPT !.stack = stack]
      /\ items # <<>> /\ UNCHANGED <<workflow, consumed>>
  BY DEF TakeNode
<1>2. Held' = <<item>>
  BY <1>1, Idle DEF Held
<1>3. ItemsSound(stack) /\ items \in Seq(Items)
  BY <1>1, SoundStack, Taken DEF IInv
<1>4. executionData'.stack = stack /\ executionData'.waiting = executionData.waiting
  <2> HIDE DEF stack
  <2> QED BY <1>1, <1>3, StackKeeps DEF IInv
<1>5. /\ Distinct(stack) /\ item.node \notin NodesOf(ToSet(stack))
      /\ ToSet(items) = ToSet(stack) \cup {item}
  <2>1. Distinct(items)
    BY DEF SInv, Single, Once
  <2> HIDE DEF items
  <2> QED BY <1>1, <1>3, <2>1, DistinctTaken
<1> HIDE DEF item, stack
<1>6. NodesOf(ToSet(Held')) = {item.node} /\ ToSet(Held') = {item}
  BY <1>2, ToSetOne DEF NodesOf
<1>7. NodesOf(ToSet(executionData'.stack)) \cap NodesOf(ToSet(Held')) = {}
  BY <1>4, <1>5, <1>6
<1>8. \A x \in ToSet(executionData'.stack) \cup ToSet(Held') : x \in ToSet(items)
  BY <1>4, <1>5, <1>6
<1> QED BY <1>1, <1>4, <1>5, <1>7, <1>8, MovedSingle DEF items

LEMMA BreakSingle ==
    ASSUME IInv, SInv, Executing, NEW how \in {"waiting", "error"}, Break(how)
    PROVE  SInv'
<1>1. /\ executionData' = Push(executionData, current.item)
      /\ current' = NoItem /\ workflow' = workflow /\ consumed' = consumed
  BY DEF Break, Push
<1>2. /\ executionData'.stack = <<current.item>> \o executionData.stack
      /\ executionData'.waiting = executionData.waiting
  BY <1>1, NodeExecuted, PushKeeps DEF IInv
<1>3. executionData.stack \in Seq(Items) /\ current.item \in Items
  BY NodeExecuted, SoundStack, ItemSet DEF IInv
<1>4. ToSet(executionData'.stack) = ToSet(executionData.stack) \cup {current.item}
  BY <1>2, <1>3, Pushed
<1>5. ToSet(Held) = {current.item} /\ ToSet(Held') = {}
  BY <1>1, ToSetOne DEF Executing, Held
<1>6. current.item.node \notin NodesOf(ToSet(executionData.stack)) /\ Distinct(executionData.stack)
  BY <1>5 DEF SInv, Single, Once, NodesOf
<1>7. Distinct(executionData'.stack)
  BY <1>2, <1>3, <1>6, DistinctPushed
<1>8. NodesOf(ToSet(executionData'.stack)) \cap NodesOf(ToSet(Held')) = {}
  BY <1>5 DEF NodesOf
<1> QED BY <1>1, <1>2, <1>4, <1>5, <1>7, <1>8, MovedSingle

LEMMA ResumeSingle == IInv /\ SInv /\ Resume => SInv'
<1> SUFFICES ASSUME IInv, SInv, Resume
             PROVE  SInv'
  OBVIOUS
<1>1. result = "waiting" /\ UNCHANGED <<workflow, current, consumed>>
  BY DEF Resume
<1>2. /\ executionData'.waiting = executionData.waiting
      /\ DOMAIN executionData'.stack = DOMAIN executionData.stack
      /\ \A j \in DOMAIN executionData.stack :
            /\ executionData'.stack[j].node = executionData.stack[j].node
            /\ executionData'.stack[j].main = executionData.stack[j].main
  BY Resumed
<1>3. Held' = <<>>
  BY <1>1, HeadOfStack DEF Held
<1>4. ToSet(Held') = {} /\ NodesOf(ToSet(Held')) = {}
  BY <1>3, ToSetOne DEF NodesOf
<1>5. \A x \in ToSet(executionData'.stack) :
          \E y \in ToSet(executionData.stack) : y.node = x.node /\ y.main = x.main
  BY <1>2 DEF ToSet
<1>6. Distinct(executionData'.stack)
  BY <1>2 DEF SInv, Single, Once, Distinct
<1> QED BY <1>1, <1>2, <1>4, <1>5, <1>6, MovedSingle

\* A node is executed to the end.
LEMMA DoneOnce ==
    ASSUME NEW data, NEW item, NEW done, NEW nodes, Once(data, {item}, done),
           Fed(data, (ToSet(data.stack) \cup {item}) \cup done, nodes)
    PROVE  /\ Once(data, {}, done \cup {item})
           /\ Fed(data, (ToSet(data.stack) \cup {}) \cup (done \cup {item}), nodes)
<1>1. (ToSet(data.stack) \cup {item}) \cup done = (ToSet(data.stack) \cup {}) \cup (done \cup {item})
  OBVIOUS
<1>2. NodesOf({item}) = {item.node} /\ NodesOf({}) = {}
  BY DEF NodesOf
<1>3. \A S, T : NodesOf(S \cup T) = NodesOf(S) \cup NodesOf(T)
  BY DEF NodesOf
<1>4. Once(data, {}, done \cup {item})
  <2>1. NodesOf(ToSet(data.stack)) \cap NodesOf({}) = {}
    BY <1>2
  <2>2. NodesOf(ToSet(data.stack) \cup {}) \cap NodesOf(done \cup {item}) = {}
    BY <1>2, <1>3 DEF Once
  <2> QED BY <1>1, <2>1, <2>2 DEF Once
<1> QED BY <1>1, <1>4

LEMMA NodeReturnsNullSingle == IInv /\ LInv /\ SInv /\ NodeReturnsNull => SInv'
<1> SUFFICES ASSUME IInv, LInv, SInv, NodeReturnsNull
             PROVE  SInv'
  OBVIOUS
<1>1. /\ Executing /\ consumed' = Append(consumed, current.item) /\ current' = NoItem
      /\ UNCHANGED <<workflow, executionData>>
  BY DEF NodeReturnsNull
<1>2. /\ ToSet(Held) = {current.item} /\ ToSet(Held') = {}
      /\ ToSet(consumed') = ToSet(consumed) \cup {current.item}
  BY <1>1, DoneTimely, ToSetOne
<1>3. /\ Once(executionData, {current.item}, ToSet(consumed))
      /\ Fed(executionData, (ToSet(executionData.stack) \cup {current.item}) \cup ToSet(consumed),
             NodesOf(ToSet(consumed)))
  BY <1>2 DEF SInv, Single
<1>4. /\ Once(executionData', ToSet(Held'), ToSet(consumed'))
      /\ Fed(executionData', (ToSet(executionData'.stack) \cup ToSet(Held')) \cup ToSet(consumed'),
             NodesOf(ToSet(consumed)))
  <2>1. /\ Once(executionData, {}, ToSet(consumed) \cup {current.item})
        /\ Fed(executionData,
               (ToSet(executionData.stack) \cup {}) \cup (ToSet(consumed) \cup {current.item}),
               NodesOf(ToSet(consumed)))
    BY <1>3, DoneOnce
  <2> QED BY <1>1, <1>2, <2>1
<1>5. NodesOf(ToSet(consumed)) \subseteq NodesOf(ToSet(consumed'))
  BY <1>2 DEF NodesOf
<1>6. Single(executionData', Held', consumed')
  BY <1>4, <1>5 DEF Single, Fed
<1> QED BY <1>1, <1>6, StepSingle

\* What a node that is done passes on, and the run in which it does.
LEMMA Continues ==
    ASSUME IInv, Executing, NEW given \in SUBSET (Outputs(Node) \cup {workflow.errorOutput[Node]}),
           Continue(given)
    PROVE  LET outputs == runData'[Node][current.run + 1]
           IN  /\ outputs # {} => current.run \in 0..MaxRuns
               /\ executionData' = PassOn(executionData, Node, current.run, outputs)
               /\ consumed' = Append(consumed, current.item) /\ current' = NoItem
               /\ workflow' = workflow
<1> DEFINE outputs == IF current.run + 1 < MaxRuns THEN given ELSE {}
           Lists == SUBSET Nat
<1>1. /\ runData' = [runData EXCEPT ![Node] = Append(@, outputs)]
      /\ executionData' = PassOn(executionData, Node, current.run, outputs)
      /\ consumed' = Append(consumed, current.item) /\ current' = NoItem
      /\ workflow' = workflow
  BY DEF Continue
<1>2. outputs # {} => current.run \in 0..MaxRuns
  BY NodeExecuted, BoundsAssumption
<1>3. outputs \in Lists
  <2>1. outputs \subseteq Outputs(Node) \cup {workflow.errorOutput[Node]}
    OBVIOUS
  <2> QED BY <2>1, OutputNumbers, NodeExecuted
<1>4. Node \in Nodes /\ current.run = Len(runData[Node]) /\ runData[Node] \in Seq(Lists)
      /\ DOMAIN runData = Nodes
  BY NodeExecuted DEF IInv, RunsSound
<1> HIDE DEF outputs, Lists
<1>5. Append(runData[Node], outputs)[current.run + 1] = outputs
  BY <1>3, <1>4, AppendProperties
<1>6. runData'[Node] = Append(runData[Node], outputs)
  BY <1>1, <1>4
<1> QED BY <1>1, <1>2, <1>5, <1>6

LEMMA Breaks ==
    ASSUME IInv, Executing, NEW how, Break(how)
    PROVE  runData'[Node][current.run + 1] = {}
<1> DEFINE Lists == SUBSET Nat
           none == {}
<1>1. Node \in Nodes /\ current.run = Len(runData[Node]) /\ runData[Node] \in Seq(Lists)
      /\ none \in Lists /\ DOMAIN runData = Nodes
  BY NodeExecuted DEF IInv, RunsSound
<1>2. runData' = [runData EXCEPT ![Node] = Append(@, none)]
  BY DEF Break
<1> HIDE DEF none, Lists
<1>3. Append(runData[Node], none)[current.run + 1] = none
  BY <1>1, AppendProperties
<1>4. runData'[Node] = Append(runData[Node], none)
  BY <1>1, <1>2
<1> QED BY <1>3, <1>4 DEF none

\* A step that records a run of the node that is executed.
LEMMA RecordsRun ==
    ASSUME IInv, Next, Executing, runData' # runData
    PROVE  runData'[Node][current.run + 1] # {} => current.run \in 0..MaxRuns
<1>1. CASE NodeSucceeds
  <2>1. PICK outputs \in SUBSET Outputs(Node) : Continue(Given(outputs))
    BY <1>1 DEF NodeSucceeds
  <2> QED BY <2>1, OutputsKeep, Continues
<1>2. CASE NodeDisabled
  <2>1. Continue(Given(PassedThrough))
    BY <1>2 DEF NodeDisabled
  <2> QED BY <2>1, OutputsKeep, Continues
<1>3. CASE NodeWaits
  BY <1>3, Breaks DEF NodeWaits
<1>4. CASE NodeThrows
  <2>1. Continue(PassedThrough) \/ Break("error")
    BY <1>4 DEF NodeThrows, TriesAgain
  <2> QED BY <2>1, OutputsKeep, Continues, Breaks
<1>5. CASE NodeEmitsError
  <2>1. Continue(Given({workflow.errorOutput[Node]}))
    BY <1>5 DEF NodeEmitsError
  <2>2. Given({workflow.errorOutput[Node]}) \in SUBSET (Outputs(Node) \cup {workflow.errorOutput[Node]})
    BY OutputsKeep
  <2> QED BY <2>1, <2>2, Continues
<1>6. CASE RerunReturns
  <2>1. Continue(Given({current.output})) /\ current.output = workflow.errorOutput[Node]
    BY <1>6, NodeExecuted DEF RerunReturns
  <2>2. Given({current.output}) \in SUBSET (Outputs(Node) \cup {current.output})
    BY OutputsKeep
  <2> QED BY <2>1, <2>2, Continues
<1>7. CASE Resume \/ Retry
  BY <1>7 DEF Resume, Retry, Executing
<1>8. CASE TakeNode \/ Finish \/ NodeReturnsNull \/ Cancel
  BY <1>8 DEF TakeNode, Finish, NodeReturnsNull, Cancel
<1> QED BY <1>1, <1>2, <1>3, <1>4, <1>5, <1>6, <1>7, <1>8 DEF Next, EngineStep

\* The node that is executed, when nodes are executed once.
LEMMA HeldOnce ==
    ASSUME IInv, LInv, SInv, SingleFed, Executing
    PROVE  /\ Once(executionData, {current.item}, ToSet(consumed))
           /\ Node \notin NodesOf(ToSet(consumed)) /\ NestedData(executionData)
           /\ InTime(executionData, ToSet(executionData.stack) \cup {current.item}, ToSet(consumed))
           /\ Fed(executionData, (ToSet(executionData.stack) \cup {current.item}) \cup ToSet(consumed),
                  NodesOf(ToSet(consumed)))
<1>1. ToSet(Held) = {current.item}
  BY ToSetOne DEF Held, Executing
<1>2. /\ Once(executionData, {current.item}, ToSet(consumed))
      /\ Fed(executionData, (ToSet(executionData.stack) \cup {current.item}) \cup ToSet(consumed),
             NodesOf(ToSet(consumed)))
  BY <1>1 DEF SInv, Single
<1>3. Node \notin NodesOf(ToSet(consumed))
  BY <1>2 DEF Once, NodesOf, Node
<1>4. /\ NestedData(executionData)
      /\ InTime(executionData, ToSet(executionData.stack) \cup {current.item}, ToSet(consumed))
  BY <1>1 DEF LInv, Timely, SingleFed
<1> QED BY <1>2, <1>3, <1>4

LEMMA NothingInTheWay ==
    ASSUME IInv, LInv, SInv, SingleFed, Next
    PROVE  ~Overwrites /\ ~OutOfOrder
<1> SUFFICES ASSUME Executing, runData' # runData
             PROVE  LET outputs == runData'[Node][current.run + 1]
                    IN  /\ ~Overwriting(executionData, Node, current.run, outputs)
                        /\ ~Displacing(executionData, Node, current.run, outputs)
  BY DEF Overwrites, OutOfOrder
<1> DEFINE outputs == runData'[Node][current.run + 1]
           passed == Passed(executionData, Node, current.run, outputs)[Len(workflow.connections)]
<1>1. outputs # {} => current.run \in 0..MaxRuns
  BY RecordsRun
<1>2. \E item \in {current.item} : item.node = Node
  BY DEF Node
<1>3. Known /\ Sound(executionData)
  BY DEF IInv
<1>4. passed = Passed(executionData, Node, current.run, outputs)[Len(workflow.connections)]
  OBVIOUS
<1> HIDE DEF outputs, passed
<1>5. /\ ~Overwriting(executionData, Node, current.run, outputs)
      /\ ~Displacing(executionData, Node, current.run, outputs)
  BY <1>1, <1>2, <1>3, <1>4, HeldOnce, PassedOnce
<1> QED BY <1>5 DEF outputs

LEMMA ContinueSingle ==
    ASSUME IInv, LInv, SInv, SingleFed, Executing,
           NEW given \in SUBSET (Outputs(Node) \cup {workflow.errorOutput[Node]}), Continue(given)
    PROVE  SInv'
<1> DEFINE outputs == runData'[Node][current.run + 1]
           passed == Passed(executionData, Node, current.run, outputs)[Len(workflow.connections)]
           done == ToSet(consumed)
<1>1. /\ outputs # {} => current.run \in 0..MaxRuns
      /\ executionData' = PassOn(executionData, Node, current.run, outputs)
      /\ consumed' = Append(consumed, current.item) /\ current' = NoItem
      /\ workflow' = workflow
  BY Continues
<1>2. Known /\ Sound(executionData) /\ \E item \in {current.item} : item.node = Node
  BY DEF IInv, Node
<1>3. passed = Passed(executionData, Node, current.run, outputs)[Len(workflow.connections)]
  OBVIOUS
<1>4. executionData' = ServeWaiting(passed)
  BY <1>1 DEF PassOn
<1> HIDE DEF outputs, passed
<1>5. Sound(passed)
  <2>1. Len(workflow.connections) \in 0..Len(workflow.connections)
    BY <1>2, PassedSteps
  <2> QED BY <1>1, <1>2, <1>3, <2>1, PassedKeeps
<1>6. /\ Once(passed, {current.item}, done)
      /\ Fed(passed, (ToSet(passed.stack) \cup {current.item}) \cup done, NodesOf(done) \cup {Node})
  BY <1>1, <1>2, <1>3, HeldOnce, PassedOnce
<1> DEFINE doneAfter == done \cup {current.item}
<1>7. /\ Once(passed, {}, doneAfter)
      /\ Fed(passed, (ToSet(passed.stack) \cup {}) \cup doneAfter, NodesOf(done) \cup {Node})
  <2> HIDE DEF done
  <2> QED BY <1>6, DoneOnce
<1>8. NodesOf(doneAfter) = NodesOf(done) \cup {Node}
  BY DEF NodesOf, Node
<1>9. ToSet(Held') = {} /\ ToSet(consumed') = doneAfter
  BY <1>1, DoneTimely, ToSetOne
<1> HIDE DEF done, doneAfter
<1>10. /\ Once(executionData', {}, doneAfter)
       /\ Fed(executionData', (ToSet(executionData'.stack) \cup {}) \cup doneAfter,
              NodesOf(done) \cup {Node})
  BY <1>2, <1>4, <1>5, <1>7, ServeOnce
<1>11. Single(executionData', Held', consumed')
  BY <1>8, <1>9, <1>10 DEF Single
<1> QED BY <1>1, <1>11, StepSingle

LEMMA StepsOnce ==
    ASSUME IInv, LInv, SInv, SingleFed, [Next]_vars
    PROVE  SInv'
<1>1. ASSUME UNCHANGED <<workflow, executionData, consumed, current>>
      PROVE  SInv'
  <2>1. Held' = Held
    BY <1>1 DEF Held
  <2> QED BY <1>1, <2>1, UnmovedSingle
<1>2. ASSUME Executing, UNCHANGED <<workflow, executionData, consumed>>,
             NEW try, NEW output,
             current' = [item |-> current.item, run |-> current.run, try |-> try, output |-> output]
      PROVE  SInv'
  <2>1. current' # NoItem /\ current'.item = current.item
    BY <1>2, Idle
  <2>2. Held' = Held
    BY <1>2, <2>1 DEF Held, Executing
  <2> QED BY <1>2, <2>2, UnmovedSingle
<1>3. CASE NodeSucceeds
  <2>1. PICK outputs \in SUBSET Outputs(Node) : Executing /\ Continue(Given(outputs))
    BY <1>3 DEF NodeSucceeds
  <2> QED BY <2>1, OutputsKeep, ContinueSingle
<1>4. CASE NodeDisabled
  <2>1. Executing /\ Continue(Given(PassedThrough))
    BY <1>4 DEF NodeDisabled
  <2> QED BY <2>1, OutputsKeep, ContinueSingle
<1>5. CASE NodeThrows
  <2>0. Executing
    BY <1>5 DEF NodeThrows
  <2>1. CASE TriesAgain
    <3>1. current' = [item |-> current.item, run |-> current.run, try |-> current.try + 1,
                      output |-> 0]
      BY <2>0, <2>1, NodeExecuted DEF TriesAgain
    <3> QED BY <1>2, <2>0, <2>1, <3>1 DEF TriesAgain
  <2>2. CASE Continue(PassedThrough)
    BY <2>0, <2>2, OutputsKeep, ContinueSingle
  <2>3. CASE Break("error")
    BY <2>0, <2>3, BreakSingle
  <2> QED BY <1>5, <2>1, <2>2, <2>3 DEF NodeThrows
<1>6. CASE NodeEmitsError
  <2>0. Executing
    BY <1>6 DEF NodeEmitsError
  <2>1. CASE LastTry
    BY <1>6, <2>0, <2>1, OutputsKeep, ContinueSingle DEF NodeEmitsError
  <2>2. CASE ~LastTry
    <3>1. /\ current' = [current EXCEPT !.output = workflow.errorOutput[Node]]
          /\ UNCHANGED <<workflow, executionData, consumed>>
      BY <1>6, <2>2 DEF NodeEmitsError
    <3>2. current' = [item |-> current.item, run |-> current.run, try |-> current.try,
                      output |-> workflow.errorOutput[Node]]
      BY <2>0, <3>1, NodeExecuted
    <3> QED BY <1>2, <2>0, <3>1, <3>2
  <2> QED BY <2>1, <2>2
<1>7. CASE RerunReturns
  <2>0. Executing /\ current.output = workflow.errorOutput[Node]
    BY <1>7, NodeExecuted DEF RerunReturns
  <2>1. CASE current.try + 1 = workflow.maxTries[Node]
    BY <1>7, <2>0, <2>1, OutputsKeep, ContinueSingle DEF RerunReturns
  <2>2. CASE current.try + 1 # workflow.maxTries[Node]
    <3>1. /\ current' = [current EXCEPT !.try = @ + 1]
          /\ UNCHANGED <<workflow, executionData, consumed>>
      BY <1>7, <2>2 DEF RerunReturns
    <3>2. current' = [item |-> current.item, run |-> current.run, try |-> current.try + 1,
                      output |-> current.output]
      BY <2>0, <3>1, NodeExecuted
    <3> QED BY <1>2, <2>0, <3>1, <3>2
  <2> QED BY <2>1, <2>2
<1>8. CASE NodeReturnsNull
  BY <1>8, NodeReturnsNullSingle
<1>9. CASE NodeWaits
  BY <1>9, BreakSingle DEF NodeWaits
<1>10. CASE TakeNode
  BY <1>10, TakeNodeSingle
<1>11. CASE Resume
  BY <1>11, ResumeSingle
<1>12. CASE Finish \/ Cancel \/ Retry \/ UNCHANGED vars
  BY <1>1, <1>12 DEF Finish, Cancel, Retry, vars
<1> QED BY <1>3, <1>4, <1>5, <1>6, <1>7, <1>8, <1>9, <1>10, <1>11, <1>12 DEF Next, EngineStep

LEMMA InitSingle == Init /\ SingleFed => SInv
<1> SUFFICES ASSUME Init, SingleFed
             PROVE  SInv
  OBVIOUS
<1> DEFINE item == Item(workflow.start, [i \in {1} |-> {<<workflow.start, 0, 0>>}],
                        [i \in {1} |-> NoData])
<1>1. /\ executionData.stack = <<item>> /\ Held = <<>> /\ consumed = <<>> /\ Known
      /\ \A n \in Nodes : executionData.waiting[n] = <<>>
      /\ item.node = workflow.start
  BY DEF Init, Held, Known, Item
<1> HIDE DEF item
<1>2. /\ ToSet(executionData.stack) = {item} /\ ToSet(Held) = {} /\ ToSet(consumed) = {}
      /\ \A n \in Nodes : DOMAIN executionData.waiting[n] = {}
  BY <1>1, ToSetOne, EmptySeq, LenProperties
<1>3. Distinct(executionData.stack)
  <2>1. DOMAIN <<item>> = {1}
    OBVIOUS
  <2> QED BY <1>1, <2>1 DEF Distinct
<1>4. Once(executionData, ToSet(Held), ToSet(consumed))
  BY <1>2, <1>3 DEF Once, NodesOf
<1>5. \A d \in Connections : d.to \in Nodes /\ d.to # workflow.start
  <2>1. \A d \in Connections : d.to \in Nodes /\ d.input \in Inputs(d.to)
    BY <1>1, ConnectionFacts
  <2> QED BY <2>1 DEF SingleFed
<1>6. \A d \in Connections : Unfed(executionData, {item}, d)
  BY <1>1, <1>2, <1>5 DEF Unfed
<1>7. Fed(executionData, (ToSet(executionData.stack) \cup ToSet(Held)) \cup ToSet(consumed),
          NodesOf(ToSet(consumed)))
  BY <1>2, <1>6 DEF Fed
<1> QED BY <1>4, <1>7 DEF SInv, Single

\* In a workflow without loops in which one connection leads to each input, and
\* none to the start, whatever its nodes return and throw and however it pauses and
\* is retried: what a node gives is executed once by each node it is connected to,
\* and no node gets data for an input without which it was executed.
THEOREM NothingLostOrLate == Spec => [](SingleFed => NothingLost /\ NoLateData)
<1> DEFINE Inv == SingleFed => AInv /\ LInv /\ SInv
<1>1. Init => Inv
  BY InitAccounts, InitTimely, InitSingle
<1>2. IInv /\ Inv /\ [Next]_vars => Inv'
  <2> SUFFICES ASSUME IInv, Inv, [Next]_vars, SingleFed'
               PROVE  AInv' /\ LInv' /\ SInv'
    OBVIOUS
  <2>1. SingleFed /\ IsInjective(workflow.connections)
    BY SameWorkflow, SameSingle DEF SingleFed
  <2>2. [~Overwrites]_vars /\ [~OutOfOrder]_vars
    BY <2>1, NothingInTheWay
  <2> QED BY <2>1, <2>2, StepsAccount, StepsInTime, StepsOnce
<1>3. IInv /\ Inv => (SingleFed => NothingLost /\ NoLateData)
  BY AccountedIs, TimelyIs DEF SingleFed
<1> QED BY <1>1, <1>2, <1>3, Invariance, PTL DEF Spec
===============================================================================
