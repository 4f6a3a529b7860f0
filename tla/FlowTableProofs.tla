-------------------------- MODULE FlowTableProofs --------------------------
(***************************************************************************)
(* Proofs about the flow table, for every table size, hash function and    *)
(* set of endpoints.                                                       *)
(***************************************************************************)
EXTENDS FlowTable, FiniteSetTheorems, TLAPS

(* The probe loop only looks at slots of the table.                        *)
LEMMA ProbeInSlots ==
  ASSUME NEW k \in FlowKey, NEW i \in Nat
  PROVE  Probe(k, i) \in Slots
  BY FlowTableAssumption DEF Probe, Slots

(* NS_MAX_FLOWS iterations of the probe loop look at every slot.           *)
LEMMA ProbeOnto ==
  ASSUME NEW k \in FlowKey, NEW s \in Slots
  PROVE  \E i \in Slots : Probe(k, i) = s
<1> DEFINE N == NS_MAX_FLOWS
           h == hash_flow[k] % N
           i == IF s >= h THEN s - h ELSE s + N - h
<1>1. N \in Nat /\ N > 0 /\ s \in 0 .. N - 1 /\ h \in 0 .. N - 1
  BY FlowTableAssumption DEF Slots
<1>2. i \in Slots
  BY <1>1 DEF Slots
<1>3. (h + i) % N = s
  <2>1. CASE s >= h
    <3>1. h + i = s
      BY <1>1, <2>1
    <3>2. s % N = s
      BY <1>1
    <3> QED
      BY <3>1, <3>2
  <2>2. CASE s < h
    <3>1. h + i = s + N
      BY <1>1, <2>2
    <3>2. (s + N) % N = s
      BY <1>1
    <3> QED
      BY <3>1, <3>2
  <2> QED
    BY <1>1, <2>1, <2>2
<1> QED
  BY <1>2, <1>3 DEF Probe

(* What record_flow() looks up is a key in canonical direction that stands *)
(* for the packet's conversation.                                          *)
LEMMA CanonicalKey ==
  ASSUME NEW p \in Protocol, NEW x \in Endpoint, NEW y \in Endpoint
  PROVE  /\ Canonical(p, x, y) \in FlowKey
         /\ ~After(Canonical(p, x, y).a, Canonical(p, x, y).b)
         /\ ConversationOfKey(Canonical(p, x, y)) = ConversationOf(p, x, y)
         /\ ConversationOf(p, x, y) \in Conversation
<1>1. x \in [addr : Int, port : Int] /\ y \in [addr : Int, port : Int]
  BY FlowTableAssumption
<1>2. {x, y} = {y, x}
  OBVIOUS
<1>3. ConversationOf(p, x, y) \in Conversation
  BY DEF ConversationOf, Conversation
<1> QED
  BY <1>1, <1>2, <1>3 DEF Canonical, After, FlowKey, ConversationOfKey, ConversationOf

(* Every key stands for a conversation.                                    *)
LEMMA KeyConversation ==
  ASSUME NEW k \in FlowKey
  PROVE  ConversationOfKey(k) \in Conversation
  BY DEF ConversationOfKey, ConversationOf, Conversation, FlowKey

(* Two keys in canonical direction that stand for one conversation are     *)
(* equal: After() is a total order on endpoints.                           *)
LEMMA CanonicalUnique ==
  ASSUME NEW k \in FlowKey, NEW l \in FlowKey,
         ~After(k.a, k.b), ~After(l.a, l.b),
         ConversationOfKey(k) = ConversationOfKey(l)
  PROVE  k = l
<1>1. k.protocol = l.protocol /\ {k.a, k.b} = {l.a, l.b}
  BY DEF ConversationOfKey, ConversationOf
<1>2. (k.a = l.a /\ k.b = l.b) \/ (k.a = l.b /\ k.b = l.a)
  BY <1>1
<1>3. \A x, y \in Endpoint : ~After(x, y) /\ ~After(y, x) => x = y
  BY FlowTableAssumption DEF After
<1>4. k.a = l.a /\ k.b = l.b
  BY <1>2, <1>3 DEF FlowKey
<1> QED
  BY <1>1, <1>4 DEF FlowKey

-----------------------------------------------------------------------------
(***************************************************************************)
(* The inductive invariant.  OneSlotPerConversation is not inductive: that *)
(* the flow just inserted was in no slot rests on ProbeChain, and that     *)
(* equal conversations mean equal keys rests on the keys being canonical.  *)
(***************************************************************************)
CanonicalKeys == \A s \in Used : ~After(flows[s].key.a, flows[s].key.b)

NothingOffered == \A c \in Conversation : offered[c].packets = 0 => offered[c].bytes = 0

TableInv == /\ TypeOK
            /\ CanonicalKeys
            /\ NothingOffered
            /\ OneSlotPerConversation
            /\ ProbeChain
            /\ TrackedExactly
            /\ UntrackedOnlyWhenFull

(* record_flow() finds the flow: the slot it touches holds the key.        *)
LEMMA AccumulateSlot ==
  ASSUME TypeOK, NEW k \in FlowKey, NEW n \in ByteCount, Accumulate(k, n)
  PROVE  \E s \in Used : /\ flows[s].key = k
                         /\ flows' = [flows EXCEPT ![s] = Touched(@, n)]
                         /\ UNCHANGED flow_count
<1>1. PICK i \in Slots : /\ FirstStop(k, i)
                         /\ flows[Probe(k, i)].in_use
                         /\ flows' = [flows EXCEPT ![Probe(k, i)] = Touched(@, n)]
                         /\ UNCHANGED flow_count
  BY Zenon DEF Accumulate
<1>2. Probe(k, i) \in Used
  BY <1>1, ProbeInSlots DEF Used, Slots
<1>3. flows[Probe(k, i)].key = k
  BY <1>1 DEF FirstStop, Stops
<1> QED
  BY <1>1, <1>2, <1>3, Zenon

(* A key that a slot holds is met by the probe before any free slot.       *)
LEMMA HeldKeyStops ==
  ASSUME TypeOK, ProbeChain, NEW s \in Used
  PROVE  LET k == flows[s].key
         IN  \E d \in Slots : /\ Probe(k, d) = s
                              /\ Stops(k, d)
                              /\ \A e \in 0 .. d - 1 : flows[Probe(k, e)].in_use
<1> DEFINE k == flows[s].key
<1>1. PICK d \in Slots : /\ Probe(k, d) = s
                         /\ \A e \in 0 .. d - 1 : flows[Probe(k, e)].in_use
  BY DEF ProbeChain
<1>2. Stops(k, d)
  BY <1>1 DEF Stops, Used
<1> QED
  BY <1>1, <1>2

(* record_flow() fills a slot: it was free, it is the first free slot of   *)
(* the probe, and no slot held the key.                                    *)
LEMMA InsertSlot ==
  ASSUME TypeOK, ProbeChain, NEW k \in FlowKey, NEW n \in ByteCount, Insert(k, n)
  PROVE  \E s \in Slots \ Used, d \in Slots :
            /\ Probe(k, d) = s
            /\ \A e \in 0 .. d - 1 : flows[Probe(k, e)].in_use
            /\ \A u \in Used : flows[u].key # k
            /\ flows' = [flows EXCEPT ![s] = Filled(k, n)]
            /\ flow_count' = flow_count + 1
<1>1. PICK d \in Slots : /\ FirstStop(k, d)
                         /\ ~flows[Probe(k, d)].in_use
                         /\ flows' = [flows EXCEPT ![Probe(k, d)] = Filled(k, n)]
                         /\ flow_count' = flow_count + 1
  BY Zenon DEF Insert
<1>2. Probe(k, d) \in Slots \ Used
  BY <1>1, ProbeInSlots DEF Used, Slots
<1>3. \A e \in 0 .. d - 1 : flows[Probe(k, e)].in_use
  BY <1>1 DEF FirstStop, Stops
<1>4. ASSUME NEW u \in Used, flows[u].key = k
      PROVE  FALSE
  <2>1. PICK f \in Slots : /\ Stops(k, f)
                           /\ Probe(k, f) = u
                           /\ \A e \in 0 .. f - 1 : flows[Probe(k, e)].in_use
    BY <1>4, HeldKeyStops
  <2>2. ~(f < d)
    BY <1>1, <2>1 DEF FirstStop, Slots
  <2>3. ~(d < f)
    BY <1>1, <2>1 DEF Slots
  <2>4. f # d
    BY <1>2, <2>1
  <2> QED
    BY <2>2, <2>3, <2>4 DEF Slots
<1> QED
  BY <1>1, <1>2, <1>3, <1>4, Zenon

(* record_flow() drops the packet only when no slot is free and no slot    *)
(* holds the key.                                                          *)
LEMMA UntrackedFull ==
  ASSUME TypeOK, NEW k \in FlowKey, Untracked(k)
  PROVE  /\ Used = Slots
         /\ \A u \in Used : flows[u].key # k
         /\ UNCHANGED <<flows, flow_count>>
<1>1. ASSUME NEW s \in Slots
      PROVE  flows[s].in_use /\ flows[s].key # k
  <2>1. PICK i \in Slots : Probe(k, i) = s
    BY ProbeOnto
  <2>2. ~Stops(k, i)
    BY DEF Untracked
  <2> QED
    BY <2>1, <2>2 DEF Stops, TypeOK
<1> QED
  BY <1>1 DEF Used, Untracked

(* A packet of a tracked flow preserves the invariant.                     *)
LEMMA AccumulatePreserves ==
  ASSUME TableInv,
         NEW p \in Protocol, NEW x \in Endpoint, NEW y \in Endpoint, NEW n \in ByteCount,
         Accumulate(Canonical(p, x, y), n),
         offered' = [offered EXCEPT ![ConversationOf(p, x, y)] =
                       [packets |-> @.packets + 1, bytes |-> @.bytes + n]]
  PROVE  TableInv'
<1> DEFINE k == Canonical(p, x, y)
           c == ConversationOf(p, x, y)
<1> USE DEF TableInv
<1>1. /\ k \in FlowKey /\ ConversationOfKey(k) = c /\ c \in Conversation
      /\ n \in Nat
  BY CanonicalKey, FlowTableAssumption
<1>2. PICK s \in Used : /\ flows[s].key = k
                        /\ flows' = [flows EXCEPT ![s] = Touched(@, n)]
                        /\ UNCHANGED flow_count
  BY <1>1, AccumulateSlot
<1>3. s \in Slots /\ DOMAIN flows = Slots
  BY DEF Used, TypeOK
<1>4. \A i \in Slots : /\ (flows'[i].in_use <=> flows[i].in_use)
                       /\ flows'[i].key = flows[i].key
                       /\ flows'[i].packets = flows[i].packets + (IF i = s THEN 1 ELSE 0)
                       /\ flows'[i].bytes = flows[i].bytes + (IF i = s THEN n ELSE 0)
  BY <1>2, <1>3 DEF Touched, TypeOK, Used
<1>5. Used' = Used
  BY <1>4 DEF Used
<1>6. TypeOK'
  <2>1. flows' \in [Slots -> [in_use : BOOLEAN, key : FlowKey \cup {NoKey},
                              packets : Nat, bytes : Nat]]
    BY <1>1, <1>2, <1>3 DEF TypeOK, Touched
  <2>2. offered' \in [Conversation -> [packets : Nat, bytes : Nat]]
    BY <1>1 DEF TypeOK
  <2> QED
    BY <1>2, <1>4, <1>5, <2>1, <2>2 DEF TypeOK, Used
<1>7. CanonicalKeys'
  BY <1>4, <1>5 DEF CanonicalKeys, Used
<1>8. OneSlotPerConversation'
  BY <1>4, <1>5 DEF OneSlotPerConversation, Used
<1>9. ProbeChain'
  <2>1. ASSUME NEW t \in Used
        PROVE  \E d \in Slots : /\ Probe(flows[t].key, d) = t
                                /\ \A e \in 0 .. d - 1 : flows'[Probe(flows[t].key, e)].in_use
    <3>1. PICK d \in Slots : /\ Probe(flows[t].key, d) = t
                             /\ \A e \in 0 .. d - 1 : flows[Probe(flows[t].key, e)].in_use
      BY DEF ProbeChain
    <3>2. \A e \in 0 .. d - 1 : Probe(flows[t].key, e) \in Slots
      BY ProbeInSlots DEF TypeOK
    <3> QED
      BY <3>1, <3>2, <1>4
  <2> QED
    BY <2>1, <1>4, <1>5 DEF ProbeChain, Used
<1>10. TrackedExactly'
  <2>1. ASSUME NEW i \in Used
        PROVE  LET d == ConversationOfKey(flows[i].key)
               IN  /\ flows'[i].packets = offered'[d].packets
                   /\ flows'[i].bytes = offered'[d].bytes
    <3> DEFINE d == ConversationOfKey(flows[i].key)
    <3>1. d \in Conversation
      BY KeyConversation DEF TypeOK
    <3>2. d = c <=> i = s
      BY <1>1, <1>2 DEF OneSlotPerConversation
    <3>3. flows[i].packets = offered[d].packets /\ flows[i].bytes = offered[d].bytes
      BY DEF TrackedExactly
    <3>4. i \in Slots
      BY DEF Used
    <3>5. CASE i = s
      BY <1>1, <1>4, <3>1, <3>2, <3>3, <3>4, <3>5 DEF TypeOK
    <3>6. CASE i # s
      BY <1>1, <1>4, <3>1, <3>2, <3>3, <3>4, <3>6 DEF TypeOK
    <3> QED
      BY <3>5, <3>6
  <2> QED
    BY <2>1, <1>4, <1>5 DEF TrackedExactly, Used
<1>11. UntrackedOnlyWhenFull'
  <2>1. ASSUME NEW d \in Conversation, d # c
        PROVE  offered'[d] = offered[d]
    BY <1>1, <2>1 DEF TypeOK
  <2>2. ConversationOfKey(flows'[s].key) = c /\ s \in Used'
    BY <1>1, <1>2, <1>3, <1>4, <1>5
  <2> QED
    BY <2>1, <2>2, <1>4, <1>5 DEF UntrackedOnlyWhenFull, Used
<1>12. NothingOffered'
  BY <1>1 DEF NothingOffered, TypeOK
<1> QED
  BY <1>6, <1>7, <1>8, <1>9, <1>10, <1>11, <1>12

(* The first packet of a flow preserves the invariant.                     *)
LEMMA InsertPreserves ==
  ASSUME TableInv,
         NEW p \in Protocol, NEW x \in Endpoint, NEW y \in Endpoint, NEW n \in ByteCount,
         Insert(Canonical(p, x, y), n),
         offered' = [offered EXCEPT ![ConversationOf(p, x, y)] =
                       [packets |-> @.packets + 1, bytes |-> @.bytes + n]]
  PROVE  TableInv'
<1> DEFINE k == Canonical(p, x, y)
           c == ConversationOf(p, x, y)
<1> USE DEF TableInv
<1>1. /\ k \in FlowKey /\ ConversationOfKey(k) = c /\ c \in Conversation
      /\ n \in Nat /\ ~After(k.a, k.b)
  BY CanonicalKey, FlowTableAssumption
<1>2. PICK s \in Slots \ Used, d \in Slots :
         /\ Probe(k, d) = s
         /\ \A e \in 0 .. d - 1 : flows[Probe(k, e)].in_use
         /\ \A u \in Used : flows[u].key # k
         /\ flows' = [flows EXCEPT ![s] = Filled(k, n)]
         /\ flow_count' = flow_count + 1
  BY <1>1, InsertSlot
<1>3. \A u \in Used : ConversationOfKey(flows[u].key) # c
  BY <1>1, <1>2, CanonicalUnique DEF CanonicalKeys, TypeOK
<1>4. \A i \in Slots : flows'[i] = IF i = s THEN Filled(k, n) ELSE flows[i]
  BY <1>2 DEF TypeOK
<1>5. Used' = Used \cup {s}
  BY <1>2, <1>4 DEF Used, Filled
<1>6. Used \subseteq Slots /\ s \in Slots /\ s \notin Used
  BY <1>2 DEF Used
<1>7. flows'[s].key = k /\ flows'[s].packets = 1 /\ flows'[s].bytes = n
  BY <1>4, <1>6 DEF Filled
<1>8. \A u \in Used : flows'[u] = flows[u]
  BY <1>4, <1>6
<1>9. TypeOK'
  <2>1. flows' \in [Slots -> [in_use : BOOLEAN, key : FlowKey \cup {NoKey},
                              packets : Nat, bytes : Nat]]
    BY <1>1, <1>2 DEF TypeOK, Filled
  <2>2. offered' \in [Conversation -> [packets : Nat, bytes : Nat]]
    BY <1>1 DEF TypeOK
  <2>3. \A i \in Used' : flows'[i].key \in FlowKey
    BY <1>1, <1>5, <1>7, <1>8 DEF TypeOK
  <2> QED
    BY <1>2, <2>1, <2>2, <2>3 DEF TypeOK
<1>10. CanonicalKeys'
  BY <1>1, <1>5, <1>7, <1>8 DEF CanonicalKeys
<1>11. OneSlotPerConversation'
  BY <1>1, <1>3, <1>5, <1>7, <1>8 DEF OneSlotPerConversation
<1>12. ProbeChain'
  <2>1. \A i \in Slots : flows[i].in_use => flows'[i].in_use
    BY <1>4 DEF Filled
  <2>2. ASSUME NEW t \in Used
        PROVE  \E f \in Slots : /\ Probe(flows[t].key, f) = t
                                /\ \A e \in 0 .. f - 1 : flows'[Probe(flows[t].key, e)].in_use
    <3>1. PICK f \in Slots : /\ Probe(flows[t].key, f) = t
                             /\ \A e \in 0 .. f - 1 : flows[Probe(flows[t].key, e)].in_use
      BY DEF ProbeChain
    <3>2. \A e \in 0 .. f - 1 : Probe(flows[t].key, e) \in Slots
      BY ProbeInSlots DEF TypeOK
    <3> QED
      BY <3>1, <3>2, <2>1
  <2>3. \A e \in 0 .. d - 1 : flows'[Probe(k, e)].in_use
    <3>1. \A e \in 0 .. d - 1 : Probe(k, e) \in Slots
      BY <1>1, ProbeInSlots
    <3> QED
      BY <1>2, <2>1, <3>1
  <2> QED
    BY <1>2, <1>5, <1>7, <1>8, <2>2, <2>3 DEF ProbeChain
<1>13. offered[c].packets = 0 /\ offered[c].bytes = 0
  BY <1>1, <1>3, <1>6 DEF UntrackedOnlyWhenFull, NothingOffered
<1>14. /\ offered'[c] = [packets |-> 1, bytes |-> n]
       /\ \A f \in Conversation : f # c => offered'[f] = offered[f]
  BY <1>1, <1>13 DEF TypeOK
<1>15. TrackedExactly'
  <2>1. \A u \in Used : /\ ConversationOfKey(flows[u].key) \in Conversation
                        /\ ConversationOfKey(flows[u].key) # c
    BY <1>3, KeyConversation DEF TypeOK
  <2> QED
    BY <1>1, <1>5, <1>7, <1>8, <1>14, <2>1, SMTT(30) DEF TrackedExactly
<1>16. UntrackedOnlyWhenFull'
  BY <1>1, <1>5, <1>6, <1>7, <1>8, <1>14 DEF UntrackedOnlyWhenFull
<1>17. NothingOffered'
  BY <1>1, <1>14 DEF NothingOffered
<1> QED
  BY <1>9, <1>10, <1>11, <1>12, <1>15, <1>16, <1>17

(* A packet the full table has no room for preserves the invariant.        *)
LEMMA UntrackedPreserves ==
  ASSUME TableInv,
         NEW p \in Protocol, NEW x \in Endpoint, NEW y \in Endpoint, NEW n \in ByteCount,
         Untracked(Canonical(p, x, y)),
         offered' = [offered EXCEPT ![ConversationOf(p, x, y)] =
                       [packets |-> @.packets + 1, bytes |-> @.bytes + n]]
  PROVE  TableInv'
<1> DEFINE k == Canonical(p, x, y)
           c == ConversationOf(p, x, y)
<1> USE DEF TableInv
<1>1. /\ k \in FlowKey /\ ConversationOfKey(k) = c /\ c \in Conversation
      /\ n \in Nat /\ ~After(k.a, k.b)
  BY CanonicalKey, FlowTableAssumption
<1>2. /\ Used = Slots
      /\ \A u \in Used : flows[u].key # k
      /\ flows' = flows /\ flow_count' = flow_count
  BY <1>1, UntrackedFull
<1>3. Used' = Used
  BY <1>2 DEF Used
<1>4. \A u \in Used : ConversationOfKey(flows[u].key) # c
  BY <1>1, <1>2, CanonicalUnique DEF CanonicalKeys, TypeOK
<1>5. offered' \in [Conversation -> [packets : Nat, bytes : Nat]]
  BY <1>1 DEF TypeOK
<1>6. TypeOK'
  BY <1>2, <1>3, <1>5 DEF TypeOK
<1>7. CanonicalKeys' /\ OneSlotPerConversation' /\ ProbeChain'
  BY <1>2, <1>3 DEF CanonicalKeys, OneSlotPerConversation, ProbeChain
<1>8. TrackedExactly'
  <2>1. \A u \in Used : /\ ConversationOfKey(flows[u].key) \in Conversation
                        /\ ConversationOfKey(flows[u].key) # c
    BY <1>4, KeyConversation DEF TypeOK
  <2>2. \A f \in Conversation : f # c => offered'[f] = offered[f]
    BY DEF TypeOK
  <2> QED
    BY <1>2, <1>3, <2>1, <2>2 DEF TrackedExactly
<1>9. UntrackedOnlyWhenFull'
  BY <1>2, <1>3 DEF UntrackedOnlyWhenFull
<1>10. NothingOffered'
  BY <1>1 DEF NothingOffered, TypeOK
<1> QED
  BY <1>6, <1>7, <1>8, <1>9, <1>10

(* The invariant holds in every reachable state.                           *)
THEOREM TableInvariant == Spec => []TableInv
<1>1. Init => TableInv
  <2> SUFFICES ASSUME Init PROVE TableInv
    OBVIOUS
  <2>1. Used = {}
    BY DEF Init, Used, FreeSlot
  <2>2. TypeOK
    BY <2>1 DEF Init, TypeOK, FreeSlot
  <2> QED
    BY <2>1, <2>2 DEF Init, TableInv, CanonicalKeys, NothingOffered,
       OneSlotPerConversation, ProbeChain, TrackedExactly, UntrackedOnlyWhenFull
<1>2. TableInv /\ [Next]_tableVars => TableInv'
  <2> SUFFICES ASSUME TableInv, [Next]_tableVars PROVE TableInv'
    OBVIOUS
  <2>1. CASE Next
    <3>1. PICK p \in Protocol, x \in Endpoint, y \in Endpoint, n \in ByteCount :
             record_flow(p, x, y, n)
      BY <2>1 DEF Next
    <3> QED
      BY <3>1, AccumulatePreserves, InsertPreserves, UntrackedPreserves, Zenon DEF record_flow
  <2>2. CASE UNCHANGED tableVars
    BY <2>2 DEF tableVars, TableInv, TypeOK, CanonicalKeys, NothingOffered, Used,
       OneSlotPerConversation, ProbeChain, TrackedExactly, UntrackedOnlyWhenFull, Stops
  <2> QED
    BY <2>1, <2>2
<1> QED
  BY <1>1, <1>2, PTL DEF Spec

(* No conversation is ever split over two slots of the table.              *)
THEOREM OneSlot == Spec => []OneSlotPerConversation
  BY TableInvariant, PTL DEF TableInv

(* The flow table keeps its types.                                         *)
THEOREM TableTyped == Spec => []TypeOK
  BY TableInvariant, PTL DEF TableInv

(* Every entry can be found again: no free slot ends its probe early.      *)
THEOREM Findable == Spec => []ProbeChain
  BY TableInvariant, PTL DEF TableInv

(* Every conversation the table reports is reported exactly.               *)
THEOREM Exact == Spec => []TrackedExactly
  BY TableInvariant, PTL DEF TableInv

(* Only a table without a free slot misses a conversation.                 *)
THEOREM MissesOnlyWhenFull == Spec => []UntrackedOnlyWhenFull
  BY TableInvariant, PTL DEF TableInv

-----------------------------------------------------------------------------
(* A step of the table is one of the three outcomes of record_flow().      *)
LEMMA StepOutcome ==
  ASSUME TableInv, Next
  PROVE  \E p \in Protocol, x, y \in Endpoint, n \in ByteCount :
            LET k == Canonical(p, x, y)
            IN  \/ Accumulate(k, n)
                \/ Insert(k, n)
                \/ Untracked(k)
  BY DEF Next, record_flow

(* record_flow() never evicts a flow or takes a count back.                *)
THEOREM NeverEvicts == Spec => NoEviction
<1> DEFINE Kept == \A i \in Used : /\ flows'[i].in_use
                                   /\ flows'[i].key = flows[i].key
                                   /\ flows'[i].packets >= flows[i].packets
                                   /\ flows'[i].bytes >= flows[i].bytes
<1>1. TableInv /\ [Next]_tableVars => [Kept]_tableVars
  <2> SUFFICES ASSUME TableInv, Next PROVE Kept
    OBVIOUS
  <2>1. PICK p \in Protocol, x \in Endpoint, y \in Endpoint, n \in ByteCount :
           LET k == Canonical(p, x, y)
           IN  Accumulate(k, n) \/ Insert(k, n) \/ Untracked(k)
    BY StepOutcome
  <2> DEFINE k == Canonical(p, x, y)
  <2>2. k \in FlowKey /\ n \in Nat /\ TypeOK /\ ProbeChain
    BY CanonicalKey, FlowTableAssumption DEF TableInv
  <2>3. \A i \in Used : /\ i \in Slots
                        /\ flows[i].in_use
                        /\ flows[i].packets \in Nat
                        /\ flows[i].bytes \in Nat
    BY <2>2 DEF TypeOK, Used
  <2>4. CASE Accumulate(k, n)
    <3>1. PICK s \in Used : flows' = [flows EXCEPT ![s] = Touched(@, n)]
      BY <2>2, <2>4, AccumulateSlot
    <3> QED
      BY <2>2, <2>3, <3>1 DEF Touched, TypeOK
  <2>5. CASE Insert(k, n)
    <3>1. PICK s \in Slots \ Used : flows' = [flows EXCEPT ![s] = Filled(k, n)]
      BY <2>2, <2>5, InsertSlot
    <3> QED
      BY <2>2, <2>3, <3>1 DEF TypeOK
  <2>6. CASE Untracked(k)
    BY <2>3, <2>6 DEF Untracked
  <2> QED
    BY <2>1, <2>4, <2>5, <2>6
<1> QED
  BY <1>1, TableInvariant, PTL DEF Spec, NoEviction

(* flow_count counts the slots in use.                                     *)
THEOREM CountsSlots == Spec => []FlowCountExact
<1>1. Init => FlowCountExact
  <2> SUFFICES ASSUME Init PROVE FlowCountExact
    OBVIOUS
  <2>1. Used = {}
    BY DEF Init, Used, FreeSlot
  <2> QED
    BY <2>1, FS_EmptySet DEF Init, FlowCountExact
<1>2. TableInv /\ FlowCountExact /\ [Next]_tableVars => FlowCountExact'
  <2> SUFFICES ASSUME TableInv, FlowCountExact, [Next]_tableVars PROVE FlowCountExact'
    OBVIOUS
  <2>1. IsFiniteSet(Used)
    <3>1. IsFiniteSet(Slots)
      BY FS_Interval, FlowTableAssumption DEF Slots
    <3> QED
      BY <3>1, FS_Subset DEF Used
  <2>2. CASE Next
    <3>1. PICK p \in Protocol, x \in Endpoint, y \in Endpoint, n \in ByteCount :
             LET k == Canonical(p, x, y)
             IN  Accumulate(k, n) \/ Insert(k, n) \/ Untracked(k)
      BY <2>2, StepOutcome
    <3> DEFINE k == Canonical(p, x, y)
    <3>2. k \in FlowKey /\ TypeOK /\ ProbeChain
      BY CanonicalKey DEF TableInv
    <3>3. CASE Accumulate(k, n)
      <4>1. PICK s \in Used : /\ flows' = [flows EXCEPT ![s] = Touched(@, n)]
                              /\ UNCHANGED flow_count
        BY <3>2, <3>3, AccumulateSlot
      <4>2. Used' = Used
        BY <3>2, <4>1 DEF Used, Touched, TypeOK
      <4> QED
        BY <4>1, <4>2 DEF FlowCountExact
    <3>4. CASE Insert(k, n)
      <4>1. PICK s \in Slots \ Used : /\ flows' = [flows EXCEPT ![s] = Filled(k, n)]
                                      /\ flow_count' = flow_count + 1
        BY <3>2, <3>4, InsertSlot
      <4>2. Used' = Used \cup {s}
        BY <3>2, <4>1 DEF Used, Filled, TypeOK
      <4> QED
        BY <2>1, <4>1, <4>2, FS_AddElement, Zenon DEF FlowCountExact
    <3>5. CASE Untracked(k)
      BY <3>5 DEF Untracked, FlowCountExact, Used
    <3> QED
      BY <3>1, <3>3, <3>4, <3>5
  <2>3. CASE UNCHANGED tableVars
    BY <2>3 DEF tableVars, FlowCountExact, Used
  <2> QED
    BY <2>2, <2>3
<1> QED
  BY <1>1, <1>2, TableInvariant, PTL DEF Spec

\* A conversation without packets has no bytes.
NothingFromNothing ==
  \A c \in Conversation : offered[c].packets = 0 => offered[c].bytes = 0

LEMMA OfferedTogether == Spec => []NothingFromNothing
<1>1. Init => NothingFromNothing BY DEF Init, NothingFromNothing
<1>2. TableInv /\ NothingFromNothing /\ [Next]_tableVars => NothingFromNothing'
  <2> SUFFICES ASSUME TableInv, NothingFromNothing, [Next]_tableVars PROVE NothingFromNothing'
    OBVIOUS
  <2>1. CASE Next
    <3>1. PICK p \in Protocol, x \in Endpoint, y \in Endpoint, n \in ByteCount :
             record_flow(p, x, y, n)
      BY <2>1 DEF Next
    <3> DEFINE c == ConversationOf(p, x, y)
    <3>2. offered' = [offered EXCEPT ![c] = [packets |-> @.packets + 1, bytes |-> @.bytes + n]]
      BY <3>1 DEF record_flow
    <3>3. offered \in [Conversation -> [packets : Nat, bytes : Nat]]
      BY DEF TableInv, TypeOK
    <3> HIDE DEF c
    <3> QED BY <3>2, <3>3 DEF NothingFromNothing
  <2>2. CASE UNCHANGED tableVars BY <2>2 DEF tableVars, NothingFromNothing
  <2> QED BY <2>1, <2>2
<1> QED BY <1>1, <1>2, TableInvariant, PTL DEF Spec

-----------------------------------------------------------------------------
\* Refinement of FlowMap.
Counts(s) == [packets |-> flows[s].packets, bytes |-> flows[s].bytes]

(* The dictionary a table stands for maps each held conversation to the    *)
(* counters of the one slot that holds it.                                 *)
LEMMA ConvBarValue ==
  OneSlotPerConversation =>
    /\ DOMAIN convBar = Tracked
    /\ \A s \in Used : /\ ConversationOfKey(flows[s].key) \in Tracked
                       /\ convBar[ConversationOfKey(flows[s].key)] = Counts(s)
<1> SUFFICES ASSUME OneSlotPerConversation, NEW s \in Used
             PROVE  /\ ConversationOfKey(flows[s].key) \in Tracked
                    /\ convBar[ConversationOfKey(flows[s].key)] = Counts(s)
  BY DEF convBar
<1> DEFINE c == ConversationOfKey(flows[s].key)
<1>1. c \in Tracked
  BY DEF Tracked
<1>2. SlotOf(c) \in Used /\ ConversationOfKey(flows[SlotOf(c)].key) = c
  BY DEF SlotOf
<1>3. SlotOf(c) = s
  BY <1>2 DEF OneSlotPerConversation
<1> QED
  BY <1>1, <1>3 DEF convBar, Counts

(* A table holds as many conversations as it has slots in use.             *)
LEMMA TrackedCardinality ==
  ASSUME OneSlotPerConversation
  PROVE  /\ Cardinality(Tracked) = Cardinality(Used)
         /\ Used = Slots => Cardinality(Tracked) = NS_MAX_FLOWS
         /\ Used # Slots => Cardinality(Tracked) < NS_MAX_FLOWS
<1> DEFINE f == [s \in Used |-> ConversationOfKey(flows[s].key)]
<1>1. IsFiniteSet(Slots) /\ Cardinality(Slots) = NS_MAX_FLOWS
  BY FS_Interval, FlowTableAssumption DEF Slots
<1>2. Used \in SUBSET Slots
  BY DEF Used
<1>3. /\ IsFiniteSet(Used)
      /\ Cardinality(Used) <= Cardinality(Slots)
      /\ Cardinality(Slots) = Cardinality(Used) => Slots = Used
  BY <1>1, <1>2, FS_Subset
<1>4. f \in [Used -> Tracked]
  BY DEF Tracked
<1>5. \A s, t \in Used : f[s] = f[t] => s = t
  BY DEF OneSlotPerConversation
<1>6. \A c \in Tracked : \E s \in Used : f[s] = c
  BY DEF Tracked
<1>7. f \in Bijection(Used, Tracked)
  BY <1>4, <1>5, <1>6 DEF Bijection, Injection, Surjection, IsInjective
<1>8. Cardinality(Tracked) = Cardinality(Used)
  BY <1>3, <1>7, FS_Bijection DEF ExistsBijection
<1>9. Cardinality(Used) \in Nat
  BY <1>3, FS_CardinalityType
<1> QED
  BY <1>1, <1>3, <1>8, <1>9, FlowTableAssumption

(* The hash table implements the bounded dictionary: record_flow() either  *)
(* accumulates, adds or ignores, exactly when FlowMap does.                *)
THEOREM ImplementsFlowMap == Spec => RefinesFlowMap
<1>1. Init => Map!Init
  <2> SUFFICES ASSUME Init PROVE convBar = [c \in {} |-> 0]
    BY DEF Map!Init
  <2>1. Used = {}
    BY DEF Init, Used, FreeSlot
  <2>2. Tracked = {}
    BY <2>1 DEF Tracked
  <2> QED
    BY <2>2 DEF convBar
<1>2. (OneSlotPerConversation =>
         /\ DOMAIN convBar = Tracked
         /\ \A s \in Used : /\ ConversationOfKey(flows[s].key) \in Tracked
                            /\ convBar[ConversationOfKey(flows[s].key)] = Counts(s))'
  BY ConvBarValue, PTL
<1>3. TableInv /\ TableInv' /\ [Next]_tableVars => [Map!Next]_convBar
  <2> SUFFICES ASSUME TableInv, TableInv', [Next]_tableVars
               PROVE  [Map!Next]_convBar
    OBVIOUS
  <2> USE DEF TableInv
  <2>1. /\ convBar = [c \in Tracked |-> convBar[c]]
        /\ convBar' = [c \in Tracked' |-> convBar'[c]]
    BY DEF convBar
  <2>2. \A s \in Used : convBar[ConversationOfKey(flows[s].key)] = Counts(s)
    BY ConvBarValue
  <2>3. \A s \in Used' : convBar'[ConversationOfKey(flows'[s].key)] = Counts(s)'
    BY <1>2
  <2>4. CASE UNCHANGED tableVars
    BY <2>4 DEF tableVars, convBar, Tracked, SlotOf, Used
  <2>5. CASE Next
    <3>1. PICK p \in Protocol, x \in Endpoint, y \in Endpoint, n \in ByteCount :
             LET k == Canonical(p, x, y)
             IN  Accumulate(k, n) \/ Insert(k, n) \/ Untracked(k)
      BY <2>5, StepOutcome
    <3> DEFINE k == Canonical(p, x, y)
               c == ConversationOf(p, x, y)
    <3>2. /\ k \in FlowKey /\ ConversationOfKey(k) = c /\ c \in Conversation
          /\ ~After(k.a, k.b) /\ n \in Nat
      BY CanonicalKey, FlowTableAssumption
    <3>3. CASE Accumulate(k, n)
      <4>1. PICK s \in Used : /\ flows[s].key = k
                              /\ flows' = [flows EXCEPT ![s] = Touched(@, n)]
        BY <3>2, <3>3, AccumulateSlot
      <4>2. /\ Used' = Used
            /\ \A u \in Used : flows'[u].key = flows[u].key
            /\ \A u \in Used : u # s => Counts(u)' = Counts(u)
            /\ Counts(s)' = [packets |-> Counts(s).packets + 1,
                             bytes |-> Counts(s).bytes + n]
        BY <4>1 DEF Used, Touched, TypeOK, Counts
      <4>3. Tracked' = Tracked
        BY <4>2 DEF Tracked
      <4>4. c \in Tracked /\ convBar[c] = Counts(s) /\ convBar'[c] = Counts(s)'
        BY <2>2, <2>3, <3>2, <4>1, <4>2 DEF Tracked
      <4>5. ASSUME NEW d \in Tracked, d # c
            PROVE  convBar'[d] = convBar[d]
        <5>1. PICK u \in Used : d = ConversationOfKey(flows[u].key)
          BY DEF Tracked
        <5>2. u # s
          BY <3>2, <4>1, <4>5, <5>1
        <5> QED
          BY <2>2, <2>3, <4>2, <5>1, <5>2
      <4>6. convBar' = [convBar EXCEPT ![c] = [packets |-> @.packets + 1,
                                               bytes |-> @.bytes + n]]
        BY <2>1, <4>2, <4>3, <4>4, <4>5
      <4>7. Map!Accumulate(c, n)
        BY <2>1, <4>4, <4>6 DEF Map!Accumulate
      <4> QED
        BY <3>2, <4>7 DEF Map!Next
    <3>4. CASE Insert(k, n)
      <4>1. PICK s \in Slots \ Used : /\ flows' = [flows EXCEPT ![s] = Filled(k, n)]
                                      /\ \A u \in Used : flows[u].key # k
        BY <3>2, <3>4, InsertSlot
      <4>2. /\ Used' = Used \cup {s}
            /\ \A u \in Used : flows'[u] = flows[u]
            /\ flows'[s].key = k
            /\ Counts(s)' = [packets |-> 1, bytes |-> n]
        BY <4>1 DEF Used, Filled, TypeOK, Counts
      <4>3. c \notin Tracked
        BY <3>2, <4>1, CanonicalUnique DEF Tracked, CanonicalKeys, TypeOK
      <4>4. Tracked' = Tracked \cup {c}
        BY <3>2, <4>2 DEF Tracked
      <4>5. convBar'[c] = [packets |-> 1, bytes |-> n]
        BY <2>3, <3>2, <4>2
      <4>6. ASSUME NEW d \in Tracked
            PROVE  convBar'[d] = convBar[d]
        <5>1. PICK u \in Used : d = ConversationOfKey(flows[u].key)
          BY DEF Tracked
        <5>2. Counts(u)' = Counts(u) /\ u \in Used'
          BY <4>2 DEF Counts
        <5> QED
          BY <2>2, <2>3, <4>2, <5>1, <5>2
      <4>7. Cardinality(Tracked) < NS_MAX_FLOWS
        BY <4>1, TrackedCardinality
      <4>8. convBar' = [d \in Tracked \cup {c} |->
                          IF d = c THEN [packets |-> 1, bytes |-> n] ELSE convBar[d]]
        BY <2>1, <4>3, <4>4, <4>5, <4>6
      <4>9. DOMAIN convBar = Tracked
        BY DEF convBar
      <4>10. Map!Cardinality(Tracked) = Cardinality(Tracked)
        BY DEF Map!Cardinality, Cardinality
      <4>11. Map!Add(c, n)
        BY <4>3, <4>7, <4>8, <4>9, <4>10 DEF Map!Add
      <4> QED
        BY <3>2, <4>11 DEF Map!Next
    <3>5. CASE Untracked(k)
      BY <3>5 DEF Untracked, convBar, Tracked, SlotOf, Used
    <3> QED
      BY <3>1, <3>3, <3>4, <3>5
  <2> QED
    BY <2>4, <2>5
<1> QED
  BY <1>1, <1>3, TableInvariant, PTL DEF Spec, RefinesFlowMap, Map!Spec
=============================================================================
