----------------------------- MODULE FlowTable -----------------------------
(***************************************************************************)
(* The flow table of src/src/stats.c: NS_MAX_FLOWS slots, open addressing  *)
(* with linear probing, no deletion.  record_flow() is one atomic action:  *)
(* the program is single threaded and the signal handler never touches the *)
(* table.                                                                  *)
(*                                                                         *)
(* An address is its text; strcmp() is modelled by the order of integers.  *)
(* The hash is an arbitrary function of the canonical key.                 *)
(***************************************************************************)
EXTENDS Integers, FiniteSets

CONSTANTS
  Protocol,      \* the ns_proto_t values extract_endpoints() yields
  Endpoint,      \* [addr, port] pairs that occur
  ByteCount,     \* captured lengths that occur
  NS_MAX_FLOWS,  \* slots of the table (1024 in stats.h)
  hash_flow,     \* canonical key -> Nat, stats.c:61-79
  NoKey,         \* what memset() leaves in the key fields of a free slot
  MaxOffered     \* bound: packets recorded per conversation

FlowKey == [protocol : Protocol, a : Endpoint, b : Endpoint]

ASSUME FlowTableAssumption ==
  /\ NS_MAX_FLOWS \in Nat \ {0}
  /\ Endpoint \subseteq [addr : Int, port : Int]
  /\ ByteCount \subseteq Nat
  /\ hash_flow \in [FlowKey -> Nat]
  /\ MaxOffered \in Nat

VARIABLES
  flows,       \* ns_stats_t.flows
  flow_count,  \* ns_stats_t.flow_count
  offered      \* history, not in the code: conversation -> all that was
               \* passed to record_flow() for it

tableVars == <<flows, flow_count, offered>>

Slots == 0 .. NS_MAX_FLOWS - 1

FreeSlot == [in_use |-> FALSE, key |-> NoKey, packets |-> 0, bytes |-> 0]

\* The packets x -> y and y -> x belong to one conversation.
Conversation == [protocol : Protocol, ends : {{x, y} : x, y \in Endpoint}]
ConversationOf(protocol, x, y) == [protocol |-> protocol, ends |-> {x, y}]
ConversationOfKey(k) == ConversationOf(k.protocol, k.a, k.b)

-----------------------------------------------------------------------------
\* Mutant: the direction is decided by the address alone.
AfterByAddress(x, y) == x.addr > y.addr

\* The condition under which record_flow() swaps its endpoints.
After(x, y) == x.addr > y.addr \/ (x.addr = y.addr /\ x.port > y.port)

Canonical(protocol, x, y) ==
  IF After(x, y) THEN [protocol |-> protocol, a |-> y, b |-> x]
                 ELSE [protocol |-> protocol, a |-> x, b |-> y]

\* The slot looked at in iteration i of the probe loop.
Probe(k, i) == ((hash_flow[k] % NS_MAX_FLOWS) + i) % NS_MAX_FLOWS

\* The loop returns at iteration i: the slot holds the flow or is free.
Stops(k, i) == LET slot == flows[Probe(k, i)]
               IN  (slot.in_use /\ slot.key = k) \/ ~slot.in_use

\* Mutant: any slot that would do is taken, not the first one.
AnyStop(k, i) == Stops(k, i)

FirstStop(k, i) == Stops(k, i) /\ \A j \in 0 .. i - 1 : ~Stops(k, j)

\* Mutant: the bytes of a later packet are not added.
TouchedPacketsOnly(slot, n) == [slot EXCEPT !.packets = @ + 1]

Touched(slot, n) == [in_use |-> TRUE, key |-> slot.key,
                     packets |-> slot.packets + 1, bytes |-> slot.bytes + n]

Filled(k, n) == [in_use |-> TRUE, key |-> k, packets |-> 1, bytes |-> n]

\* The flow is present: it accumulates.
Accumulate(k, n) ==
  \E i \in Slots :
    /\ FirstStop(k, i)
    /\ flows[Probe(k, i)].in_use
    /\ flows' = [flows EXCEPT ![Probe(k, i)] = Touched(@, n)]
    /\ UNCHANGED flow_count

\* A free slot comes first: the flow is new.
Insert(k, n) ==
  \E i \in Slots :
    /\ FirstStop(k, i)
    /\ ~flows[Probe(k, i)].in_use
    /\ flows' = [flows EXCEPT ![Probe(k, i)] = Filled(k, n)]
    /\ flow_count' = flow_count + 1

\* Mutant: a full table makes room by overwriting the first slot probed.
UntrackedEvicts(k) ==
  /\ \A i \in Slots : ~Stops(k, i)
  /\ flows' = [flows EXCEPT ![Probe(k, 0)] = Filled(k, 1)]
  /\ UNCHANGED flow_count

\* The loop ends without a match and without a free slot.
Untracked(k) ==
  /\ \A i \in Slots : ~Stops(k, i)
  /\ UNCHANGED <<flows, flow_count>>

record_flow(protocol, x, y, n) ==
  LET k == Canonical(protocol, x, y)
      c == ConversationOf(protocol, x, y)
  IN  /\ offered[c].packets < MaxOffered
      /\ offered' = [offered EXCEPT ![c] = [packets |-> @.packets + 1,
                                            bytes |-> @.bytes + n]]
      /\ Accumulate(k, n) \/ Insert(k, n) \/ Untracked(k)

\* ns_stats_init(): memset to zero.
Init ==
  /\ flows = [i \in Slots |-> FreeSlot]
  /\ flow_count = 0
  /\ offered = [c \in Conversation |-> [packets |-> 0, bytes |-> 0]]

Next == \E protocol \in Protocol, x, y \in Endpoint, n \in ByteCount :
           record_flow(protocol, x, y, n)

Spec == Init /\ [][Next]_tableVars

-----------------------------------------------------------------------------
Used == {i \in Slots : flows[i].in_use}

(* Type invariant of ns_stats_t's flow fields; a slot in use holds a key.  *)
TypeOK ==
  /\ flows \in [Slots -> [in_use : BOOLEAN, key : FlowKey \cup {NoKey},
                          packets : Nat, bytes : Nat]]
  /\ \A i \in Used : flows[i].key \in FlowKey
  /\ flow_count \in Nat
  /\ offered \in [Conversation -> [packets : Nat, bytes : Nat]]

(* No conversation is split over two slots: whichever directions its       *)
(* packets came in, and however the keys collide, record_flow() finds the  *)
(* one slot it filled before.                                              *)
OneSlotPerConversation ==
  \A i, j \in Used :
    ConversationOfKey(flows[i].key) = ConversationOfKey(flows[j].key) => i = j

(* An entry can be found again: from the slot its key hashes to up to the  *)
(* slot it is in there is no free slot that would end the probe early.     *)
ProbeChain ==
  \A s \in Used :
    \E d \in Slots : /\ Probe(flows[s].key, d) = s
                     /\ \A e \in 0 .. d - 1 : flows[Probe(flows[s].key, e)].in_use

(* The counters of a tracked conversation are exact: they are everything   *)
(* record_flow() was ever given for it, in both directions, also after the *)
(* table filled up ("flows already present keep accumulating").            *)
TrackedExactly ==
  \A i \in Used :
    LET c == ConversationOfKey(flows[i].key)
    IN  /\ flows[i].packets = offered[c].packets
        /\ flows[i].bytes = offered[c].bytes

(* A conversation that was seen is missing only from a table with no free  *)
(* slot: the probe loop never gives up before it has tried all of them.    *)
UntrackedOnlyWhenFull ==
  \A c \in Conversation :
    \/ offered[c].packets = 0
    \/ \E i \in Used : ConversationOfKey(flows[i].key) = c
    \/ Used = Slots

(* flow_count, which decides if ns_stats_print() lists flows at all, is the*)
(* number of slots in use.                                                 *)
FlowCountExact == flow_count = Cardinality(Used)

(* record_flow() never frees or re-keys a slot, and never takes a packet   *)
(* or a byte back from a flow.                                             *)
NoEviction ==
  [][\A i \in Used : /\ flows'[i].in_use
                     /\ flows'[i].key = flows[i].key
                     /\ flows'[i].packets >= flows[i].packets
                     /\ flows'[i].bytes >= flows[i].bytes]_tableVars

-----------------------------------------------------------------------------
\* Refinement: the table, seen as a dictionary.
Tracked == {ConversationOfKey(flows[i].key) : i \in Used}

SlotOf(c) == CHOOSE i \in Used : ConversationOfKey(flows[i].key) = c

convBar == [c \in Tracked |-> [packets |-> flows[SlotOf(c)].packets,
                               bytes |-> flows[SlotOf(c)].bytes]]

Map == INSTANCE FlowMap WITH conv <- convBar, Capacity <- NS_MAX_FLOWS

(* The hash table implements the bounded dictionary of FlowMap.            *)
RefinesFlowMap == Map!Spec
=============================================================================
