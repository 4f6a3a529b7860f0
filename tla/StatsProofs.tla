---------------------------- MODULE StatsProofs ----------------------------
(***************************************************************************)
(* The counters of ns_stats_t add up, and ns_stats_update() uses the flow  *)
(* table only through record_flow(), so all that FlowTableProofs shows of  *)
(* the table holds of the statistics.  Sums over the flows agree with the  *)
(* counters for tables of any size.                                        *)
(***************************************************************************)
EXTENDS Stats, FlowTableProofs

(* Every step of the statistics is a record_flow() or leaves the table     *)
(* alone.                                                                  *)
THEOREM UsesFlowTable == StatsSpec => Spec
<1>1. StatsInit => Init
  BY DEF StatsInit
<1>2. [StatsNext]_statsVars => [Next]_tableVars
  <2> SUFFICES ASSUME [StatsNext]_statsVars PROVE [Next]_tableVars
    OBVIOUS
  <2>1. ASSUME NEW p \in Packets, ns_stats_update(p) PROVE [Next]_tableVars
    <3>1. CASE HasFlow(p)
      <4>1. /\ FlowProtocol(p) \in Protocol
            /\ EndpointOf(p, p.source) \in Endpoint
            /\ EndpointOf(p, p.destination) \in Endpoint
            /\ p.captured_length \in ByteCount
        BY <3>1, StatsAssumption
      <4> QED BY <2>1, <3>1, <4>1, Zenon DEF ns_stats_update, Next
    <3>2. CASE ~HasFlow(p)
      BY <2>1, <3>2, Zenon DEF ns_stats_update
    <3> QED BY <3>1, <3>2
  <2>2. CASE ns_stats_print
    BY <2>2 DEF ns_stats_print
  <2>3. CASE UNCHANGED statsVars
    BY <2>3 DEF statsVars, tableVars
  <2> QED BY <2>1, <2>2, <2>3 DEF StatsNext
<1> QED BY <1>1, <1>2, PTL DEF StatsSpec, Spec

(* In the statistics, tracked conversations are exact, none is split, and  *)
(* one is missing only when the table is full.                             *)
THEOREM FlowsInStatistics ==
  StatsSpec => [](OneSlotPerConversation /\ TrackedExactly /\ UntrackedOnlyWhenFull)
BY UsesFlowTable, OneSlot, Exact, MissesOnlyWhenFull, PTL

-----------------------------------------------------------------------------
\* By how much ns_stats_update() raises a counter.
Bump(p, c) == IF Counted(p, c) THEN 1 ELSE 0

(* What one packet adds to the counters.                                   *)
LEMMA BumpsAddUp ==
  ASSUME NEW p \in Packets
  PROVE  /\ \A c \in Counter : Bump(p, c) \in {0, 1}
         /\ Bump(p, "total_packets") = 1
         /\ Bump(p, "ipv4_packets") + Bump(p, "ipv6_packets") + Bump(p, "arp_packets")
              + Bump(p, "unsupported_packets") <= 1
         /\ 1 <= Bump(p, "ipv4_packets") + Bump(p, "ipv6_packets") + Bump(p, "arp_packets")
                   + Bump(p, "unsupported_packets") + Bump(p, "malformed_packets")
         /\ Bump(p, "tcp_packets") + Bump(p, "udp_packets") + Bump(p, "icmp_packets")
              + Bump(p, "icmpv6_packets") + Bump(p, "arp_packets")
              + Bump(p, "unsupported_packets") + Bump(p, "malformed_packets") <= 1
         /\ Bump(p, "dns_packets") <= Bump(p, "tcp_packets") + Bump(p, "udp_packets")
<1>1. /\ WellFormed(p)
      /\ p.network_proto \in {"UNKNOWN", "IPV4", "IPV6", "ARP"}
      /\ p.transport_proto \in {"UNKNOWN", "TCP", "UDP", "ICMP", "ICMPV6"}
      /\ p.has_eth \in BOOLEAN /\ p.malformed \in BOOLEAN /\ p.has_dns \in BOOLEAN
  BY StatsAssumption DEF NetworkProto, TransportProto
<1> QED
  BY <1>1 DEF WellFormed, Bump, Counted, NetworkCounter, TransportCounted

\* The counters, seen from the report.
CountInv ==
  /\ count \in [Counter -> Nat]
  /\ count["total_packets"] <= MaxPackets
  /\ EveryPacketClassified
  /\ DnsWithinTransport
  /\ count["tcp_packets"] + count["udp_packets"] + count["icmp_packets"]
       + count["icmpv6_packets"] + count["arp_packets"]
       + count["unsupported_packets"] + count["malformed_packets"] <= count["total_packets"]
  /\ report # NoReport => report.other = Other

(* ns_stats_update() keeps the counters consistent.                        *)
LEMMA UpdateCounts ==
  ASSUME CountInv, NEW p \in Packets, ns_stats_update(p)
  PROVE  CountInv'
<1>1. /\ report' = NoReport
      /\ count["total_packets"] < MaxPackets
      /\ count' = [c \in Counter |-> IF Counted(p, c) THEN count[c] + 1 ELSE count[c]]
  BY DEF ns_stats_update
<1>2. \A c \in Counter : count[c] \in Nat
  BY DEF CountInv
<1>3. \A c \in Counter : Bump(p, c) \in {0, 1}
  BY BumpsAddUp
<1>4. ASSUME NEW c \in Counter PROVE count'[c] = count[c] + Bump(p, c) /\ count'[c] \in Nat
  BY <1>1, <1>2 DEF Bump
<1>5. count' \in [Counter -> Nat]
  BY <1>1, <1>4
<1> HIDE DEF Bump
<1>6. {"total_packets", "ipv4_packets", "ipv6_packets", "arp_packets", "dns_packets",
       "malformed_packets", "unsupported_packets", "tcp_packets", "udp_packets",
       "icmp_packets", "icmpv6_packets"} \subseteq Counter
  BY DEF Counter, TransportCounter
<1>7. count'["total_packets"] <= MaxPackets
  BY <1>1, <1>2, <1>4, <1>6, BumpsAddUp, StatsAssumption
<1>8. EveryPacketClassified'
  BY <1>2, <1>3, <1>4, <1>6, BumpsAddUp DEF CountInv, EveryPacketClassified
<1>9. DnsWithinTransport'
  BY <1>2, <1>3, <1>4, <1>6, BumpsAddUp DEF CountInv, DnsWithinTransport
<1>10. (count["tcp_packets"] + count["udp_packets"] + count["icmp_packets"]
          + count["icmpv6_packets"] + count["arp_packets"] + count["unsupported_packets"]
          + count["malformed_packets"] <= count["total_packets"])'
  BY <1>2, <1>3, <1>4, <1>6, BumpsAddUp DEF CountInv
<1> QED BY <1>1, <1>5, <1>7, <1>8, <1>9, <1>10 DEF CountInv

(* The counters are consistent at every moment.                            *)
THEOREM CountersInvariant == StatsSpec => []CountInv
<1>1. StatsInit => CountInv
  <2> SUFFICES ASSUME StatsInit PROVE CountInv
    OBVIOUS
  <2>1. count \in [Counter -> Nat] /\ \A c \in Counter : count[c] = 0
    BY DEF StatsInit
  <2>2. {"total_packets", "ipv4_packets", "ipv6_packets", "arp_packets", "dns_packets",
         "malformed_packets", "unsupported_packets", "tcp_packets", "udp_packets",
         "icmp_packets", "icmpv6_packets"} \subseteq Counter
    BY DEF Counter, TransportCounter
  <2> QED
    BY <2>1, <2>2, StatsAssumption
    DEF StatsInit, CountInv, EveryPacketClassified, DnsWithinTransport
<1>2. CountInv /\ [StatsNext]_statsVars => CountInv'
  <2> SUFFICES ASSUME CountInv, [StatsNext]_statsVars PROVE CountInv'
    OBVIOUS
  <2>1. CASE \E p \in Packets : ns_stats_update(p)
    BY <2>1, UpdateCounts
  <2>2. CASE ns_stats_print
    <3>1. count' = count /\ report'.other = Other
      BY <2>2 DEF ns_stats_print
    <3> QED BY <3>1 DEF CountInv, EveryPacketClassified, DnsWithinTransport, Other
  <2>3. CASE UNCHANGED statsVars
    BY <2>3 DEF statsVars, CountInv, EveryPacketClassified, DnsWithinTransport, Other
  <2> QED BY <2>1, <2>2, <2>3 DEF StatsNext
<1> QED BY <1>1, <1>2, PTL DEF StatsSpec

(* No packet escapes classification.                                       *)
THEOREM Classified == StatsSpec => []EveryPacketClassified
<1>1. CountInv => EveryPacketClassified BY DEF CountInv
<1> QED BY CountersInvariant, <1>1, PTL

(* No DNS message without its packet.                                      *)
THEOREM DnsCarried == StatsSpec => []DnsWithinTransport
<1>1. CountInv => DnsWithinTransport BY DEF CountInv
<1> QED BY CountersInvariant, <1>1, PTL

(* "Other" never wraps around and covers all that was not decoded.         *)
THEOREM OtherNeverWraps == StatsSpec => []OtherIsWhatIsLeft
<1>1. CountInv => OtherIsWhatIsLeft
  <2> SUFFICES ASSUME CountInv, report # NoReport
               PROVE  /\ report.other <= count["total_packets"]
                      /\ count["unsupported_packets"] + count["malformed_packets"]
                           <= report.other
    BY DEF OtherIsWhatIsLeft
  <2> DEFINE left == count["total_packets"] - count["tcp_packets"] - count["udp_packets"]
                       - count["icmp_packets"] - count["icmpv6_packets"]
                       - count["arp_packets"]
  <2>1. \A c \in {"total_packets", "ipv4_packets", "ipv6_packets", "arp_packets",
                  "dns_packets", "malformed_packets", "unsupported_packets", "tcp_packets",
                  "udp_packets", "icmp_packets", "icmpv6_packets"} : count[c] \in Nat
    BY DEF CountInv, Counter, TransportCounter
  <2>2. /\ left \in Nat /\ left <= count["total_packets"]
        /\ count["unsupported_packets"] + count["malformed_packets"] <= left
    BY <2>1 DEF CountInv
  <2>3. left < UINT64_MODULUS
    BY <2>1, <2>2, StatsAssumption DEF CountInv
  <2>4. report.other = left % UINT64_MODULUS
    BY DEF CountInv, Other
  <2> HIDE DEF left
  <2>5. left % UINT64_MODULUS = left
    BY <2>2, <2>3, StatsAssumption
  <2> QED BY <2>2, <2>4, <2>5
<1> QED BY CountersInvariant, <1>1, PTL

-----------------------------------------------------------------------------
\* The list of the report, as qsort() left it.
Sorting(order) ==
  /\ order \in [1 .. Cardinality(Used) -> Used]
  /\ \A i, j \in DOMAIN order : order[i] = order[j] => i = j
  /\ SortedDescending(order)

TopInv == report # NoReport => \E order : Sorting(order) /\ report.top = Listed(order)

(* Nothing is counted behind the report, so its list stays sorted.         *)
LEMMA ReportStays == StatsSpec => []TopInv
<1>1. StatsInit => TopInv BY DEF StatsInit, TopInv
<1>2. TopInv /\ [StatsNext]_statsVars => TopInv'
  <2> SUFFICES ASSUME TopInv, [StatsNext]_statsVars PROVE TopInv'
    OBVIOUS
  <2>1. CASE \E p \in Packets : ns_stats_update(p)
    BY <2>1 DEF ns_stats_update, TopInv
  <2>2. CASE ns_stats_print
    <3>1. PICK order : Sorting(order) /\ report' = [other |-> Other, top |-> Listed(order)]
      BY <2>2, Zenon DEF ns_stats_print, Sorting
    <3>2. flows' = flows /\ flow_count' = flow_count
      BY <2>2 DEF ns_stats_print, tableVars
    <3>3. Used' = Used BY <3>2 DEF Used
    <3>4. Sorting(order)' BY <3>1, <3>2, <3>3 DEF Sorting, SortedDescending
    <3>5. Listed(order)' = Listed(order) BY <3>2 DEF Listed
    <3>6. report'.top = Listed(order) BY <3>1
    <3> QED BY <3>4, <3>5, <3>6 DEF TopInv
  <2>3. CASE UNCHANGED statsVars
    <3>1. flows' = flows /\ flow_count' = flow_count /\ report' = report
      BY <2>3 DEF statsVars, tableVars
    <3>2. Used' = Used BY <3>1 DEF Used
    <3> QED BY <3>1, <3>2, Zenon DEF TopInv, Sorting, SortedDescending, Listed
  <2> QED BY <2>1, <2>2, <2>3 DEF StatsNext
<1> QED BY <1>1, <1>2, PTL DEF StatsSpec

(* Every flow in use has its place in a sorted list of all of them.        *)
LEMMA SortingIsComplete ==
  ASSUME NEW order, Sorting(order)
  PROVE  /\ IsFiniteSet(Used) /\ Cardinality(Used) \in Nat
         /\ \A s \in Used : \E m \in 1 .. Cardinality(Used) : order[m] = s
<1>1. IsFiniteSet(Used)
  <2>1. IsFiniteSet(Slots) BY FS_Interval, FlowTableAssumption DEF Slots
  <2> QED BY <2>1, FS_Subset DEF Used
<1>2. Cardinality(Used) \in Nat BY <1>1, FS_CardinalityType
<1> DEFINE places == 1 .. Cardinality(Used)
<1>3. order \in Injection(places, Used)
  BY DEF Sorting, Injection, IsInjective
<1>4. Cardinality(places) = Cardinality(Used)
  BY <1>2, FS_Interval
<1>5. order \in Surjection(places, Used)
  BY <1>1, <1>3, <1>4, FS_Injection
<1> QED BY <1>1, <1>2, <1>5 DEF Surjection

(* The report's list: its length, and which flow stands where.             *)
LEMMA ListedOrder ==
  ASSUME FlowCountExact, report # NoReport, NEW order, Sorting(order),
         report.top = Listed(order)
  PROVE  /\ \A n \in 1 .. Shown : n \in DOMAIN report.top <=> n <= flow_count
         /\ DOMAIN report.top \subseteq 1 .. Cardinality(Used)
         /\ \A i \in DOMAIN report.top : i <= Shown
         /\ \A i \in DOMAIN report.top : report.top[i] = order[i] /\ order[i] \in Used
<1>1. Cardinality(Used) \in Nat BY SortingIsComplete
<1>2. DOMAIN order = 1 .. Cardinality(Used) /\ \A m \in DOMAIN order : order[m] \in Used
  BY DEF Sorting
<1>3. CASE flow_count = 0
  <2>1. report.top = << >> BY <1>3 DEF Listed
  <2>2. DOMAIN report.top = {} BY <2>1
  <2> QED BY <1>3, <2>2, StatsAssumption
<1>4. CASE flow_count # 0
  <2>1. report.top = [i \in {j \in DOMAIN order : j <= Shown} |-> order[i]]
    BY <1>4 DEF Listed
  <2>2. DOMAIN report.top = {j \in 1 .. Cardinality(Used) : j <= Shown}
    BY <1>2, <2>1
  <2>3. \A i \in DOMAIN report.top : report.top[i] = order[i] /\ order[i] \in Used
    BY <1>2, <2>1, <2>2
  <2>4. \A n \in 1 .. Shown : n \in DOMAIN report.top <=> n <= flow_count
    BY <1>1, <2>2, StatsAssumption DEF FlowCountExact
  <2> QED BY <2>2, <2>3, <2>4
<1> QED BY <1>3, <1>4

(* The report lists as many conversations as fit, none twice, and the      *)
(* largest there were: only one the full table had no slot for may have    *)
(* carried more than a flow that is listed.                                *)
THEOREM ListsTheLargest == StatsSpec => []TopIsTop
<1>1. TopInv /\ TypeOK /\ TrackedExactly /\ UntrackedOnlyWhenFull /\ FlowCountExact
        /\ NothingFromNothing /\ OneSlotPerConversation => TopIsTop
  <2> SUFFICES ASSUME TopInv, TypeOK, TrackedExactly, UntrackedOnlyWhenFull, FlowCountExact,
                      NothingFromNothing, OneSlotPerConversation, report # NoReport
               PROVE  TopIsTop
    BY DEF TopIsTop
  <2>1. PICK order : Sorting(order) /\ report.top = Listed(order)
    BY DEF TopInv
  <2>2. /\ Cardinality(Used) \in Nat
        /\ \A s \in Used : \E m \in 1 .. Cardinality(Used) : order[m] = s
    BY <2>1, SortingIsComplete
  <2>3. DOMAIN order = 1 .. Cardinality(Used)
    BY <2>1 DEF Sorting
  <2>4. /\ \A n \in 1 .. Shown : n \in DOMAIN report.top <=> n <= flow_count
        /\ DOMAIN report.top \subseteq 1 .. Cardinality(Used)
        /\ \A i \in DOMAIN report.top : i <= Shown
        /\ \A i \in DOMAIN report.top : report.top[i] = order[i] /\ order[i] \in Used
    BY <2>1, ListedOrder
  <2>5. ASSUME NEW i \in DOMAIN report.top, NEW j \in DOMAIN report.top,
               ConversationOfKey(flows[report.top[i]].key)
                 = ConversationOfKey(flows[report.top[j]].key)
        PROVE  i = j
    <3>1. order[i] = order[j] BY <2>4, <2>5 DEF OneSlotPerConversation
    <3> QED BY <2>1, <2>3, <2>4, <3>1 DEF Sorting
  <2>6. ASSUME NEW c \in Conversation, NEW i \in DOMAIN report.top
        PROVE  \/ \E j \in 1 .. i : ConversationOfKey(flows[report.top[j]].key) = c
               \/ offered[c].bytes <= flows[report.top[i]].bytes
               \/ /\ flow_count = NS_MAX_FLOWS
                  /\ \A s \in Used : ConversationOfKey(flows[s].key) # c
    <3>1. flows[order[i]].bytes \in Nat BY <2>4 DEF TypeOK, Used
    <3>2. CASE offered[c].packets = 0
      <4>1. offered[c].bytes = 0 BY <3>2 DEF NothingFromNothing
      <4> QED BY <2>4, <3>1, <4>1
    <3>3. CASE \E s \in Used : ConversationOfKey(flows[s].key) = c
      <4>1. PICK s \in Used : ConversationOfKey(flows[s].key) = c BY <3>3
      <4>2. PICK m \in 1 .. Cardinality(Used) : order[m] = s BY <2>2
      <4>3. i \in 1 .. Cardinality(Used) /\ i <= Shown BY <2>4
      <4>4. CASE m <= i
        <5>1. m \in 1 .. i /\ m \in 1 .. Shown
          BY <2>2, <4>3, <4>4, StatsAssumption
        <5>2. m <= flow_count BY <2>2 DEF FlowCountExact
        <5>3. report.top[m] = s BY <2>4, <4>2, <5>1, <5>2
        <5> QED BY <4>1, <5>1, <5>3
      <4>5. CASE m > i
        <5>1. flows[order[i]].bytes >= flows[order[m]].bytes
          BY <2>1, <2>3, <4>3, <4>5 DEF Sorting, SortedDescending
        <5>2. flows[s].bytes = offered[c].bytes BY <4>1 DEF TrackedExactly
        <5>3. flows[s].bytes \in Nat BY DEF TypeOK, Used
        <5> QED BY <2>4, <3>1, <4>2, <5>1, <5>2, <5>3
      <4> QED BY <2>2, <4>3, <4>4, <4>5
    <3>4. CASE Used = Slots /\ ~\E s \in Used : ConversationOfKey(flows[s].key) = c
      <4>1. Cardinality(Slots) = NS_MAX_FLOWS BY FS_Interval, FlowTableAssumption DEF Slots
      <4>2. flow_count = NS_MAX_FLOWS BY <3>4, <4>1 DEF FlowCountExact
      <4> QED BY <3>4, <4>2
    <3> QED BY <3>2, <3>3, <3>4 DEF UntrackedOnlyWhenFull
  <2> QED BY <2>4, <2>5, <2>6 DEF TopIsTop
<1> QED BY <1>1, ReportStays, UsesFlowTable, TableTyped, Exact, MissesOnlyWhenFull, CountsSlots,
           OfferedTogether, OneSlot, PTL

-----------------------------------------------------------------------------
(***************************************************************************)
(* Sums over finite sets.  The fold they are defined by takes the elements *)
(* one after another as CHOOSE picks them; that the order does not matter  *)
(* is an induction over the subsets of a set, by a smallest counterexample.*)
(***************************************************************************)

HasSmallest(C) == \E T \in C : \A U \in C : U \subseteq T => U = T

LEMMA MinimalSubset ==
  ASSUME NEW S, IsFiniteSet(S), NEW C, C \subseteq SUBSET S, C # {}
  PROVE  HasSmallest(C)
<1>1. IsWellFoundedOn(StrictSubsetOrdering(S), SUBSET S)
  BY FS_StrictSubsetOrderingWellFounded, FS_FiniteSubsetsOfFinite, Zenon
<1>2. \E T \in C : \A U \in C : ~ (<<U, T>> \in StrictSubsetOrdering(S))
  BY <1>1, WFMin
<1> QED BY <1>2, Zenon DEF StrictSubsetOrdering, HasSmallest

\* g has the sum of f over each subset of S.
Sums(g, f, S) ==
  /\ g \in [SUBSET S -> Int]
  /\ g[{}] = 0
  /\ \A T \in SUBSET S : \A x \in T : g[T] = f[x] + g[T \ {x}]

Iterates(g, f, S) ==
  g = [s \in SUBSET S |-> IF s = {} THEN 0
                          ELSE f[CHOOSE x \in s : TRUE] + g[s \ {CHOOSE x \in s : TRUE}]]

LEMMA TotalIs == ASSUME NEW f, NEW S PROVE Total(f, S) = (CHOOSE g : Iterates(g, f, S))[S]
BY DEF Total, MapThenSumSet, MapThenFoldSet, Iterates

LEMMA SumsExist ==
  ASSUME NEW S, IsFiniteSet(S), NEW f, \A x \in S : f[x] \in Int
  PROVE  \E g : Sums(g, f, S)
<1> DEFINE D == {T \in SUBSET S : \E g : Sums(g, f, T)}
<1>1. {} \in D
  <2> DEFINE g == [T \in SUBSET {} |-> 0]
  <2>1. Sums(g, f, {}) BY DEF Sums
  <2> QED BY <2>1
<1>2. ASSUME NEW T \in D, NEW a \in S \ T PROVE T \cup {a} \in D
  <2>1. PICK g : Sums(g, f, T) OBVIOUS
  <2> DEFINE h == [U \in SUBSET (T \cup {a}) |-> IF a \in U THEN f[a] + g[U \ {a}] ELSE g[U]]
  <2>2. \A U \in SUBSET (T \cup {a}) : U \ {a} \in SUBSET T /\ (a \notin U => U \in SUBSET T)
    OBVIOUS
  <2>3. h \in [SUBSET (T \cup {a}) -> Int] BY <2>1, <2>2 DEF Sums
  <2>4. h[{}] = 0 BY <2>1 DEF Sums
  <2>5. ASSUME NEW U \in SUBSET (T \cup {a}), NEW x \in U PROVE h[U] = f[x] + h[U \ {x}]
    <3>1. CASE x = a
      <4>1. a \notin U \ {a} /\ U \ {a} \in SUBSET (T \cup {a}) OBVIOUS
      <4> QED BY <3>1, <4>1
    <3>2. CASE x # a /\ a \in U
      <4>1. /\ U \ {x} \in SUBSET (T \cup {a}) /\ a \in U \ {x}
            /\ x \in U \ {a} /\ U \ {a} \in SUBSET T
            /\ (U \ {a}) \ {x} = (U \ {x}) \ {a} /\ (U \ {x}) \ {a} \in SUBSET T
        BY <3>2
      <4>2. g[U \ {a}] = f[x] + g[(U \ {a}) \ {x}] BY <2>1, <4>1, Zenon DEF Sums
      <4>3. f[a] \in Int /\ f[x] \in Int /\ g[(U \ {x}) \ {a}] \in Int BY <2>1, <4>1 DEF Sums
      <4>4. h[U] = f[a] + g[U \ {a}] /\ h[U \ {x}] = f[a] + g[(U \ {x}) \ {a}] BY <3>2, <4>1
      <4> HIDE DEF h
      <4>5. (U \ {a}) \ {x} = (U \ {x}) \ {a} BY <4>1, Zenon
      <4>6. h[U] = f[a] + (f[x] + g[(U \ {x}) \ {a}]) BY <4>2, <4>4, <4>5, Zenon
      <4> QED BY <4>3, <4>4, <4>6
    <3>3. CASE a \notin U
      <4>1. U \in SUBSET T /\ U \ {x} \in SUBSET (T \cup {a}) /\ a \notin U \ {x} BY <3>3
      <4>2. g[U] = f[x] + g[U \ {x}] BY <2>1, <4>1, Zenon DEF Sums
      <4>3. U \in SUBSET (T \cup {a}) /\ h[U] = g[U] BY <3>3
      <4>4. h[U \ {x}] = g[U \ {x}] BY <4>1
      <4> HIDE DEF h
      <4> QED BY <4>2, <4>3, <4>4
    <3> QED BY <3>1, <3>2, <3>3
  <2>6. Sums(h, f, T \cup {a}) BY <2>3, <2>4, <2>5, Zenon DEF Sums
  <2> QED BY <2>6
<1>3. S \in D
  <2> DEFINE E == {T \in SUBSET S : S \ T \in D}
  <2>1. S \in E /\ E \in SUBSET SUBSET S
    <3>1. S \ S = {} OBVIOUS
    <3> QED BY <1>1, <3>1
  <2> HIDE DEF D
  <2>2. PICK T \in E : \A U \in E : U \subseteq T => U = T
    <3>1. E # {} /\ E \subseteq SUBSET S BY <2>1, Zenon
    <3> HIDE DEF E
    <3>2. HasSmallest(E) BY <3>1, MinimalSubset, Zenon
    <3> QED BY <3>2, Zenon DEF HasSmallest
  <2>3. CASE T = {} 
    <3>1. S \ {} = S OBVIOUS
    <3> QED BY <2>3, <3>1
  <2>4. CASE T # {}
    <3>1. PICK a \in T : TRUE BY <2>4
    <3>2. a \in S \ (S \ T) /\ (S \ T) \cup {a} = S \ (T \ {a}) BY <3>1
    <3>3. S \ (T \ {a}) \in D BY <1>2, <3>2
    <3>4. T \ {a} \in E BY <3>3
    <3>5. T \ {a} \subseteq T /\ T \ {a} # T BY <3>1
    <3> QED BY <2>2, <3>4, <3>5, Zenon
  <2> QED BY <2>3, <2>4
<1> QED BY <1>3

LEMMA SumsIterate ==
  ASSUME NEW S, NEW f, NEW g, Sums(g, f, S)
  PROVE  Iterates(g, f, S)
<1>1. ASSUME NEW T \in SUBSET S, T # {}
      PROVE  g[T] = f[CHOOSE x \in T : TRUE] + g[T \ {CHOOSE x \in T : TRUE}]
  <2>1. (CHOOSE x \in T : TRUE) \in T BY <1>1
  <2> QED BY <2>1, Zenon DEF Sums
<1>2. g \in [SUBSET S -> Int] /\ g[{}] = 0 BY DEF Sums
<1> QED BY <1>1, <1>2, Zenon DEF Iterates

LEMMA IterateUnique ==
  ASSUME NEW S, IsFiniteSet(S), NEW f, NEW g, NEW h, Iterates(g, f, S), Iterates(h, f, S)
  PROVE  g = h
<1> DEFINE C == {T \in SUBSET S : g[T] # h[T]}
<1>1. ASSUME C # {} PROVE FALSE
  <2>1. PICK T \in C : \A U \in C : U \subseteq T => U = T
    <3>1. C \subseteq SUBSET S OBVIOUS
    <3> HIDE DEF C
    <3>2. HasSmallest(C) BY <1>1, <3>1, MinimalSubset, Zenon
    <3> QED BY <3>2, Zenon DEF HasSmallest
  <2>2. CASE T = {} BY <2>2 DEF Iterates
  <2>3. CASE T # {}
    <3> DEFINE x == CHOOSE x \in T : TRUE
    <3>1. x \in T BY <2>3
    <3>2. T \ {x} \in SUBSET S /\ T \ {x} \subseteq T /\ T \ {x} # T BY <3>1
    <3>3. g[T \ {x}] = h[T \ {x}] BY <2>1, <3>2
    <3>4. g[T] = f[x] + g[T \ {x}] /\ h[T] = f[x] + h[T \ {x}] BY <2>3 DEF Iterates
    <3> QED BY <3>3, <3>4
  <2> QED BY <2>2, <2>3
<1>2. g = [T \in SUBSET S |-> g[T]] /\ h = [T \in SUBSET S |-> h[T]] BY DEF Iterates
<1> QED BY <1>1, <1>2

LEMMA TotalOf ==
  ASSUME NEW S, IsFiniteSet(S), NEW f, NEW g, Sums(g, f, S)
  PROVE  \A T \in SUBSET S : Total(f, T) = g[T]
<1> TAKE T \in SUBSET S
<1> DEFINE h == [U \in SUBSET T |-> g[U]]
<1>1. Sums(h, f, T)
  <2>1. \A U \in SUBSET T : U \in SUBSET S OBVIOUS
  <2> QED BY <2>1 DEF Sums
<1>2. Iterates(h, f, T) BY <1>1, SumsIterate
<1>3. IsFiniteSet(T) BY FS_Subset
<1> HIDE DEF h
<1>4. Iterates(CHOOSE k : Iterates(k, f, T), f, T) BY <1>2
<1>5. (CHOOSE k : Iterates(k, f, T)) = h BY <1>2, <1>3, <1>4, IterateUnique
<1>6. Total(f, T) = h[T] BY <1>5, TotalIs
<1> QED BY <1>6 DEF h

(* The sum over nothing, over one element more, and of an equal function.  *)
LEMMA TotalEmpty == ASSUME NEW f PROVE Total(f, {}) = 0
<1>1. PICK g : Sums(g, f, {}) BY FS_EmptySet, SumsExist
<1>2. Total(f, {}) = g[{}] BY <1>1, FS_EmptySet, TotalOf
<1> QED BY <1>1, <1>2 DEF Sums

LEMMA TotalAdd ==
  ASSUME NEW S, IsFiniteSet(S), NEW f, NEW x, x \notin S, \A y \in S \cup {x} : f[y] \in Int
  PROVE  /\ Total(f, S) \in Int
         /\ Total(f, S \cup {x}) = f[x] + Total(f, S)
<1> DEFINE T == S \cup {x}
<1>1. IsFiniteSet(T) BY FS_AddElement
<1>2. PICK g : Sums(g, f, T) BY <1>1, SumsExist
<1>3. S \in SUBSET T /\ T \in SUBSET T /\ x \in T /\ T \ {x} = S OBVIOUS
<1> HIDE DEF T
<1>4. Total(f, S) = g[S] /\ Total(f, T) = g[T] BY <1>1, <1>2, <1>3, TotalOf
<1>5. g[T] = f[x] + g[S] /\ g[S] \in Int BY <1>2, <1>3 DEF Sums
<1> QED BY <1>4, <1>5 DEF T

LEMMA TotalSame ==
  ASSUME NEW S, IsFiniteSet(S), NEW f, NEW h, \A y \in S : f[y] \in Int /\ h[y] = f[y]
  PROVE  Total(h, S) = Total(f, S)
<1>1. PICK g : Sums(g, f, S) BY SumsExist
<1>2. Sums(g, h, S) BY <1>1 DEF Sums
<1>3. S \in SUBSET S OBVIOUS
<1> QED BY <1>1, <1>2, <1>3, TotalOf

(* The sum follows a function that changes at one place.                   *)
LEMMA TotalChanged ==
  ASSUME NEW S, IsFiniteSet(S), NEW x \in S, NEW f, NEW h, h[x] \in Int,
         \A y \in S : f[y] \in Int, \A y \in S : y # x => h[y] = f[y]
  PROVE  Total(f, S) \in Int /\ Total(h, S) = Total(f, S) + (h[x] - f[x])
<1> DEFINE R == S \ {x}
<1>1. IsFiniteSet(R) /\ x \notin R /\ R \cup {x} = S BY FS_Subset
<1>2. \A y \in R : f[y] \in Int /\ h[y] = f[y] OBVIOUS
<1>3. \A y \in R \cup {x} : f[y] \in Int /\ h[y] \in Int BY <1>1, <1>2
<1> HIDE DEF R
<1>4. Total(f, R) \in Int /\ Total(f, S) = f[x] + Total(f, R) BY <1>1, <1>3, TotalAdd, Zenon
<1>5. Total(h, S) = h[x] + Total(h, R) BY <1>1, <1>3, TotalAdd, Zenon
<1>6. Total(h, R) = Total(f, R) BY <1>1, <1>2, TotalSame
<1>7. f[x] \in Int /\ h[x] \in Int OBVIOUS
<1> QED BY <1>4, <1>5, <1>6, <1>7

(* What the flows hold is a number.                                        *)
LEMMA FlowTotals ==
  ASSUME TypeOK
  PROVE  /\ IsFiniteSet(Used) /\ Used \subseteq Slots /\ IsFiniteSet(Slots)
         /\ \A s \in Slots : flows[s].packets \in Nat /\ flows[s].bytes \in Nat
<1>1. IsFiniteSet(Slots) BY FS_Interval, FlowTableAssumption DEF Slots
<1> QED BY <1>1, FS_Subset DEF Used, TypeOK

(* record_flow() adds one packet and its bytes to what the flows hold, or  *)
(* finds the table full and adds nothing.                                  *)
FlowsGrow(n) == /\ FlowPackets' = FlowPackets + 1 /\ FlowBytes' = FlowBytes + n
                /\ flow_count' \in Nat /\ flow_count' >= flow_count

FlowsFull == /\ FlowPackets' = FlowPackets /\ FlowBytes' = FlowBytes
             /\ flow_count' = NS_MAX_FLOWS

LEMMA RecordedOnce ==
  ASSUME TableInv, FlowCountExact, NEW p \in Protocol, NEW x \in Endpoint, NEW y \in Endpoint,
         NEW n \in ByteCount, record_flow(p, x, y, n),
         FlowPackets \in Int, FlowBytes \in Int
  PROVE  FlowsGrow(n) \/ FlowsFull
<1> DEFINE k == Canonical(p, x, y)
           Pk == [s \in Slots |-> flows[s].packets]
           By == [s \in Slots |-> flows[s].bytes]
           Qk == [s \in Slots |-> flows'[s].packets]
           Qy == [s \in Slots |-> flows'[s].bytes]
<1>1. k \in FlowKey /\ TypeOK /\ ProbeChain BY CanonicalKey DEF TableInv
<1>2. Accumulate(k, n) \/ Insert(k, n) \/ Untracked(k) BY Zenon DEF record_flow
<1>3. n \in Nat /\ flow_count \in Nat BY <1>1, FlowTableAssumption DEF TypeOK
<1>4. /\ IsFiniteSet(Used) /\ Used \subseteq Slots
      /\ \A s \in Slots : flows[s].packets \in Nat /\ flows[s].bytes \in Nat
  BY <1>1, FlowTotals
<1>5. /\ FlowPackets = Total(Pk, Used) /\ FlowBytes = Total(By, Used)
      /\ FlowPackets' = Total(Qk, Used') /\ FlowBytes' = Total(Qy, Used')
  BY DEF FlowPackets, FlowBytes
<1>6. \A s \in Slots : /\ Pk[s] = flows[s].packets /\ By[s] = flows[s].bytes
                       /\ Qk[s] = flows'[s].packets /\ Qy[s] = flows'[s].bytes
  OBVIOUS
<1>7. DOMAIN flows = Slots BY <1>1 DEF TypeOK
<1> HIDE DEF k, Pk, By, Qk, Qy
<1>8. CASE Accumulate(k, n)
  <2>1. PICK s \in Used : /\ flows' = [flows EXCEPT ![s] = Touched(@, n)]
                          /\ UNCHANGED flow_count
    BY <1>1, <1>8, AccumulateSlot
  <2>2. Used' = Used BY <1>1, <2>1 DEF Used, Touched, TypeOK
  <2>3. \A u \in Used : u # s => flows'[u] = flows[u] BY <1>4, <1>7, <2>1
  <2>4. flows'[s].packets = flows[s].packets + 1 /\ flows'[s].bytes = flows[s].bytes + n
    BY <1>4, <1>7, <2>1 DEF Touched
  <2>5. /\ Qk[s] = Pk[s] + 1 /\ Qy[s] = By[s] + n
        /\ \A u \in Used : Pk[u] \in Int /\ By[u] \in Int
        /\ \A u \in Used : u # s => Qk[u] = Pk[u] /\ Qy[u] = By[u]
    BY <1>4, <1>6, <2>3, <2>4
  <2>6. Pk[s] \in Int /\ By[s] \in Int /\ Qk[s] \in Int /\ Qy[s] \in Int BY <1>3, <2>5
  <2>7. Total(Qk, Used) = Total(Pk, Used) + (Qk[s] - Pk[s])
    BY <1>4, <2>5, <2>6, TotalChanged
  <2>8. Total(Qy, Used) = Total(By, Used) + (Qy[s] - By[s])
    BY <1>4, <2>5, <2>6, TotalChanged
  <2>9. FlowPackets' = FlowPackets + 1 BY <1>5, <2>2, <2>5, <2>6, <2>7
  <2>10. FlowBytes' = FlowBytes + n BY <1>3, <1>5, <2>2, <2>5, <2>6, <2>8
  <2> QED BY <1>3, <2>1, <2>9, <2>10 DEF FlowsGrow
<1>9. CASE Insert(k, n)
  <2>1. PICK s \in Slots \ Used : /\ flows' = [flows EXCEPT ![s] = Filled(k, n)]
                                  /\ flow_count' = flow_count + 1
    BY <1>1, <1>9, InsertSlot
  <2>2. Used' = Used \cup {s} BY <1>1, <2>1 DEF Used, Filled, TypeOK
  <2>3. \A u \in Used : flows'[u] = flows[u] BY <1>4, <1>7, <2>1
  <2>4. flows'[s].packets = 1 /\ flows'[s].bytes = n BY <1>7, <2>1, SMTT(20) DEF Filled
  <2>5. /\ Qk[s] = 1 /\ Qy[s] = n
        /\ \A u \in Used : Pk[u] \in Int /\ Qk[u] = Pk[u]
        /\ \A u \in Used : By[u] \in Int /\ Qy[u] = By[u]
    BY <1>4, <1>6, <2>3, <2>4
  <2>6. /\ \A u \in Used \cup {s} : Qk[u] \in Int
        /\ \A u \in Used \cup {s} : Qy[u] \in Int
    BY <1>3, <2>5
  <2>7. /\ Total(Qk, Used) \in Int /\ Total(Qk, Used \cup {s}) = 1 + Total(Qk, Used)
        /\ Total(Qy, Used) \in Int /\ Total(Qy, Used \cup {s}) = n + Total(Qy, Used)
    BY <1>4, <2>5, <2>6, TotalAdd, Zenon
  <2>8. Total(Qk, Used) = Total(Pk, Used) /\ Total(Qy, Used) = Total(By, Used)
    BY <1>4, <2>5, TotalSame
  <2> QED BY <1>3, <1>5, <2>1, <2>2, <2>7, <2>8 DEF FlowsGrow
<1>10. CASE Untracked(k)
  <2>1. Used = Slots /\ flows' = flows /\ flow_count' = flow_count
    BY <1>1, <1>10, UntrackedFull
  <2>2. Cardinality(Slots) = NS_MAX_FLOWS
    BY FlowTableAssumption, FS_Interval DEF Slots
  <2>3. Used' = Used BY <2>1 DEF Used
  <2>4. FlowPackets' = FlowPackets /\ FlowBytes' = FlowBytes
    BY <2>1, <2>3 DEF FlowPackets, FlowBytes
  <2> QED BY <2>1, <2>2, <2>4 DEF FlowsFull, FlowCountExact
<1> QED BY <1>2, <1>8, <1>9, <1>10

-----------------------------------------------------------------------------
BytesCounted == captured_bytes \in Nat /\ wire_bytes \in Nat

LEMMA BytesAreNaturals == StatsSpec => []BytesCounted
<1>1. StatsInit => BytesCounted BY DEF StatsInit, BytesCounted
<1>2. BytesCounted /\ [StatsNext]_statsVars => BytesCounted'
  <2> SUFFICES ASSUME BytesCounted, [StatsNext]_statsVars PROVE BytesCounted'
    OBVIOUS
  <2>1. ASSUME NEW p \in Packets, ns_stats_update(p) PROVE BytesCounted'
    <3>1. p.captured_length \in Nat /\ p.original_length \in Nat
      BY StatsAssumption, FlowTableAssumption, Zenon
    <3> QED BY <2>1, <3>1 DEF ns_stats_update, BytesCounted
  <2>2. CASE ns_stats_print BY <2>2 DEF ns_stats_print, BytesCounted
  <2>3. CASE UNCHANGED statsVars BY <2>3 DEF statsVars, BytesCounted
  <2> QED BY <2>1, <2>2, <2>3 DEF StatsNext
<1> QED BY <1>1, <1>2, PTL DEF StatsSpec

(* The sum of the transport counters, written out.                         *)
LEMMA TransportTotal ==
  ASSUME NEW f, \A c \in TransportCounter : f[c] \in Int
  PROVE  Total(f, TransportCounter)
           = f["tcp_packets"] + f["udp_packets"] + f["icmp_packets"] + f["icmpv6_packets"]
<1> DEFINE A == {} \cup {"tcp_packets"}
           B == A \cup {"udp_packets"}
           C == B \cup {"icmp_packets"}
           D == C \cup {"icmpv6_packets"}
<1>1. D = TransportCounter BY DEF TransportCounter
<1>2. /\ \A c \in A : f[c] \in Int
      /\ \A c \in B : f[c] \in Int
      /\ \A c \in C : f[c] \in Int
      /\ \A c \in D : f[c] \in Int
  BY DEF TransportCounter
<1>3. "udp_packets" \notin A /\ "icmp_packets" \notin B /\ "icmpv6_packets" \notin C OBVIOUS
<1>4. IsFiniteSet({}) /\ IsFiniteSet(A) BY FS_EmptySet, FS_AddElement
<1> HIDE DEF A
<1>5. IsFiniteSet(B) BY <1>4, FS_AddElement
<1> HIDE DEF B
<1>6. IsFiniteSet(C) BY <1>5, FS_AddElement
<1> HIDE DEF C
<1>7. Total(f, D) = f["icmpv6_packets"] + Total(f, C) BY <1>2, <1>3, <1>6, TotalAdd DEF D
<1>8. Total(f, C) = f["icmp_packets"] + Total(f, B) BY <1>2, <1>3, <1>5, TotalAdd, Zenon DEF C
<1>9. Total(f, B) = f["udp_packets"] + Total(f, A) BY <1>2, <1>3, <1>4, TotalAdd, Zenon DEF B
<1>10. Total(f, A) = f["tcp_packets"] + 0 BY <1>2, <1>4, TotalAdd, TotalEmpty, Zenon DEF A
<1>11. /\ f["tcp_packets"] \in Int /\ f["udp_packets"] \in Int
       /\ f["icmp_packets"] \in Int /\ f["icmpv6_packets"] \in Int
  BY DEF TransportCounter
<1> HIDE DEF D
<1> QED BY <1>1, <1>7, <1>8, <1>9, <1>10, <1>11

\* Packets that have a transport protocol or are ARP.
Carried == count["arp_packets"] + Total(count, TransportCounter)

(* A packet is counted as carried exactly when it has a flow.              *)
LEMMA CarriedGrows ==
  ASSUME CountInv, CountInv', NEW p \in Packets, ns_stats_update(p)
  PROVE  Carried \in Int /\ Carried' = Carried + (IF HasFlow(p) THEN 1 ELSE 0)
<1> DEFINE five(f) == f["arp_packets"] + (f["tcp_packets"] + f["udp_packets"]
                        + f["icmp_packets"] + f["icmpv6_packets"])
<1>1. {"arp_packets", "tcp_packets", "udp_packets", "icmp_packets", "icmpv6_packets"}
        \subseteq Counter /\ TransportCounter \subseteq Counter
  BY DEF Counter, TransportCounter
<1>2. \A c \in Counter : count[c] \in Nat /\ count'[c] \in Nat BY DEF CountInv
<1>3. \A c \in TransportCounter : count[c] \in Int /\ count'[c] \in Int BY <1>1, <1>2
<1>4. Total(count, TransportCounter) = count["tcp_packets"] + count["udp_packets"]
                                         + count["icmp_packets"] + count["icmpv6_packets"]
  BY <1>3, TransportTotal
<1>5. Total(count', TransportCounter) = count'["tcp_packets"] + count'["udp_packets"]
                                          + count'["icmp_packets"] + count'["icmpv6_packets"]
  BY <1>3, TransportTotal
<1>6. Carried = five(count) /\ Carried' = five(count') BY <1>4, <1>5 DEF Carried
<1>7. \A c \in Counter : count'[c] = count[c] + Bump(p, c)
  BY <1>2 DEF ns_stats_update, Bump
<1>8. \A c \in Counter : Bump(p, c) \in {0, 1} BY BumpsAddUp
<1>9. Bump(p, "arp_packets") + (Bump(p, "tcp_packets") + Bump(p, "udp_packets")
        + Bump(p, "icmp_packets") + Bump(p, "icmpv6_packets")) = (IF HasFlow(p) THEN 1 ELSE 0)
  <2>1. /\ WellFormed(p)
        /\ p.network_proto \in {"UNKNOWN", "IPV4", "IPV6", "ARP"}
        /\ p.transport_proto \in {"UNKNOWN", "TCP", "UDP", "ICMP", "ICMPV6"}
    BY StatsAssumption DEF NetworkProto, TransportProto
  <2> QED
    BY <2>1 DEF WellFormed, Bump, Counted, NetworkCounter, TransportCounted, HasFlow
<1> HIDE DEF Bump, HasFlow
<1> QED BY <1>1, <1>2, <1>6, <1>7, <1>8, <1>9

\* The inductive form of FlowsAccountForTraffic.
TrafficInv ==
  /\ FlowPackets \in Int /\ FlowBytes \in Int
  /\ FlowPackets <= Carried /\ FlowBytes <= captured_bytes
  /\ flow_count < NS_MAX_FLOWS => FlowPackets = Carried

LEMMA UpdateTraffic ==
  ASSUME TableInv, FlowCountExact, CountInv, CountInv', BytesCounted, TrafficInv,
         NEW p \in Packets, ns_stats_update(p)
  PROVE  TrafficInv'
<1> DEFINE n == p.captured_length
<1>1. Carried \in Int /\ Carried' = Carried + (IF HasFlow(p) THEN 1 ELSE 0)
  BY CarriedGrows
<1>2. captured_bytes' = captured_bytes + n BY DEF ns_stats_update
<1>3. /\ n \in ByteCount /\ n \in Nat /\ captured_bytes \in Int
      /\ flow_count \in Nat /\ NS_MAX_FLOWS \in Nat
  <2>1. n \in ByteCount BY StatsAssumption
  <2>2. ByteCount \subseteq Nat /\ NS_MAX_FLOWS \in Nat BY FlowTableAssumption
  <2>3. captured_bytes \in Int BY DEF BytesCounted
  <2>4. flow_count \in Nat BY DEF TableInv, TypeOK
  <2> QED BY <2>1, <2>2, <2>3, <2>4, Zenon
<1>4. /\ FlowPackets \in Int /\ FlowBytes \in Int
      /\ FlowPackets <= Carried /\ FlowBytes <= captured_bytes
      /\ flow_count < NS_MAX_FLOWS => FlowPackets = Carried
  BY DEF TrafficInv
<1>5. CASE HasFlow(p)
  <2>1. /\ FlowProtocol(p) \in Protocol
        /\ EndpointOf(p, p.source) \in Endpoint
        /\ EndpointOf(p, p.destination) \in Endpoint
    BY <1>5, StatsAssumption
  <2>2. record_flow(FlowProtocol(p), EndpointOf(p, p.source), EndpointOf(p, p.destination), n)
    BY <1>5, Zenon DEF ns_stats_update
  <2>3. FlowsGrow(n) \/ FlowsFull BY <1>3, <1>4, <2>1, <2>2, RecordedOnce
  <2>4. Carried' = Carried + 1 BY <1>1, <1>5
  <2> HIDE DEF n
  <2>5. CASE FlowsGrow(n)
    <3>1. /\ FlowPackets' = FlowPackets + 1 /\ FlowBytes' = FlowBytes + n
          /\ flow_count' \in Nat /\ flow_count' >= flow_count
      BY <2>5 DEF FlowsGrow
    <3> QED BY <1>1, <1>2, <1>3, <1>4, <2>4, <3>1 DEF TrafficInv
  <2>6. CASE FlowsFull
    <3>1. /\ FlowPackets' = FlowPackets /\ FlowBytes' = FlowBytes /\ flow_count' = NS_MAX_FLOWS
      BY <2>6 DEF FlowsFull
    <3> QED BY <1>1, <1>2, <1>3, <1>4, <2>4, <3>1 DEF TrafficInv
  <2> QED BY <2>3, <2>5, <2>6
<1>6. CASE ~HasFlow(p)
  <2>1. flows' = flows /\ flow_count' = flow_count
    BY <1>6, Zenon DEF ns_stats_update, tableVars
  <2>2. FlowPackets' = FlowPackets /\ FlowBytes' = FlowBytes
    BY <2>1 DEF FlowPackets, FlowBytes, Used
  <2>3. Carried' = Carried BY <1>1, <1>6
  <2> HIDE DEF n
  <2> QED BY <1>1, <1>2, <1>3, <1>4, <2>1, <2>2, <2>3 DEF TrafficInv
<1> QED BY <1>5, <1>6

(* The flows account for the traffic, whatever packets come in whatever    *)
(* order: until the table is full, their packet counts add up to the       *)
(* counters of record_flow()'s callers, and never to more.                 *)
THEOREM TrafficAccountedFor == StatsSpec => []FlowsAccountForTraffic
<1>1. StatsInit => TrafficInv
  <2> SUFFICES ASSUME StatsInit PROVE TrafficInv
    OBVIOUS
  <2>1. Used = {} BY DEF StatsInit, Init, Used, FreeSlot
  <2>2. FlowPackets = 0 /\ FlowBytes = 0 BY <2>1, TotalEmpty DEF FlowPackets, FlowBytes
  <2>3. \A c \in Counter : count[c] = 0 BY DEF StatsInit
  <2>4. /\ \A c \in TransportCounter : count[c] = 0 /\ count[c] \in Int
        /\ count["arp_packets"] = 0
    BY <2>3 DEF Counter, TransportCounter
  <2>5. Total(count, TransportCounter)
          = count["tcp_packets"] + count["udp_packets"] + count["icmp_packets"]
              + count["icmpv6_packets"]
    BY <2>4, TransportTotal
  <2>6. Carried = 0 BY <2>4, <2>5 DEF Carried, TransportCounter
  <2> QED BY <2>2, <2>6 DEF StatsInit, TrafficInv
<1>2. /\ TableInv /\ FlowCountExact /\ CountInv /\ CountInv' /\ BytesCounted /\ TrafficInv
      /\ [StatsNext]_statsVars
      => TrafficInv'
  <2> SUFFICES ASSUME TableInv, FlowCountExact, CountInv, CountInv', BytesCounted, TrafficInv,
                      [StatsNext]_statsVars
               PROVE  TrafficInv'
    OBVIOUS
  <2>1. CASE \E p \in Packets : ns_stats_update(p) BY <2>1, UpdateTraffic
  <2>2. CASE ns_stats_print \/ UNCHANGED statsVars
    <3>1. flows' = flows /\ flow_count' = flow_count /\ count' = count
          /\ captured_bytes' = captured_bytes
      BY <2>2 DEF ns_stats_print, statsVars, tableVars
    <3> QED BY <3>1 DEF TrafficInv, FlowPackets, FlowBytes, Carried, Used
  <2> QED BY <2>1, <2>2 DEF StatsNext
<1>3. TrafficInv => FlowsAccountForTraffic
  BY DEF TrafficInv, Carried, FlowsAccountForTraffic
<1> QED
  BY <1>1, <1>2, <1>3, UsesFlowTable, TableInvariant, CountsSlots, CountersInvariant,
     BytesAreNaturals, PTL DEF StatsSpec

(* The counters and the report keep their types; no more conversations     *)
(* are listed than ns_stats_print() is asked for.                          *)
THEOREM StatisticsTyped == StatsSpec => []StatsTypeOK
<1>1. TypeOK /\ CountInv /\ TopInv /\ BytesCounted => StatsTypeOK
  <2> SUFFICES ASSUME TypeOK, CountInv, TopInv, BytesCounted, report # NoReport
               PROVE  /\ report.other \in 0 .. UINT64_MODULUS - 1
                      /\ \E n \in 0 .. Shown : report.top \in [1 .. n -> Slots]
    BY DEF StatsTypeOK, CountInv, BytesCounted
  <2>1. report.other \in 0 .. UINT64_MODULUS - 1
    <3>1. \A c \in Counter : count[c] \in Nat BY DEF CountInv
    <3>2. \A c \in {"total_packets", "tcp_packets", "udp_packets", "icmp_packets",
                    "icmpv6_packets", "arp_packets"} : count[c] \in Int
      BY <3>1 DEF Counter, TransportCounter
    <3>3. UINT64_MODULUS \in Nat \ {0} BY StatsAssumption
    <3>4. Other \in 0 .. UINT64_MODULUS - 1 BY <3>2, <3>3 DEF Other
    <3> QED BY <3>4 DEF CountInv
  <2>2. PICK order : Sorting(order) /\ report.top = Listed(order)
    BY DEF TopInv
  <2>3. Cardinality(Used) \in Nat /\ Shown \in Nat
    BY <2>2, SortingIsComplete, StatsAssumption
  <2>4. DOMAIN order = 1 .. Cardinality(Used) /\ \A m \in DOMAIN order : order[m] \in Slots
    BY <2>2 DEF Sorting, Used
  <2>5. CASE flow_count = 0
    <3>1. report.top \in [1 .. 0 -> Slots] BY <2>2, <2>5 DEF Listed
    <3> QED BY <2>1, <2>3, <3>1
  <2>6. CASE flow_count # 0
    <3> DEFINE n == IF Cardinality(Used) <= Shown THEN Cardinality(Used) ELSE Shown
    <3>1. n \in 0 .. Shown BY <2>3
    <3>2. {j \in DOMAIN order : j <= Shown} = 1 .. n BY <2>3, <2>4
    <3>3. 1 .. n \subseteq DOMAIN order BY <2>3, <2>4
    <3> HIDE DEF n
    <3>4. report.top \in [1 .. n -> Slots] BY <2>2, <2>4, <2>6, <3>2, <3>3 DEF Listed
    <3> QED BY <2>1, <3>1, <3>4
  <2> QED BY <2>5, <2>6
<1> QED BY <1>1, UsesFlowTable, TableTyped, CountersInvariant, ReportStays, BytesAreNaturals, PTL
=============================================================================
