------------------------------ MODULE FlowMap ------------------------------
(***************************************************************************)
(* What the conversation table of src/src/stats.c promises, with no slots, *)
(* no hashing and no direction: a dictionary from conversations to what    *)
(* was seen of them, which never holds more than Capacity conversations,   *)
(* never forgets one, and ignores a new conversation once it is full       *)
(* (docs/architecture.md, "Statistics and flow tracking").                 *)
(***************************************************************************)
EXTENDS Integers, FiniteSets

CONSTANTS Conversation,  \* what a packet is counted under
          ByteCount,     \* the packet lengths that occur
          Capacity       \* the most conversations ever tracked

VARIABLE conv            \* tracked conversation -> [packets, bytes]

Init == conv = [c \in {} |-> 0]

\* A tracked conversation accumulates, whether or not the map is full.
Accumulate(c, n) ==
  /\ c \in DOMAIN conv
  /\ conv' = [conv EXCEPT ![c] = [packets |-> @.packets + 1, bytes |-> @.bytes + n]]

\* A new one is added while there is room.
Add(c, n) ==
  /\ c \notin DOMAIN conv
  /\ Cardinality(DOMAIN conv) < Capacity
  /\ conv' = [d \in DOMAIN conv \cup {c} |->
                IF d = c THEN [packets |-> 1, bytes |-> n] ELSE conv[d]]

\* Once the map is full a new one is ignored.
Ignore(c) ==
  /\ c \notin DOMAIN conv
  /\ Cardinality(DOMAIN conv) = Capacity
  /\ UNCHANGED conv

Next == \E c \in Conversation, n \in ByteCount :
           Accumulate(c, n) \/ Add(c, n) \/ Ignore(c)

Spec == Init /\ [][Next]_conv
=============================================================================
