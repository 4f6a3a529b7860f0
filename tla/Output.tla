------------------------------- MODULE Output -------------------------------
(***************************************************************************)
(* ns_output_packet() of src/src/output.c for one packet: which lines are  *)
(* printed, which members of ns_packet_t are read for them, the text of    *)
(* the TCP flags in its buffer, and the JSON line token by token.  Texts,  *)
(* numbers and colours are left out.  What a string of the JSON line looks *)
(* like is in module JsonString, the hex dump in module HexDump.           *)
(***************************************************************************)
EXTENDS Integers, Sequences, PacketShape

CONSTANT FlagSets   \* sets of TCP flags a packet may have

kFlags == <<"SYN", "ACK", "FIN", "RST", "PSH", "URG", "ECE", "CWR">>

VARIABLES
  pkt,        \* the layers, and the parts of them that output.c branches on
  opts,       \* ns_output_options_t without the colour
  pc,
  printed,    \* the lines of text
  json,       \* the tokens of the JSON line
  open,       \* history: the brackets that are open behind each of them
  protocol,   \* the value of "protocol" in it
  i,          \* index of the loops over kFlags
  pos,        \* bytes in flags[32]
  shown,      \* the flags in it
  read        \* history: the members of pkt that were read

input == <<pkt, opts>>
flags_text == <<pos, shown>>
line == <<json, open>>
vars == <<input, pc, printed, line, protocol, i, flags_text, read>>

\* What ns_packet_parse() leaves behind.  A DNS message that could not be
\* decoded to the end leaves records too, but not has_dns.
Packets ==
  {[layers |-> l, is_response |-> r, questions |-> q, answers |-> a, flags |-> f] :
     l \in {x \in Layers : WellFormed(x)}, r \in BOOLEAN, q \in 0 .. 1, a \in 0 .. 1,
     f \in FlagSets}

Canonical(p) ==
  /\ p.layers.transport_proto \notin {"TCP", "UDP"} => ~p.is_response /\ p.questions = 0 /\ p.answers = 0
  /\ p.layers.transport_proto # "TCP" => p.flags = {}

Init ==
  /\ pkt \in {p \in Packets : Canonical(p)}
  /\ opts \in [format : {"text", "json"}, quiet : BOOLEAN, verbose : BOOLEAN, hex : BOOLEAN]
  /\ pc = "ns_output_packet"
  /\ printed = <<>> /\ json = <<>> /\ open = <<>> /\ protocol = "none"
  /\ i = 1 /\ pos = 0 /\ shown = {} /\ read = {}

Goto(from, to) == pc = from /\ pc' = to

net == pkt.layers.network_proto
transport == pkt.layers.transport_proto

Dispatch ==
  /\ Goto("ns_output_packet", IF opts.format = "json" THEN "json_head"
                              ELSE IF opts.quiet THEN "done" ELSE "text")
  /\ UNCHANGED <<input, printed, line, protocol, i, flags_text, read>>

-----------------------------------------------------------------------------
\* Text

\* Where ns_output_packet() goes on behind print_text_line().
AfterText == IF opts.verbose THEN "verbose" ELSE IF opts.hex THEN "hex" ELSE "done"

\* The two kinds of packet that have a line of their own.
PrintSpecialLine ==
  /\ \/ /\ pkt.layers.malformed
        /\ printed' = Append(printed, "malformed") /\ UNCHANGED read
     \/ /\ ~pkt.layers.malformed /\ net = "ARP"
        /\ printed' = Append(printed, "arp") /\ read' = read \cup {"ARP"}
  /\ Goto("text", AfterText)
  /\ UNCHANGED <<input, line, protocol, i, flags_text>>

\* format_network_addrs()
Addresses == {net} \cap {"IPV4", "IPV6"}

\* The switch over transport_proto reads the member it names.
FormatLine ==
  /\ ~pkt.layers.malformed /\ net # "ARP"
  /\ read' = read \cup Addresses \cup ({transport} \ {"UNKNOWN"})
  /\ Goto("text", IF transport = "TCP" THEN "text_flags" ELSE "text_line")
  /\ i' = 1 /\ pos' = 0 /\ shown' = {}
  /\ UNCHANGED <<input, printed, line, protocol>>

\* Mutant: the kind of message is not compared with the section.
DnsPartsQuestionAlways == IF pkt.is_response /\ pkt.answers > 0 THEN <<"answer">> ELSE <<"question">>

\* The record print_text_line() shows of a DNS message.
DnsParts == IF pkt.is_response /\ pkt.answers > 0 THEN <<"answer">>
            ELSE IF ~pkt.is_response /\ pkt.questions > 0 THEN <<"question">> ELSE <<>>

PrintLine ==
  /\ Goto("text_line", AfterText)
  /\ \/ /\ pkt.layers.has_dns
        /\ printed' = Append(printed, "line") \o DnsParts
        /\ read' = read \cup {DnsParts[n] : n \in 1 .. Len(DnsParts)}
     \/ ~pkt.layers.has_dns /\ printed' = Append(printed, "line") /\ UNCHANGED read
  /\ UNCHANGED <<input, line, protocol, i, flags_text>>

\* char flags[32]
FLAGS_LEN == 32

\* ns_tcp_flags_to_string(): a comma before all but the first name.
FlagFits == IF shown = {} THEN 3 < FLAGS_LEN - pos ELSE 4 < FLAGS_LEN - pos

FlagsToString ==
  /\ pc \in {"text_flags", "verbose_flags"} /\ i <= Len(kFlags)
  /\ \/ kFlags[i] \notin pkt.flags /\ i' = i + 1 /\ UNCHANGED flags_text
     \/ /\ kFlags[i] \in pkt.flags /\ FlagFits
        /\ pos' = pos + (IF shown = {} THEN 3 ELSE 4)
        /\ shown' = shown \cup {kFlags[i]}
        /\ i' = i + 1
     \/ /\ kFlags[i] \in pkt.flags /\ ~FlagFits
        /\ i' = Len(kFlags) + 1 /\ UNCHANGED flags_text
  /\ UNCHANGED <<input, pc, printed, line, protocol, read>>

FlagsDone ==
  /\ i > Len(kFlags)
  /\ \/ Goto("text_flags", "text_line")
     \/ Goto("verbose_flags", "verbose_end")
  /\ UNCHANGED <<input, printed, line, protocol, i, flags_text, read>>

PrintVerboseBlock ==
  /\ read' = read \cup (IF pkt.layers.has_eth THEN {"ETH"} ELSE {})
                  \cup Addresses \cup ({transport} \cap {"TCP", "UDP"})
  /\ Goto("verbose", IF transport = "TCP" THEN "verbose_flags" ELSE "verbose_end")
  /\ i' = 1 /\ pos' = 0 /\ shown' = {}
  /\ UNCHANGED <<input, printed, line, protocol>>

EndVerboseBlock ==
  /\ printed' = Append(printed, "verbose")
  /\ Goto("verbose_end", IF opts.hex THEN "hex" ELSE "done")
  /\ UNCHANGED <<input, line, protocol, i, flags_text, read>>

PrintHexDump ==
  /\ printed' = Append(printed, "hex")
  /\ Goto("hex", "done")
  /\ UNCHANGED <<input, line, protocol, i, flags_text, read>>

-----------------------------------------------------------------------------
\* JSON

\* top_protocol()
TopProtocol == IF pkt.layers.has_dns THEN "DNS"
               ELSE IF transport # "UNKNOWN" THEN transport ELSE net

\* The brackets that are open inside of the object, of an object in it, and of
\* the list of flags.
object == Append(<<>>, "lbrace")
inner == Append(object, "lbrace")
list == Append(inner, "lbracket")

JsonHead ==
  /\ json' = <<"lbrace", "key", "value", "comma", "key", "value", "comma", "key", "value",
               "comma", "key", "value">>
  /\ open' = [n \in 1 .. 12 |-> object]
  /\ protocol' = TopProtocol
  /\ Goto("json_head", "json_addresses")
  /\ UNCHANGED <<input, printed, i, flags_text, read>>

\* One of the two endpoints, with its port if it has one.
HasPort == transport \in {"TCP", "UDP"}
Endpoint == IF HasPort
            THEN <<"comma", "key", "lbrace", "key", "value", "comma", "key", "value", "rbrace">>
            ELSE <<"comma", "key", "lbrace", "key", "value", "rbrace">>
EndpointOpen == IF HasPort
                THEN <<object, object, inner, inner, inner, inner, inner, inner, object>>
                ELSE <<object, object, inner, inner, inner, object>>

JsonAddresses ==
  /\ \/ /\ net \in {"IPV4", "IPV6"}
        /\ json' = json \o Endpoint \o Endpoint
        /\ open' = open \o EndpointOpen \o EndpointOpen
        /\ read' = read \cup Addresses \cup ({transport} \cap {"TCP", "UDP"})
     \/ net \notin {"IPV4", "IPV6"} /\ UNCHANGED <<line, read>>
  /\ Goto("json_addresses", IF transport = "TCP" THEN "json_tcp" ELSE "json_dns")
  /\ UNCHANGED <<input, printed, protocol, i, flags_text>>

JsonTcp ==
  /\ json' = json \o <<"comma", "key", "lbrace", "key", "lbracket">>
  /\ open' = open \o <<object, object, inner, inner, list>>
  /\ read' = read \cup {"TCP"}
  /\ i' = 1
  /\ Goto("json_tcp", "json_flags")
  /\ UNCHANGED <<input, printed, protocol, flags_text>>

\* Mutant: a comma in front of each but the first of all flags.
FirstByIndex == i = 1

\* A comma unless it is the first name in the list.
First == json[Len(json)] = "lbracket"

JsonFlag ==
  /\ pc = "json_flags" /\ i <= Len(kFlags)
  /\ \/ /\ kFlags[i] \in pkt.flags /\ First
        /\ json' = json \o <<"value">> /\ open' = open \o <<list>>
     \/ /\ kFlags[i] \in pkt.flags /\ ~First
        /\ json' = json \o <<"comma", "value">> /\ open' = open \o <<list, list>>
     \/ kFlags[i] \notin pkt.flags /\ UNCHANGED line
  /\ i' = i + 1
  /\ UNCHANGED <<input, pc, printed, protocol, flags_text, read>>

JsonFlagsEnd ==
  /\ i > Len(kFlags)
  /\ json' = json \o <<"rbracket", "rbrace">>
  /\ open' = open \o <<inner, object>>
  /\ Goto("json_flags", "json_dns")
  /\ UNCHANGED <<input, printed, protocol, i, flags_text, read>>

JsonDns ==
  /\ \/ /\ pkt.layers.has_dns /\ pkt.questions > 0
        /\ json' = json \o <<"comma", "key", "lbrace", "key", "value", "comma", "key", "value",
                             "rbrace", "rbrace", "newline">>
        /\ open' = open \o <<object, object, inner, inner, inner, inner, inner, inner, object,
                             <<>>, <<>> >>
        /\ read' = read \cup {"question"}
     \/ /\ ~(pkt.layers.has_dns /\ pkt.questions > 0)
        /\ json' = json \o <<"rbrace", "newline">> /\ open' = open \o << <<>>, <<>> >>
        /\ UNCHANGED read
  /\ Goto("json_dns", "done")
  /\ UNCHANGED <<input, printed, protocol, i, flags_text>>

Next ==
  \/ Dispatch
  \/ PrintSpecialLine \/ FormatLine \/ PrintLine \/ FlagsToString \/ FlagsDone
  \/ PrintVerboseBlock \/ EndVerboseBlock \/ PrintHexDump
  \/ JsonHead \/ JsonAddresses \/ JsonTcp \/ JsonFlag \/ JsonFlagsEnd \/ JsonDns

Spec == Init /\ [][Next]_vars
-----------------------------------------------------------------------------
(* Type invariant; text and JSON exclude each other, --quiet has no text.  *)
TypeOK ==
  /\ printed \in Seq({"malformed", "arp", "line", "answer", "question", "verbose", "hex"})
  /\ json \in Seq({"lbrace", "rbrace", "lbracket", "rbracket", "comma", "key", "value", "newline"})
  /\ i \in 1 .. 9 /\ pos \in 0 .. FLAGS_LEN - 1 /\ shown \subseteq pkt.flags
  /\ printed # <<>> => opts.format = "text" /\ ~opts.quiet
  /\ json # <<>> => opts.format = "json"

\* The members that hold something: the member of each union that belongs
\* to the protocol found, and the DNS records that were decoded.
Decoded ==
  (IF pkt.layers.has_eth THEN {"ETH"} ELSE {})
    \cup ({net, transport} \ {"UNKNOWN"})
    \cup (IF pkt.layers.has_dns
          THEN {"DNS"} \cup (IF pkt.questions > 0 THEN {"question"} ELSE {})
                      \cup (IF pkt.answers > 0 THEN {"answer"} ELSE {})
          ELSE {})

(* Only members that were decoded are read: never another member of a      *)
(* union, never a DNS record the message did not have (output.c:201-212,   *)
(* 383-391).                                                               *)
ReadsDecoded == read \subseteq Decoded

(* The flags in the text are the flags of the packet: flags[32] is just    *)
(* long enough for all eight (output.c:159, tcp.c:56).                     *)
FlagsComplete ==
  pc \in {"text_line", "verbose_end"} /\ transport = "TCP" => shown = pkt.flags

\* The grammar of JSON (RFC 8259, 2): whether token t may follow the token before
\* it, where the brackets b are open in front of t and the brackets c behind it.
Within(bracket, b) == b # <<>> /\ b[Len(b)] = bracket
Complete(before) == before \in {"value", "rbrace", "rbracket"}
ValueExpected(before, b) == \/ Within("lbrace", b) /\ before = "key"
                            \/ Within("lbracket", b) /\ before \in {"lbracket", "comma"}
MayFollow(before, b, t, c) ==
  \/ t = "key" /\ Within("lbrace", b) /\ before \in {"lbrace", "comma"} /\ c = b
  \/ t = "value" /\ ValueExpected(before, b) /\ c = b
  \/ t \in {"lbrace", "lbracket"} /\ ValueExpected(before, b) /\ c = Append(b, t)
  \/ t = "comma" /\ Complete(before) /\ c # <<>> /\ c = b
  \/ t = "rbrace" /\ Complete(before) /\ b = Append(c, "lbrace")
  \/ t = "rbracket" /\ (Complete(before) \/ before = "lbracket") /\ b = Append(c, "lbracket")

(* docs/usage.md:93, "one compact JSON object per packet": what is written *)
(* is one object in a line of its own, whatever the packet has.            *)
JsonLineValid ==
  pc = "done" /\ opts.format = "json" =>
    /\ printed = <<>> /\ Len(json) > 2 /\ Len(open) = Len(json)
    /\ json[1] = "lbrace" /\ open[1] = <<"lbrace">>
    /\ \A n \in 2 .. Len(json) - 1 : MayFollow(json[n - 1], open[n - 1], json[n], open[n])
    /\ open[Len(json) - 1] = <<>> /\ json[Len(json)] = "newline"

(* "protocol" is the highest layer that was decoded.                       *)
ProtocolIsHighest ==
  protocol # "none" =>
    /\ protocol \in Decoded \cup {"UNKNOWN"}
    /\ protocol # "DNS" => ~pkt.layers.has_dns
    /\ protocol \in {"IPV4", "IPV6", "ARP", "UNKNOWN"} => transport = "UNKNOWN"
    /\ protocol = "UNKNOWN" => net = "UNKNOWN"
=============================================================================
