# NetScope in TLA+

Models, model-checking runs and machine-checked proofs for NetScope, the
command-line packet analyzer in `src/`. Paths below are relative to the
directory that holds `src/` and `tla/`.

## The system

NetScope is a single-threaded program. `main()` parses the command line, opens a
network interface or a capture file through libpcap, and hands every packet to a
callback that writes it to a dump file, parses it, counts it and prints it. The
only concurrency is the signal handler, which may run between any two steps.

| Part | Source | Module |
|------|--------|--------|
| Command line | `config.c` | `CommandLine`, ending in a `RunConfig` |
| Filter builder | `filter.c` | `Filter` |
| Program run | `main.c` | `Capture`, refining `Session` |
| Capture layer | `capture.c` | `Capture` |
| Signal handling | `signal_handler.c` | `Capture` |
| Packet parser | `packet.c` | `Packet`, `PacketShape` |
| Header parsers (Ethernet to ICMPv6) | `protocols/*.c` | `Packet` |
| DNS parser | `protocols/dns.c` | `DnsName`, `DnsMessage` |
| Flow table | `stats.c` | `FlowTable`, refining `FlowMap` |
| Statistics and report | `stats.c` | `Stats`, on top of `FlowTable` |
| Packet callback | `capture.c`, `main.c` | `Pipeline`: `Packet` and `Stats` together |
| Output | `output.c`, `tcp.c` (flags) | `Output`, `JsonString`; the streams in `Capture` |
| Bounds check and readers | `util.c` | `InBounds` and `Reads` in the parsers' modules |
| IPv6 addresses, hex dump | `util.c` | `Ipv6Text`, `HexDump` |
| All functions that write text | `output.c`, `util.c` | `Display`: the four modules above, one call at a time |
| Logging | `log.c` | no: lines on stderr, nothing depends on them |

How the parts meet:

* `CommandLine` ends with a member of `Config` (module `RunConfig`), and `Capture`
  starts from one. The lengths `Filter` is given are those `CommandLine` stores;
  the size of the members that hold them is in `ConfigLimits`, which both extend.
* `Packet` shows that a parsed packet is `WellFormed` (module `PacketShape`);
  `Stats` and `Output` take exactly that for granted. `Pipeline` composes `Packet`
  and `Stats` and takes nothing for granted: the packets that are counted are
  those the parser makes.
* `Stats` extends `FlowTable` and changes its variables only through
  `record_flow`, which theorem `UsesFlowTable` states.
* `DnsMessage` uses of a name what `DnsName` establishes: it fails, or it takes at
  least one byte, ends in the message (`NameEnd`), and has a text that fits its
  buffer (`NameNoOverflow`).
* `Capture` treats parsing, counting and printing of a packet as one step each.

## The modules

**Capture, Session.** `pc` is the next call of `main()`, `ns_capture_run()` or the
packet callback. Every early return of `main()` is a disjunct of the action for
the call that fails. `handle`, `dumper` and `stream` are `none`, `open` or
`closed`. The action `handle_signal` is enabled at every `pc` once the handlers are
installed, `DefaultAction` before that. libpcap is external and modelled from how
`capture.c` uses it: `pcap_loop()` looks at its break flag before each packet and
while it waits, and returns 0, -1 or -2; `pcap_dump()` returns nothing and may
fail. `g_capture_handle` is an ordinary pointer; its accesses are separated from
the loop by calls into libpcap, so the model lets the handler see each write
at once. `Session` is what a run promises without a word of handles or loops: a
packet that was taken up is finished, none is taken up behind a stop, a stop is no
error, and the counts at the end are the packets that were finished. `phaseBar`
and the substitution in `Capture` read a session off a run.

**Packet.** One action per header. A field is chosen when it is read, which is
exact because every field that matters is read once. The state is the captured
length, the offset, the layers found and the payload; `extent` is a history
variable for the furthest byte read or stepped over. The three option-like
extension headers share a format and are one value, `OPTIONS`. `ns_parse_dns()`
is a step that succeeds or fails.

**DnsName.** `ns_dns_decode_name()`, one action per kind of iteration. A pointer
leads back to bytes that were read before, so here the message is a function
fixed at the start. Of the text its length is kept. `iterations` and `extent` are
history variables.

**DnsMessage.** `ns_parse_dns()` on the bytes `packet.c` passes, with the two-byte
length in front of a message over TCP. `questions` and `answers` are the slots
written to, `cut` says that part of an answer's text did not fit. CNAME, NS and PTR
take the same path and are one type, `NAME`. Addresses and `<n bytes>` stand for
their longest text.

**FlowTable, FlowMap.** The hash table with its probe loop, for any hash
function. `Accumulate`, `Insert` and `Untracked` are the three ways the loop
ends. Addresses are integers in the place of strings ordered by `strcmp()`.
`offered` is a history variable: all that was ever recorded for a conversation.
`FlowMap` is what the table promises, a dictionary of bounded size that never
forgets an entry. The mapping `convBar` reads the dictionary off the slots.

**Stats.** `count` holds the packet counters by name; `ns_stats_update` is the
whole function, with `record_flow`. `ns_stats_print` computes what the report is
made of. `qsort()` may order flows of equal size in any way.

**Pipeline.** `Arrive` (libpcap delivers a packet and the structure is cleared),
`Parse` (a step of `Packet`), `Count` (`ns_stats_update` of an `INSTANCE` of `Stats`,
applied to the variables of `Packet`) and `PrintReport`. Addresses and ports, which
`Packet` does not have, are chosen in `Count`.

**CommandLine.** One action per kind of option, in any order and number, then
`CheckOptions` (`ParseSpec`). Of a string its length is kept. `getopt_long()` is external: it
returns the options in order, moves other arguments behind them and answers `?` to
what it does not know. `given`, `vs` and `shortened` are history variables.

**Filter.** `ns_filter_build_bpf()` (`FilterSpec`): the seven pieces in their order, each formatted
into `piece[128]` and appended by `append()`. Buffers other than `main()`'s are
included, since the function takes any.

**Output, JsonString.** `ns_output_packet()` for one packet: `printed` is the list
of lines, `json` the list of tokens (`lbrace` for `{`, and so on), `read` the members
of the packet that were read. The loops over the TCP flags are taken flag by flag,
with the position in `flags[32]`. The history variable `open` has the brackets that
are open behind each token, so that the grammar of JSON is a relation between a
token and the one before it (`MayFollow`). `JsonString` is `json_write_escaped()` on
bytes. The history variable `starts` has the place at which the text of each byte
starts; `Character` is the grammar of one character of a JSON string.

**Ipv6Text, HexDump.** The two functions of `util.c` with loops: the search for
the longest run of zero groups and the text made from it; the lines of a dump in
their 128-byte buffer, with `append_line()` and a callback that may fail. The
width of an offset is a constant operator, so that a dump of a few lines meets
offsets of 16 digits. The text of an address is the sequence of its groups and
colons; `Denotes` says which address such a text stands for, without a word of how
it was made.

**Display.** `Output`, `JsonString`, `HexDump` and `Ipv6Text` as instances in one
specification. None of these functions keeps anything between calls, so a
behaviour is one call of one of them (`function` says which) and the state space
is the sum of the four.

Definitions marked "Mutant" above a definition are plausible mistakes in it; each
property of a passing run is violated when one of them takes its place.

## The runs

Run with `tlc -workers 2 -config <cfg> <module>`.

| Run | Module, cfg | Distinct states | Bounds |
|-----|-------------|-----------------|--------|
| `capture` | `Capture`, `Capture.cfg` | 57964 | 2 packets, signals at 2 points of the run, all configurations |
| `packet` | `MCPacket`, `Packet.cfg` | 78843 | lengths 0 to 140, 2 extension headers |
| `dns_name` | `MCDnsName`, `DnsName.cfg` | 982184 | all messages of up to 6 bytes over 5 byte values, 2 jumps, 3 buffers |
| `dns_message` | `MCDnsMessage`, `DnsMessage.cfg` | 186810 | up to 110 bytes, counts up to 3 for 2 slots each |
| `flow_table` | `MCFlowTable`, `FlowTable.cfg` | 14353 | 3 slots, 6 conversations, 2 packets each |
| `stats` | `MCStats`, `Stats.cfg` | 72057 | 5 packets of 13 kinds, 4 slots, 2 listed |
| `pipeline` | `MCPipeline`, `Pipeline.cfg` | 31833 | 2 packets of 3 lengths, 1 endpoint, 2 slots |
| `command_line` | `MCCommandLine`, `CommandLine.cfg` | 246450 | 4 options, arguments of 0, 255 and 256 bytes |
| `filter` | `MCFilter`, `Filter.cfg` | 59471 | all options, arguments of 0, 122 and 255 bytes, 9 buffers |
| `display` | `MCDisplay`, `Display.cfg` | 175747 | all packets and options with 5 sets of flags; strings of up to 3 bytes of 15 values; dumps of 0 to 50 bytes with offsets of 4, 9 and 16 digits; 3 values in each of the 8 groups of an address |
| `lost_signal` | `Capture`, `CaptureLostSignal.cfg` | violation | 1 packet, signals at 2 points |
| `ipv6_fragment` | `MCPacket`, `PacketIpv6Fragment.cfg` | violation | as `packet` |

Why these are enough to meet the interesting cases:

* Two packets and two signal points put a signal before, inside and after a
  callback, and a second one behind it.
* 140 bytes are more than a tagged Ethernet header with the largest IPv4 and TCP
  headers behind it (18 + 60 + 60), so that each bounds check on them is met from
  both sides. IPv6 extension headers can be longer; those that do not fit take
  the error path. A budget of two headers is exhausted within this length, the
  code's budget of eight would not add another kind of step.
* Six bytes hold a label, a pointer to it, a pointer to a pointer, a cycle of two,
  and a pointer cut in half by the end; buffers of 3 to 6 bytes are met from both
  sides, and more than two jumps occur.
* Three questions for two slots, TXT strings that fill and overrun a buffer of 48
  bytes, and names that fit in one of the two buffers but not in the other.
* Six conversations with a hash that collides fill three slots, wrap around the
  end of the table and leave some out.
* Four slots of which the report lists two: in five packets there are tracked flows
  that are left off the list while the table has room, and a conversation larger
  than all that are listed that came when the table was full.
* The pipeline's lengths let each kind of packet be complete and be cut. TLC looks
  for the packet behind each step of the refinement, hence few lengths and one
  endpoint; the theorem covers the rest.
* Four options hold any two that exclude each other, with one repeated, and a
  `--format` that is changed twice.
* `UINT64_MODULUS` stands for 2^64 and is 65536 in the runs, because TLC's integers
  have 32 bits; the theorem holds for any value above the packet count.

None of the systems runs for ever, so deadlock is not checked: every function
returns, and the composed systems stop at their bound.

What they check. Type invariants that are proved (see The proofs) are repeated in the
runs only where they say more than types: that of `CommandLine`, and those of the
modules under `Display`, which are part of the properties there.

* `capture`: `HandlerSeesOpenHandle` (no signal meets a closed handle),
  `NothingLeftOpen` (every return has released everything), `SinksAgree` (between
  packets the numbering, the statistics and the output have seen the same packets,
  and so has the dump file as long as no write to it failed), `KilledBeforeCapture`
  (a signal's default action costs no captured packet), the liveness property `StopHonoured`
  (a signal during the loop leads to a clean exit), and `SessionKept`, the
  refinement of `Session`.
* `packet`: `ReadsInBounds`, `PayloadIsTail`, `LayersWellFormed`,
  `LaterIpv4FragmentOpaque`, and `Terminates`.
* `dns_name`: `NameReadsInBounds`, `TextInBuffer`, `WorkBounded` (every iteration is
  counted, so this is termination with a bound), `EndOffsetAsWritten` (against an
  independent definition of where a name ends: the least set of positions closed
  under stepping over labels).
* `dns_message`: `MessageReadsInBounds`, `ShownComplete`, `AnswersBehindQuestions`
  (questions without a slot are parsed too, and counts of 65535 cost no more than
  the message is long), `RdataTextFits`.
* `flow_table`: `OneSlotPerConversation`, `ProbeChain`, `TrackedExactly` and
  `RefinesFlowMap`, the refinement of a dictionary that forgets nothing and refuses
  a conversation only when it is full. `UntrackedOnlyWhenFull`, `FlowCountExact` and
  `NoEviction`, which say parts of this of the slots themselves, are proved.
* `stats`: `EveryPacketClassified`, `OtherIsWhatIsLeft` (the unsigned subtraction
  does not wrap), `FlowsAccountForTraffic`, `TopIsTop` (the report lists as many
  conversations as fit, none twice, and the largest; of those that carried more than
  one that is listed, only such are missing as a full table had no slot for).
  `DnsWithinTransport` is proved.
* `pipeline`: `StatisticsHold`, the refinement of `Stats` by parser and statistics
  together, and `FragmentsMakeNoFlow`.
* `command_line`: `ConfigTypes` (no string is longer than its member), `StartsCapture`,
  and `OrderIrrelevant` (what is accepted, and the log level, depend on the options
  and not on their order).
* `filter`: `FilterInBuffer`, `MainNeverTooLong` (512 bytes are enough, with 431
  the longest expression), `ExpressionAsAsked`.
* `display`: `TextAsDecoded` (no other member of a union and no DNS record that was
  not decoded is read, all eight TCP flags just fit in 32 bytes, and `protocol` is
  the highest layer), `JsonLineValid` (against the grammar of JSON), `ParsesBack`
  (against the grammar of JSON strings), `DumpShowsAll` (every byte is shown, and no line is cut), and
  `AddressReadsBack` (the flow table tells addresses apart by their text, so
  different addresses must have different texts).

### Where code and documentation disagree

Each row is about one sentence of the documentation, of a comment, of a message or
of the help text, stated as a property; the comment above the property names the
sentence. The first two have a run that expects the violation. For the others, put
the property in the place of the invariants of the configuration in the first
column, and TLC shows a behaviour that violates it.

| Run or configuration | Property | What happens |
|----------------------|----------|--------------|
| run `lost_signal` | `EverySignalStops` | A signal between `main.c:159` and `capture.c:257` sets a flag nobody reads; a live capture goes on. |
| run `ipv6_fragment` | `LaterFragmentOpaque` | Later IPv6 fragments are parsed as transport headers. The lines that say why this must not be are in the IPv4 handler (`packet.c:60`) and in the IPv4 section of `packet-parsing.md`; the reason they give does not depend on the version. |
| `CaptureLostSignal.cfg` | `PromptHonoured` | "Press Ctrl+C to stop" is printed before the handlers are installed. |
| `CaptureLostSignal.cfg` | `JsonLinesOnly` | The text summary is written to standard output after the JSON Lines. |
| `CaptureLostSignal.cfg` | `QuietIsQuiet` | `--quiet` has no effect on JSON. |
| `CaptureLostSignal.cfg` | `StatsWhenCaptureEnds` | No statistics when the loop fails. |
| `CaptureLostSignal.cfg` | `DumpComplete` | A failed write of the dump file is not noticed. |
| `Packet.cfg` | `ExhaustedInsideChain` | A chain of exactly the allowed length is rejected. |
| `DnsMessage.cfg` | `CountsAsSent` | The length in front of a DNS message over TCP is parsed as its header. |
| `DnsMessage.cfg` | `RdataTextComplete` | The text of a long TXT record is cut. |
| `DnsMessage.cfg` | `NameTextLimited` | Names in record data may have up to 262 characters. |
| `Filter.cfg` | `IcmpSelectsBoth` | `--icmp` leaves out ICMPv6. |
| `Filter.cfg` | `AddressWholeOrRefused` | A long host name is cut in the filter. |
| `CommandLine.cfg` | `StoredWhole` | An argument of 256 bytes or more is cut. |

### Fairness

`Capture` assumes weak fairness of `Program`: the steps the program takes by
itself, including the next packet of a file and the return of the loop at the end
of a file or after a break. It does not assume that an interface delivers a
packet, that a signal arrives or that the loop fails. This takes for granted that
calls return, in particular that a write to a pipe does not block for ever.
`Packet` assumes weak fairness of its next-state relation: it is a sequential
function that runs. The other modules have no fairness; that decoding
a name ends is the safety property `WorkBounded`, and that the loops over a message do
is the theorem `MessageWorkBounded`.

## The proofs

Checked with `tlapm`; they hold for every value of the constants. Every safety
property of the passing runs is proved, and so are the three refinements. Of the two
liveness properties the half that is safety is proved: a number that each step makes
smaller.

* `MainProofs` is about `main()` up to and including the capture, in three parts.
  * A run of the program, for any number of packets and signals. The invariant ties
    each resource to the part of the run in which it is open, each counter to the
    place in the callback, and the break flag to the loop. It gives `HandlerSafe`,
    `AllReleased`, `SameInEverySink`, `NoPacketKilled` and the refinement
    `KeepsSession`. `StopIsFinal` is about a signal that is caught in the loop. From
    then on no packet is taken up, every step but a further signal takes one from
    `StepsToExit`, which is nine at most, and the run ends with status 0, everything
    released and, for a live capture, the summary printed.
  * The command line, from `CommandLineAssumption` (lengths and ports are numbers, a
    member has at least one byte), for any number of options.
    `StartsCapture` and `OrderIrrelevant` speak of the end only and are not inductive.
    The invariant `CommandLineInv` says what each variable of the parser records of
    the options so far: `have_interface` that `--interface` was given,
    `any_simple_filter` that one of the simple filters was, the log level how often
    `-v` was, and so on. `CommandLineTypes`, `AcceptedStartsCapture` and
    `OrderDoesNotMatter` follow. `FilterGetsWhatItNeeds` is the step from here to the
    filter: what `main.c:91-100` takes from an accepted configuration is a
    specification of the kind `Filter` starts from, and a raw expression comes
    alone.
  * The filter, for arguments of less than `NS_CONFIG_STR_LEN` (at least 256) bytes
    and ports up to 65535. The invariant bounds the position before each piece by the
    longest expression up to it and gives `FilterNoOverflow`, `NeverTooLong` and
    `AsAsked`.
* `PipelineProofs`, in two parts.
  * The parser, for any captured lengths and any budget of extension headers. The
    invariant says where offset, extent and payload are (`BytesInv`), which layers
    each parser starts from (`LayersInv`), and what is known of fragments
    (`FragmentInv`). It gives `NoOverread`, `PayloadTail`, `HandsOverWellFormed` and
    `Ipv4FragmentOpaque`. `ParsingIsBounded` counts the calls and the rounds of the
    walk that are left (`StepsLeft`): at most the budget plus five, and fewer with
    each step.
  * Parser and statistics together, from `PipelineAssumption` (the endpoints include
    those with port 0). The parser's invariant holds between and during packets
    (`PipelineInvariant`), so that what is counted is always well-formed:
    `CountsParsedPackets` is the refinement of `Stats`, with its assumption on packets
    discharged, and `NoFlowOfFragments` follows from the fragment part.
    `ReportOfParsedPackets` brings the theorems of `StatsProofs` over. They come
    through an instance of that module for the packets the parser can leave behind,
    with both its assumptions proved of them (`FlowTableReady`, `StatsReady`). What the
    report says is thereby shown for all bytes that may arrive.
* `FlowTableProofs`, from `FlowTableAssumption` (at least one slot, any hash).
  The inductive invariant has the type invariant, canonical keys, and the
  probe chain: from the slot a key hashes to up to the slot that holds it there
  is no free slot. Without the chain `OneSlotPerConversation` is not inductive:
  an insertion could stop at a hole in front of the entry. From it follow
  `OneSlot`, `Findable`, `Exact`, `MissesOnlyWhenFull`, `NeverEvicts`,
  `CountsSlots`, `TableTyped`, and the refinement `ImplementsFlowMap`.
* `StatsProofs`, from `StatsAssumption` (packets are well-formed, fewer than
  2^64). `UsesFlowTable` shows that the statistics implement the flow table, so
  that its theorems carry over (`FlowsInStatistics`). A second invariant relates
  the counters and gives `Classified`, `DnsCarried` and `OtherNeverWraps`;
  `StatisticsTyped` completes it. `ListsTheLargest` takes from the flow table that
  tracked flows are exact, one slot each, and that only a full table misses one, and
  adds that the sorted list is a bijection onto the slots in use. `TrafficAccountedFor` compares
  sums over the slots with counters. A sum over a finite set is a recursive
  definition, so the lemmas on it (`TotalAdd`, `TotalSame`, `TotalChanged`) need
  induction over subsets. They get it from a smallest subset for which a claim
  fails (`MinimalSubset`). With them, each packet adds to the sum what it adds to
  the counters unless the table was full.
* `DnsNameProofs`, for any message, buffer and jump limit. The invariant bounds
  the position, relates the iterations to the jumps and to the text written (each
  label adds at least one character), and says that the position is reached over
  labels as long as no pointer was followed. The last part is what
  `EndOffsetAsWritten` needs. It gives `NameNoOverread`, `NameNoOverflow`,
  `NameWorkBounded` and `NameEnd`. `DecodedForCallers` is what `DnsMessage` has of
  names: a size of at least one byte that ends in the message, and a text of at least
  one character that fits.
* `DnsMessageProofs`, for any message, array sizes and name limit of at least 38
  (so that an IPv6 address fits). The invariant ties the slots written and counted
  to the loop index and gives `MessageNoOverread`, `ShownIsComplete`,
  `LoopsConsumeMessage` and `RdataFits`. `MessageWorkBounded` shows that the loops end:
  `WorkLeft`, twice the bytes that are left and a few steps between the loops, is
  `2 * length + 6` at most and shrinks with every step. `UsedMessageHasHeader` is what
  `Packet` has of this parser: too few bytes for a header are no message.
* `OutputProofs`, from `DisplayAssumption` (flags are those of `tcp.c`, bytes have eight
  bits), in two parts.
  * Strings of any length. The invariant says that the text so far is a quote and, for
    each byte that was read, one character that stands for it, from the place in
    `starts` up to the next one. It gives `StringIsValid`. `OneReading` goes
    from there to the parser on the other side: it can read the bytes in front of the
    first NUL byte from the finished string and nothing else, and stops at its last
    character. A place starts one character at most and a quote starts none
    (`OneCharacter`), so a parser is at the places in `starts`, up to the first where
    it would not be (`SamePlaces`), and stops neither earlier nor later.
  * One packet, for all packets and options. `OutputInv` has five parts. Text and JSON
    exclude each other; the text of the flags in front of index `i` takes `4 * (i - 1) -
    1` bytes at most, so that `flags[32]` never cuts it; `read` stays inside of what was
    decoded; and the JSON line so far is a chain of tokens of which each may follow
    the one before, ending in a token and in open brackets that fit the place in the
    function. The last part is what makes `JsonLineValid`, which speaks of the end
    only, inductive; its proof joins parts of the line (`ChainConcat`), one lemma for
    each part. `OutputIsAsDecoded` and `LineIsOneObject` follow.
* `UtilProofs`, from `DisplayAssumption` (an offset has 4 to 16 digits), in two parts.
  * The hex dump, for data of any length. The invariant bounds the end of the line
    by what was appended so far and says which bytes were shown. It gives
    `DumpIsComplete`.
  * IPv6 addresses with any values in their groups. In the search the invariant says
    that the best run is the first of the longest runs among those that ended so far;
    in the text, that the groups and colons written denote the groups in front of the
    place reached. It gives `AddressTextIsFaithful`. `TextsTellApart` shows that the
    function has an inverse: the text it returns denotes the address, no text denotes
    two (`OneAddress`), so `AddressOf`, which looks at the text alone, gives the
    address back. Two addresses never have the same text, which is what the flow
    table relies on.

Only model-checked: the liveness properties `StopHonoured` and `Terminates`. What
`StopIsFinal` and `ParsingIsBounded` leave open is that the next step is taken, which is
fairness and `ENABLED` and out of the prover's reach.

## Not modelled

* Wording, timestamps, colours and the layout of the verbose block and the report:
  formatting on which nothing depends.
* The list of interfaces, the help text and the log: they only print.
* Tables of names (ICMP and DNS types), MAC and IPv4 addresses and byte counts:
  single lookups or single calls of `snprintf()`.
* Header fields that are only copied for display.
* Link types other than Ethernet: `resolve_link_type()` refuses them.
* The Windows branches.

What could follow: a composition of `Pipeline` with `Output`, which share
`PacketShape`, and of `DnsName` with `DnsMessage`, where the names of a message are
those of its bytes.
