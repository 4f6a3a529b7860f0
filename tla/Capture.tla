------------------------------ MODULE Capture ------------------------------
(***************************************************************************)
(* One run of the program: main() of src/src/main.c, the capture layer of  *)
(* src/src/capture.c and the signal handler of src/src/signal_handler.c.   *)
(*                                                                         *)
(* pc names the next call main(), ns_capture_run() or the packet callback  *)
(* makes.  A signal may arrive between any two of them: handle_signal()    *)
(* runs on the same thread, so it is atomic, but everything it interrupts  *)
(* is not.  pcap_loop(), pcap_dump() and pcap_breakloop() are libpcap's    *)
(* and are modelled from the contract capture.c relies on.                 *)
(***************************************************************************)
EXTENDS Integers, FiniteSets, RunConfig

CONSTANTS MaxPackets,  \* bound: packets delivered in one run
          MaxSignals   \* bound: points of the run at which a signal arrives

ASSUME CaptureAssumption == MaxPackets \in Nat /\ MaxSignals \in Nat

VARIABLES
  pc,                 \* the next call
  config,             \* ns_config_t, what of it main() branches on
  handle,             \* the pcap_t cap.handle stands for
  break_loop,         \* libpcap's flag inside that pcap_t
  dumper,             \* the pcap_dumper_t of --write
  stream,             \* output_stream, when it is not stdout
  handlers,           \* ns_install_signal_handlers() has run
  g_capture_handle,   \* what handle_signal() sees
  ns_stop_requested,  \* set by handle_signal(), read nowhere
  result,             \* of pcap_loop()
  delivered,          \* packets libpcap passed to the callback
  dumped,             \* packets that reached the dump file
  dump_error,         \* the dump file's error indicator, read nowhere
  next_packet_number,
  counted,            \* stats.total_packets
  rendered,           \* calls of ns_output_packet()
  stdout,             \* kinds of text on standard output
  outfile,            \* kinds of text in the file of --output
  status,             \* exit status, "killed" for a signal's default action
  caught              \* history: the pcs at which handle_signal() ran

setup == <<config, handlers>>
sinks == <<dumped, dump_error, next_packet_number, counted, rendered, outfile>>
resources == <<handle, dumper, stream>>
signalling == <<g_capture_handle, ns_stop_requested, break_loop, caught>>
vars == <<pc, setup, sinks, resources, signalling, result, delivered, stdout, status>>

Init ==
  /\ pc = "ns_config_parse"
  /\ config \in Config
  /\ handle = "none" /\ dumper = "none" /\ stream = "none"
  /\ handlers = "default"
  /\ g_capture_handle = "NULL" /\ ns_stop_requested = 0 /\ break_loop = 0
  /\ result = 0
  /\ delivered = 0 /\ dumped = 0 /\ dump_error = 0
  /\ next_packet_number = 0 /\ counted = 0 /\ rendered = 0
  /\ stdout = {} /\ outfile = {}
  /\ status = "running"
  /\ caught = {}

Goto(from, to) == pc = from /\ pc' = to

\* return code from main()
Return(from, code) == Goto(from, "exited") /\ status' = code

-----------------------------------------------------------------------------
\* main() up to the capture loop

\* Bad arguments, --help, --version and --list-interfaces end the run here.
ParseConfig ==
  /\ \/ Goto("ns_config_parse", "ns_filter_build_bpf") /\ UNCHANGED <<status, stdout>>
     \/ Return("ns_config_parse", "1") /\ UNCHANGED stdout
     \/ Return("ns_config_parse", "0") /\ stdout' = stdout \cup {"information"}
  /\ UNCHANGED <<setup, sinks, resources, signalling, result, delivered>>

\* ns_capture_interface_exists() for a live capture, then ns_filter_build_bpf().
BuildFilter ==
  /\ \/ Goto("ns_filter_build_bpf", "ns_capture_open") /\ UNCHANGED status
     \/ Return("ns_filter_build_bpf", "1")
  /\ UNCHANGED <<setup, sinks, resources, signalling, result, delivered, stdout>>

\* ns_capture_open_live() / ns_capture_open_offline(): the handle cannot be
\* had, or it is closed again because activation, the datalink type or the
\* filter fails, or it is kept.
OpenCapture ==
  /\ \/ Goto("ns_capture_open", "ns_capture_open_dump")
        /\ handle' = "open" /\ UNCHANGED status
     \/ Return("ns_capture_open", "1") /\ UNCHANGED handle
     \/ Return("ns_capture_open", "1") /\ handle' = "closed"
  /\ UNCHANGED <<setup, sinks, dumper, stream, signalling, result, delivered, stdout>>

Closed(resource) == IF resource = "open" THEN "closed" ELSE resource

\* Mutant: the dump file is not closed.
CloseHandleOnly == handle' = Closed(handle) /\ UNCHANGED dumper

\* ns_capture_close(): on the error paths of main() and after the loop.
CloseCapture == handle' = Closed(handle) /\ dumper' = Closed(dumper)

OpenDump ==
  /\ \/ /\ config.write_file
        /\ Goto("ns_capture_open_dump", "fopen")
        /\ dumper' = "open" /\ UNCHANGED <<handle, status>>
     \/ config.write_file /\ Return("ns_capture_open_dump", "1") /\ CloseCapture
     \/ /\ ~config.write_file
        /\ Goto("ns_capture_open_dump", "fopen")
        /\ UNCHANGED <<handle, dumper, status>>
  /\ UNCHANGED <<setup, sinks, stream, signalling, result, delivered, stdout>>

\* fopen() of the output file; a live text capture then prints its banner.
Banner == IF config.mode = "live" /\ config.format = "text" /\ ~config.quiet
          THEN {"banner"} ELSE {}

OpenOutput ==
  /\ \/ /\ Goto("fopen", "ns_install_signal_handlers")
        /\ stream' = IF config.output_file THEN "open" ELSE stream
        /\ stdout' = stdout \cup Banner
        /\ UNCHANGED <<handle, dumper, status>>
     \/ /\ config.output_file
        /\ Return("fopen", "1") /\ CloseCapture /\ UNCHANGED <<stream, stdout>>
  /\ UNCHANGED <<setup, sinks, signalling, result, delivered>>

\* Mutant: the handlers are installed by a call that fails unnoticed.
InstallNothing ==
  /\ Goto("ns_install_signal_handlers", "ns_signal_set_capture_handle")
  /\ UNCHANGED <<setup, sinks, resources, signalling, result, delivered, stdout, status>>

InstallHandlers ==
  /\ Goto("ns_install_signal_handlers", "ns_signal_set_capture_handle")
  /\ handlers' = "installed"
  /\ UNCHANGED <<config, sinks, resources, signalling, result, delivered, stdout, status>>

-----------------------------------------------------------------------------
\* ns_capture_run()

RegisterHandle ==
  /\ Goto("ns_signal_set_capture_handle", "pcap_loop")
  /\ g_capture_handle' = handle
  /\ UNCHANGED <<setup, sinks, resources, ns_stop_requested, break_loop, caught,
                 result, delivered, stdout, status>>

\* pcap_loop() has the next packet and calls pcap_packet_callback().
Deliver ==
  /\ Goto("pcap_loop", "pcap_dump")
  /\ break_loop = 0
  /\ delivered < MaxPackets
  /\ delivered' = delivered + 1
  /\ UNCHANGED <<setup, sinks, resources, signalling, result, stdout, status>>

\* pcap_loop() returns: 0 at the end of a file, -2 after pcap_breakloop(),
\* -1 when the file is corrupt or the interface fails.  It looks at the flag
\* before each packet and while it waits for one; a signal after its last look
\* is one that arrives after the return.
LoopReturns(r) ==
  /\ Goto("pcap_loop", "ns_signal_clear_capture_handle")
  /\ break_loop = (IF r = -2 THEN 1 ELSE 0)
  /\ r = 0 => config.mode = "file"
  /\ result' = r
  /\ break_loop' = 0
  /\ UNCHANGED <<setup, sinks, resources, g_capture_handle, ns_stop_requested, caught,
                 delivered, stdout, status>>

\* pcap_dump() returns nothing: a write that fails (a full disk) only sets
\* the error indicator of the dump file.
DumpPacket ==
  /\ Goto("pcap_dump", "ns_packet_parse")
  /\ \/ dumper = "open" /\ dumped' = dumped + 1 /\ UNCHANGED dump_error
     \/ dumper = "open" /\ dump_error' = 1 /\ UNCHANGED dumped
     \/ dumper # "open" /\ UNCHANGED <<dumped, dump_error>>
  /\ UNCHANGED <<setup, next_packet_number, counted, rendered, outfile, resources,
                 signalling, result, delivered, stdout, status>>

ParsePacket ==
  /\ Goto("ns_packet_parse", "ns_stats_update")
  /\ next_packet_number' = next_packet_number + 1
  /\ UNCHANGED <<setup, dumped, dump_error, counted, rendered, outfile, resources,
                 signalling, result, delivered, stdout, status>>

\* Mutant: a packet is not counted once a stop was requested.
CountUnlessStopped ==
  /\ Goto("ns_stats_update", "ns_output_packet")
  /\ counted' = counted + 1 - ns_stop_requested
  /\ UNCHANGED <<setup, dumped, dump_error, next_packet_number, rendered, outfile,
                 resources, signalling, result, delivered, stdout, status>>

CountPacket ==
  /\ Goto("ns_stats_update", "ns_output_packet")
  /\ counted' = counted + 1
  /\ UNCHANGED <<setup, dumped, dump_error, next_packet_number, rendered, outfile,
                 resources, signalling, result, delivered, stdout, status>>

\* What ns_output_packet() writes about a packet: --quiet is looked at for
\* text only.
Rendering == IF config.format = "json" THEN {"json"}
             ELSE IF config.quiet THEN {} ELSE {"text"}

RenderPacket ==
  /\ Goto("ns_output_packet", "pcap_loop")
  /\ rendered' = rendered + 1
  /\ IF stream = "open"
     THEN outfile' = outfile \cup Rendering /\ UNCHANGED stdout
     ELSE stdout' = stdout \cup Rendering /\ UNCHANGED outfile
  /\ UNCHANGED <<setup, dumped, dump_error, next_packet_number, counted, resources,
                 signalling, result, delivered, status>>

\* Mutant: the handler keeps the handle that is about to be closed.
UnregisterNothing ==
  /\ Goto("ns_signal_clear_capture_handle", "ns_capture_close")
  /\ UNCHANGED <<setup, sinks, resources, signalling, result, delivered, stdout, status>>

UnregisterHandle ==
  /\ Goto("ns_signal_clear_capture_handle", "ns_capture_close")
  /\ g_capture_handle' = "NULL"
  /\ UNCHANGED <<setup, sinks, resources, ns_stop_requested, break_loop, caught,
                 result, delivered, stdout, status>>

-----------------------------------------------------------------------------
\* main() after the capture loop

Close ==
  /\ Goto("ns_capture_close", "fclose")
  /\ CloseCapture
  /\ UNCHANGED <<setup, sinks, stream, signalling, result, delivered, stdout, status>>

CloseOutput ==
  /\ Goto("fclose", "ns_stats_print")
  /\ stream' = Closed(stream)
  /\ UNCHANGED <<setup, sinks, handle, dumper, signalling, result, delivered, stdout, status>>

\* Mutant: a loop that was broken out of counts as failed.
LoopFailedAnyNegative == result < 0

LoopFailed == result = -1

\* A failed loop returns 1 without statistics.
Report ==
  /\ \/ /\ LoopFailed
        /\ Return("ns_stats_print", "1") /\ UNCHANGED stdout
     \/ /\ ~LoopFailed
        /\ Return("ns_stats_print", "0")
        /\ stdout' = stdout \cup (IF config.show_stats \/ config.mode = "live"
                                  THEN {"summary"} ELSE {})
  /\ UNCHANGED <<setup, sinks, resources, signalling, result, delivered>>

-----------------------------------------------------------------------------
\* Signals

\* SIGINT or SIGTERM before ns_install_signal_handlers().
DefaultAction ==
  /\ pc # "exited" /\ handlers = "default"
  /\ pc' = "exited" /\ status' = "killed"
  /\ UNCHANGED <<setup, sinks, resources, signalling, result, delivered, stdout>>

\* Mutant: the handler only sets its flag.
handle_signal_flag_only ==
  /\ pc # "exited" /\ handlers = "installed"
  /\ Cardinality(caught \cup {pc}) <= MaxSignals
  /\ ns_stop_requested' = 1
  /\ caught' = caught \cup {pc}
  /\ UNCHANGED <<pc, setup, sinks, resources, g_capture_handle, break_loop,
                 result, delivered, stdout, status>>

handle_signal ==
  /\ pc # "exited" /\ handlers = "installed"
  /\ Cardinality(caught \cup {pc}) <= MaxSignals
  /\ ns_stop_requested' = 1
  /\ break_loop' = IF g_capture_handle # "NULL" THEN 1 ELSE break_loop
  /\ caught' = caught \cup {pc}
  /\ UNCHANGED <<pc, setup, sinks, resources, g_capture_handle,
                 result, delivered, stdout, status>>

-----------------------------------------------------------------------------
\* The steps the program takes by itself.  The next packet of a file is one
\* of them; the next packet of an interface is not.
Program ==
  \/ ParseConfig \/ BuildFilter \/ OpenCapture \/ OpenDump \/ OpenOutput
  \/ InstallHandlers \/ RegisterHandle
  \/ config.mode = "file" /\ Deliver
  \/ LoopReturns(0) \/ LoopReturns(-2)
  \/ DumpPacket \/ ParsePacket \/ CountPacket \/ RenderPacket
  \/ UnregisterHandle \/ Close \/ CloseOutput \/ Report

Environment ==
  \/ config.mode = "live" /\ Deliver
  \/ LoopReturns(-1)
  \/ DefaultAction
  \/ handle_signal

Next == Program \/ Environment

Spec == Init /\ [][Next]_vars /\ WF_vars(Program)

-----------------------------------------------------------------------------
Callback == {"pcap_dump", "ns_packet_parse", "ns_stats_update", "ns_output_packet"}
InLoop == Callback \cup {"pcap_loop"}
PCs == InLoop \cup
       {"ns_config_parse", "ns_filter_build_bpf", "ns_capture_open", "ns_capture_open_dump",
        "fopen", "ns_install_signal_handlers", "ns_signal_set_capture_handle",
        "ns_signal_clear_capture_handle", "ns_capture_close", "fclose", "ns_stats_print",
        "exited"}

Released == handle # "open" /\ dumper # "open" /\ stream # "open"

(* Type invariant.                                                         *)
TypeOK ==
  /\ pc \in PCs
  /\ config \in Config
  /\ handle \in {"none", "open", "closed"}
  /\ dumper \in {"none", "open", "closed"}
  /\ stream \in {"none", "open", "closed"}
  /\ handlers \in {"default", "installed"}
  /\ g_capture_handle \in {"NULL", "open"}
  /\ ns_stop_requested \in {0, 1} /\ break_loop \in {0, 1} /\ dump_error \in {0, 1}
  /\ result \in {0, -1, -2}
  /\ delivered \in 0 .. MaxPackets
  /\ dumped \in Nat /\ next_packet_number \in Nat /\ counted \in Nat /\ rendered \in Nat
  /\ stdout \subseteq {"information", "banner", "text", "json", "summary"}
  /\ outfile \subseteq {"text", "json"}
  /\ status \in {"running", "0", "1", "killed"}
  /\ caught \subseteq PCs

(* Whenever a signal arrives, the handle handle_signal() would pass to     *)
(* pcap_breakloop() has not been closed.                                   *)
HandlerSeesOpenHandle == g_capture_handle # "NULL" => handle = "open"

(* main() never returns, and never prints its summary, with the capture    *)
(* handle, the dump file or the output file still open, whichever of its   *)
(* steps failed.                                                           *)
NothingLeftOpen == status \in {"0", "1"} \/ "summary" \in stdout => Released

(* Between two packets the numbering, the statistics and the output have   *)
(* seen the same packets, wherever in the callback a signal arrived, and   *)
(* so has the dump file as long as no write to it failed.                  *)
SinksAgree ==
  pc \notin Callback =>
    /\ next_packet_number = delivered /\ counted = delivered /\ rendered = delivered
    /\ config.write_file /\ dump_error = 0 => dumped = delivered

(* A signal's default action never costs a captured packet: the handlers   *)
(* are installed before the first packet can be delivered.                 *)
KilledBeforeCapture == status = "killed" => delivered = 0

(* A signal caught while ns_capture_run() has its handle registered ends   *)
(* the run as docs/usage.md:14-16 says: exit status 0, everything closed,  *)
(* and the summary printed if the capture is live.                         *)
StopHonoured ==
  (caught \cap InLoop # {}) ~>
    (status = "0" /\ Released /\ (config.mode = "live" => "summary" \in stdout))

-----------------------------------------------------------------------------
\* Refinement: the run, seen by its user.
phaseBar == IF pc \in InLoop THEN "capturing"
            ELSE IF pc = "exited" THEN "over"
            ELSE IF pc \in {"ns_signal_clear_capture_handle", "ns_capture_close",
                            "fclose", "ns_stats_print"} THEN "ending"
            ELSE "setup"

S == INSTANCE Session WITH
       phase <- phaseBar,
       busy <- pc \in Callback,
       stopping <- break_loop = 1 /\ pc \in InLoop,
       failed <- result = -1,
       packets <- IF pc \in Callback THEN delivered - 1 ELSE delivered,
       outcome <- status,
       counts <- IF pc = "exited" THEN {next_packet_number, counted, rendered} ELSE {}

(* main.c and capture.c together keep module Session: a packet that was    *)
(* taken up is finished, none is taken up behind a stop, a stop is no      *)
(* error, and a run ends with every count at the packets it finished.      *)
SessionKept == S!Spec

-----------------------------------------------------------------------------
(* What the documentation says and the code does not do.                   *)

(* docs/usage.md:14-16: Ctrl+C stops a capture.                            *)
EverySignalStops == (caught # {}) ~> (pc = "exited")

(* main.c:151, "Capture started. Press Ctrl+C to stop.": from then on a    *)
(* Ctrl+C stops the capture and does not kill the program.                 *)
PromptHonoured == "banner" \in stdout => status # "killed"

(* docs/usage.md:89, 93-95: --format json without --output writes JSON     *)
(* Lines, one object per packet, to standard output.                       *)
JsonLinesOnly == config.format = "json" /\ ~config.output_file /\ delivered > 0 =>
                   stdout \subseteq {"json"}

(* config.c:271: --quiet suppresses per-packet output.                     *)
QuietIsQuiet == config.quiet => (stdout \cup outfile) \cap {"text", "json"} = {}

(* config.c:272: --stats prints statistics when the capture ends.          *)
StatsWhenCaptureEnds ==
  config.show_stats /\ pc = "exited" /\ delivered > 0 => "summary" \in stdout

(* docs/usage.md:103: --write writes every packet to the file; a run that  *)
(* reports success has done so.                                            *)
DumpComplete == config.write_file /\ status = "0" => dumped = delivered
=============================================================================
