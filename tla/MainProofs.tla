----------------------------- MODULE MainProofs -----------------------------
(***************************************************************************)
(* main(), from the command line to the exit.  For every buffer size and   *)
(* every command line: what ns_config_parse() answers depends on which     *)
(* options there are and not on their order, and what it accepts is a      *)
(* configuration module Capture starts from.  For any lengths and ports:   *)
(* the filter expression stays inside its buffer, main()'s buffer is long  *)
(* enough, and the expression has what was asked for.  For every number of *)
(* packets and signals: the capture that follows keeps its invariants.     *)
(***************************************************************************)
EXTENDS Capture, CommandLine, Filter, TLAPS

\* Control points, in program order.
Unopened == {"ns_config_parse", "ns_filter_build_bpf", "ns_capture_open"}
Opened == {"ns_capture_open_dump", "fopen", "ns_install_signal_handlers",
           "ns_signal_set_capture_handle"} \cup InLoop
            \cup {"ns_signal_clear_capture_handle", "ns_capture_close"}
NoDumpYet == Unopened \cup {"ns_capture_open_dump"}
NoOutputYet == NoDumpYet \cup {"fopen"}
Uncaught == NoOutputYet \cup {"ns_install_signal_handlers"}
BeforeLoop == Uncaught \cup {"ns_signal_set_capture_handle"}
Registered == InLoop \cup {"ns_signal_clear_capture_handle"}
Closing == {"fclose", "ns_stats_print"}

(***************************************************************************)
(* The inductive invariant ties each resource and each counter to the      *)
(* control point.                                                          *)
(***************************************************************************)
ResourceInv ==
  /\ pc \in Unopened => handle = "none"
  /\ pc \in Opened => handle = "open"
  /\ pc \in NoDumpYet => dumper = "none"
  /\ pc \in Opened \ NoDumpYet /\ config.write_file => dumper = "open"
  /\ pc \in NoOutputYet => stream = "none"
  /\ pc \in Closing => handle # "open" /\ dumper # "open"
  /\ pc = "ns_stats_print" => stream # "open"

ExitInv ==
  /\ pc # "exited" => status = "running" /\ "summary" \notin stdout
  /\ status \in {"0", "1"} => Released
  /\ "summary" \in stdout => Released

SignalInv ==
  /\ pc \in Registered <=> g_capture_handle # "NULL"
  /\ pc \in PCs \ (Uncaught \cup {"exited"}) => handlers = "installed"
  /\ pc \in BeforeLoop => delivered = 0 /\ break_loop = 0
  /\ status = "killed" => delivered = 0

CounterInv ==
  /\ config.write_file /\ dump_error = 0 =>
       dumped = IF pc = "pcap_dump" THEN delivered - 1 ELSE delivered
  /\ next_packet_number = IF pc \in {"pcap_dump", "ns_packet_parse"}
                          THEN delivered - 1 ELSE delivered
  /\ counted = IF pc \in Callback \ {"ns_output_packet"} THEN delivered - 1 ELSE delivered
  /\ rendered = IF pc \in Callback THEN delivered - 1 ELSE delivered

CaptureInv == TypeOK /\ ResourceInv /\ ExitInv /\ SignalInv /\ CounterInv

(* The invariant holds when main() starts.                                 *)
LEMMA InitInv == Init => CaptureInv
  BY CaptureAssumption DEF Init, CaptureInv, TypeOK, ResourceInv, ExitInv, SignalInv, CounterInv,
     Unopened, Opened, NoDumpYet, NoOutputYet, Uncaught, BeforeLoop, Registered, Closing,
     InLoop, Callback, PCs, Released

(* Every step of the program and every signal preserves the invariant.     *)
LEMMA NextInv == CaptureInv /\ [Next]_vars => CaptureInv'
<1> SUFFICES ASSUME CaptureInv, [Next]_vars PROVE CaptureInv'
  OBVIOUS
<1> USE CaptureAssumption DEF CaptureInv, TypeOK, ResourceInv, ExitInv, SignalInv, CounterInv,
     Unopened, Opened, NoDumpYet, NoOutputYet, Uncaught, BeforeLoop, Registered, Closing,
     InLoop, Callback, PCs, Released, Goto, Return,
     setup, sinks, resources, signalling
<1>1. CASE ParseConfig
  <2>1. /\ stdout' \subseteq {"information", "banner", "text", "json", "summary"}
        /\ "summary" \notin stdout'
    BY <1>1, Zenon DEF ParseConfig
  <2> QED
    BY <1>1, <2>1 DEF ParseConfig
<1>2. CASE BuildFilter
  BY <1>2 DEF BuildFilter
<1>3. CASE OpenCapture
  BY <1>3 DEF OpenCapture
<1>4. CASE OpenDump
  BY <1>4 DEF OpenDump, CloseCapture, Closed
<1>5. CASE OpenOutput
  <2>1. /\ stdout' \subseteq {"information", "banner", "text", "json", "summary"}
        /\ "summary" \notin stdout'
    BY <1>5, Zenon DEF OpenOutput, Banner
  <2> QED
    BY <1>5, <2>1 DEF OpenOutput, CloseCapture, Closed
<1>6. CASE InstallHandlers
  BY <1>6 DEF InstallHandlers
<1>7. CASE RegisterHandle
  BY <1>7 DEF RegisterHandle
<1>8. CASE Deliver
  BY <1>8 DEF Deliver
<1>9. ASSUME NEW r \in {0, -1, -2}, LoopReturns(r)
      PROVE  CaptureInv'
  BY <1>9 DEF LoopReturns
<1>10. CASE DumpPacket
  BY <1>10 DEF DumpPacket
<1>11. CASE ParsePacket
  BY <1>11 DEF ParsePacket
<1>12. CASE CountPacket
  BY <1>12 DEF CountPacket
<1>13. CASE RenderPacket
  <2>1. Rendering \subseteq {"text", "json"}
    BY DEF Rendering
  <2>2. /\ stdout' \subseteq {"information", "banner", "text", "json", "summary"}
        /\ "summary" \notin stdout'
        /\ outfile' \subseteq {"text", "json"}
    BY <1>13, <2>1, ZenonT(30) DEF RenderPacket
  <2> QED
    BY <1>13, <2>2 DEF RenderPacket
<1>14. CASE UnregisterHandle
  BY <1>14 DEF UnregisterHandle
<1>15. CASE Close
  BY <1>15 DEF Close, CloseCapture, Closed
<1>16. CASE CloseOutput
  BY <1>16 DEF CloseOutput, Closed
<1>17. CASE Report
  <2>1. stdout' \subseteq {"information", "banner", "text", "json", "summary"}
    BY <1>17, Zenon DEF Report, LoopFailed
  <2>2. Released'
    BY <1>17 DEF Report, LoopFailed
  <2> QED
    BY <1>17, <2>1, <2>2 DEF Report, LoopFailed
<1>18. CASE DefaultAction
  BY <1>18 DEF DefaultAction
<1>19. CASE handle_signal
  BY <1>19 DEF handle_signal
<1>20. CASE UNCHANGED vars
  BY <1>20 DEF vars
<1> QED
  BY <1>1, <1>2, <1>3, <1>4, <1>5, <1>6, <1>7, <1>8, <1>9, <1>10, <1>11, <1>12, <1>13,
     <1>14, <1>15, <1>16, <1>17, <1>18, <1>19, <1>20, Zenon DEF Next, Program, Environment

(* The invariant holds throughout every run.                               *)
THEOREM CaptureInvariant == Spec => []CaptureInv
  BY InitInv, NextInv, PTL DEF Spec

(* The variables keep their types.                                         *)
THEOREM TypeCorrect == Spec => []TypeOK
  BY CaptureInvariant, PTL DEF CaptureInv

(* pcap_breakloop() is never called on a closed handle.                    *)
THEOREM HandlerSafe == Spec => []HandlerSeesOpenHandle
<1>1. CaptureInv => HandlerSeesOpenHandle
  BY DEF CaptureInv, SignalInv, ResourceInv, HandlerSeesOpenHandle, Registered, Opened
<1> QED
  BY <1>1, CaptureInvariant, PTL

(* Every path through main() that returns has released what it opened.     *)
THEOREM AllReleased == Spec => []NothingLeftOpen
<1>1. CaptureInv => NothingLeftOpen
  BY DEF CaptureInv, ExitInv, NothingLeftOpen
<1> QED
  BY <1>1, CaptureInvariant, PTL

(* Numbering, statistics, output and dump file never disagree on which     *)
(* packets were captured.                                                  *)
THEOREM SameInEverySink == Spec => []SinksAgree
<1>1. CaptureInv => SinksAgree
  BY DEF CaptureInv, CounterInv, SinksAgree, Callback
<1> QED
  BY <1>1, CaptureInvariant, PTL

(* No captured packet is lost to a signal's default action.                *)
THEOREM NoPacketKilled == Spec => []KilledBeforeCapture
<1>1. CaptureInv => KilledBeforeCapture
  BY DEF CaptureInv, SignalInv, KilledBeforeCapture
<1> QED
  BY <1>1, CaptureInvariant, PTL

-----------------------------------------------------------------------------
(* Every step of the program is a step of the session or none.             *)
LEMMA SessionStep ==
  ASSUME CaptureInv, [Next]_vars
  PROVE  [S!Next]_(S!vars)
<1> USE DEF Goto, Return, setup, sinks, resources, signalling, InLoop, Callback, phaseBar,
            CaptureInv, S!vars
<1>1. CASE ParseConfig \/ BuildFilter \/ OpenCapture \/ OpenDump \/ OpenOutput
  <2>1. /\ pc \in BeforeLoop /\ delivered = 0 /\ result' = result /\ delivered' = delivered
        /\ next_packet_number' = next_packet_number /\ counted' = counted
        /\ rendered' = rendered
    BY <1>1, Zenon DEF ParseConfig, BuildFilter, OpenCapture, OpenDump, OpenOutput, SignalInv,
                BeforeLoop, Uncaught, NoOutputYet, NoDumpYet, Unopened
  <2>2. next_packet_number = 0 /\ counted = 0 /\ rendered = 0
    BY <2>1 DEF CounterInv, BeforeLoop, Uncaught, NoOutputYet, NoDumpYet, Unopened
  <2>3. CASE pc' = "exited"
    <3>1. status' \in {"0", "1"}
      BY <1>1, <2>3, SMTT(20) DEF ParseConfig, BuildFilter, OpenCapture, OpenDump, OpenOutput
    <3> QED BY <2>1, <2>2, <2>3, <3>1, SMTT(20)
            DEF S!Next, S!Leave, BeforeLoop, Uncaught, NoOutputYet, NoDumpYet, Unopened
  <2>4. CASE pc' # "exited"
    BY <1>1, <2>1, <2>4
       DEF ParseConfig, BuildFilter, OpenCapture, OpenDump, OpenOutput
  <2> QED BY <2>3, <2>4
<1>2. CASE InstallHandlers BY <1>2 DEF InstallHandlers
<1>3. CASE RegisterHandle
  <2>1. break_loop = 0 /\ pc = "ns_signal_set_capture_handle" /\ pc' = "pcap_loop"
    BY <1>3 DEF RegisterHandle, SignalInv, BeforeLoop
  <2> QED BY <1>3, <2>1 DEF RegisterHandle, S!Next, S!Begin
<1>4. CASE Deliver
  <2>1. delivered \in Nat BY CaptureAssumption DEF TypeOK
  <2> QED BY <1>4, <2>1 DEF Deliver, S!Next, S!Take
<1>5. ASSUME NEW r \in {0, -1, -2}, LoopReturns(r) PROVE [S!Next]_(S!vars)
  <2>1. /\ pc = "pcap_loop" /\ pc' = "ns_signal_clear_capture_handle" /\ result' = r
        /\ break_loop = (IF r = -2 THEN 1 ELSE 0) /\ break_loop' = 0
        /\ delivered' = delivered /\ status' = status
    BY <1>5 DEF LoopReturns
  <2>2. r = -1 => ~(break_loop = 1) BY <2>1
  <2> QED BY <2>1, <2>2 DEF S!Next, S!End
<1>6. CASE DumpPacket BY <1>6 DEF DumpPacket
<1>7. CASE ParsePacket BY <1>7 DEF ParsePacket
<1>8. CASE CountPacket BY <1>8 DEF CountPacket
<1>9. CASE RenderPacket
  <2>1. delivered \in Nat /\ delivered = (delivered - 1) + 1
    BY CaptureAssumption DEF TypeOK
  <2>2. /\ pc = "ns_output_packet" /\ pc' = "pcap_loop" /\ break_loop' = break_loop
        /\ result' = result /\ delivered' = delivered /\ status' = status
    BY <1>9 DEF RenderPacket
  <2> QED BY <2>1, <2>2 DEF S!Next, S!Complete
<1>10. CASE UnregisterHandle \/ Close \/ CloseOutput
  BY <1>10 DEF UnregisterHandle, Close, CloseOutput
<1>11. CASE Report
  <2>1. /\ pc = "ns_stats_print" /\ pc' = "exited" /\ result' = result
        /\ delivered' = delivered /\ status' = IF result = -1 THEN "1" ELSE "0"
        /\ next_packet_number' = next_packet_number /\ counted' = counted
        /\ rendered' = rendered
    BY <1>11 DEF Report, LoopFailed
  <2>2. next_packet_number = delivered /\ counted = delivered /\ rendered = delivered
    BY <2>1 DEF CounterInv
  <2> QED BY <2>1, <2>2 DEF S!Next, S!Finish
<1>12. CASE DefaultAction
  <2>1. /\ pc \in Uncaught /\ pc' = "exited" /\ status' = "killed"
        /\ result' = result /\ delivered' = delivered
        /\ next_packet_number' = next_packet_number /\ counted' = counted
        /\ rendered' = rendered
    BY <1>12 DEF DefaultAction, SignalInv, TypeOK
  <2>2. delivered = 0 /\ next_packet_number = 0 /\ counted = 0 /\ rendered = 0
    BY <2>1 DEF SignalInv, CounterInv, BeforeLoop, Uncaught, NoOutputYet, NoDumpYet, Unopened
  <2> QED BY <2>1, <2>2
          DEF S!Next, S!Leave, Uncaught, NoOutputYet, NoDumpYet, Unopened
<1>13. CASE handle_signal
  BY <1>13 DEF handle_signal, S!Next, S!Stop, SignalInv, Registered, TypeOK
<1>14. CASE UNCHANGED vars BY <1>14 DEF vars
<1> QED
  BY <1>1, <1>2, <1>3, <1>4, <1>5, <1>6, <1>7, <1>8, <1>9, <1>10, <1>11, <1>12, <1>13, <1>14, Zenon
     DEF Next, Program, Environment

(* The program keeps what a capture session promises, for any number of    *)
(* packets and of signals.                                                 *)
THEOREM KeepsSession == Spec => SessionKept
<1>1. Init => S!Init
  BY DEF Init, S!Init, phaseBar, InLoop, Callback
<1> QED BY <1>1, SessionStep, CaptureInvariant, PTL DEF Spec, SessionKept, S!Spec

-----------------------------------------------------------------------------
\* The safe half of StopHonoured.

\* A signal was caught while pcap_loop() ran.
Stopped == caught \cap InLoop # {}

\* Steps of the program from each control point to its exit, once stopped.
StepsToExit ==
  CASE pc = "pcap_dump" -> 9
    [] pc = "ns_packet_parse" -> 8
    [] pc = "ns_stats_update" -> 7
    [] pc = "ns_output_packet" -> 6
    [] pc = "pcap_loop" -> 5
    [] pc = "ns_signal_clear_capture_handle" -> 4
    [] pc = "ns_capture_close" -> 3
    [] pc = "fclose" -> 2
    [] pc = "ns_stats_print" -> 1
    [] OTHER -> 0

Ending == {"ns_signal_clear_capture_handle", "ns_capture_close", "fclose", "ns_stats_print"}

StoppedWell == status = "0" /\ Released /\ (config.mode = "live" => "summary" \in stdout)

\* The stop is never forgotten: the loop can only return -2.
StopInv ==
  /\ pc \in BeforeLoop => ~Stopped
  /\ Stopped => /\ pc \in InLoop => break_loop = 1
                /\ pc \in Ending => result = -2
                /\ pc = "exited" => StoppedWell

(* Where a step of the program goes, and what it does to the stop.         *)
LEMMA StopStep ==
  ASSUME CaptureInv, StopInv, [Next]_vars
  PROVE  /\ StopInv'
         /\ Stopped => /\ delivered' = delivered
                       /\ \/ StepsToExit' = StepsToExit - 1
                          \/ UNCHANGED pc /\ (handle_signal \/ UNCHANGED vars)
<1> DEFINE Kept == delivered' = delivered
           Less == StepsToExit' = StepsToExit - 1
<1> USE DEF Goto, Return, setup, sinks, resources, signalling, StopInv, Stopped, InLoop, Callback,
            BeforeLoop, Uncaught, NoOutputYet, NoDumpYet, Unopened, Ending
<1>1. CASE ParseConfig \/ BuildFilter \/ OpenCapture \/ OpenDump \/ OpenOutput
           \/ InstallHandlers \/ DefaultAction
  <2>1. pc \in BeforeLoop
    BY <1>1, Zenon DEF ParseConfig, BuildFilter, OpenCapture, OpenDump, OpenOutput, InstallHandlers,
                DefaultAction, CaptureInv, SignalInv, TypeOK, PCs
  <2>2. caught' = caught
    BY <1>1, Zenon DEF ParseConfig, BuildFilter, OpenCapture, OpenDump, OpenOutput, InstallHandlers,
                DefaultAction
  <2> QED BY <2>1, <2>2, SMTT(20)
<1>2. CASE RegisterHandle BY <1>2 DEF RegisterHandle
<1>3. CASE Deliver BY <1>3 DEF Deliver
<1>4. ASSUME NEW r \in {0, -1, -2}, LoopReturns(r) PROVE StopInv' /\ (Stopped => Kept /\ Less)
  BY <1>4 DEF LoopReturns, StepsToExit
<1>5. CASE DumpPacket BY <1>5 DEF DumpPacket, StepsToExit
<1>6. CASE ParsePacket BY <1>6 DEF ParsePacket, StepsToExit
<1>7. CASE CountPacket BY <1>7 DEF CountPacket, StepsToExit
<1>8. CASE RenderPacket BY <1>8 DEF RenderPacket, StepsToExit
<1>9. CASE UnregisterHandle BY <1>9 DEF UnregisterHandle, StepsToExit
<1>10. CASE Close BY <1>10 DEF Close, StepsToExit
<1>11. CASE CloseOutput BY <1>11 DEF CloseOutput, StepsToExit
<1>12. CASE Report
  <2>1. CaptureInv' BY NextInv
  <2>2. /\ pc = "ns_stats_print" /\ pc' = "exited" /\ caught' = caught /\ Kept
        /\ config' = config
    BY <1>12 DEF Report
  <2>3. Less BY <2>2 DEF StepsToExit
  <2>4. ASSUME Stopped PROVE StoppedWell'
    <3>1. result = -2 BY <2>2, <2>4
    <3>2. status' = "0" BY <1>12, <3>1 DEF Report, LoopFailed
    <3>3. config.mode = "live" => "summary" \in stdout'
      BY <1>12, <3>1 DEF Report, LoopFailed
    <3>4. Released' BY <2>1, <3>2 DEF CaptureInv, ExitInv
    <3> QED BY <2>2, <3>2, <3>3, <3>4 DEF StoppedWell
  <2> QED BY <2>2, <2>3, <2>4
<1>13. CASE handle_signal
  <2>1. /\ pc' = pc /\ result' = result /\ Kept /\ pc # "exited"
        /\ caught' = caught \cup {pc}
        /\ break_loop' = IF g_capture_handle # "NULL" THEN 1 ELSE break_loop
    BY <1>13 DEF handle_signal
  <2>2. pc \in InLoop => g_capture_handle # "NULL" BY DEF CaptureInv, SignalInv, Registered
  <2>3. pc \in Ending => pc \notin InLoop OBVIOUS
  <2> QED BY <1>13, <2>1, <2>2, <2>3
<1>14. CASE UNCHANGED vars BY <1>14 DEF vars, StoppedWell, Released
<1> QED
  BY <1>1, <1>2, <1>3, <1>4, <1>5, <1>6, <1>7, <1>8, <1>9, <1>10, <1>11, <1>12, <1>13, <1>14, Zenon
     DEF Next, Program, Environment

(* Once a signal was caught in the loop no further packet is taken up,     *)
(* every step but a further signal brings the run nearer to its end, which *)
(* is at most nine steps away, and the end is the one docs/usage.md:14-16  *)
(* promises.  What is left of StopHonoured is that the steps are taken.    *)
THEOREM StopIsFinal ==
  Spec => /\ [](Stopped /\ pc = "exited" => StoppedWell)
          /\ [](StepsToExit \in 0 .. 9)
          /\ [][Stopped => /\ delivered' = delivered
                           /\ \/ StepsToExit' = StepsToExit - 1
                              \/ UNCHANGED pc /\ handle_signal]_vars
<1>1. Init => StopInv
  BY DEF Init, StopInv, Stopped, InLoop, Callback, BeforeLoop, Uncaught, NoOutputYet, NoDumpYet,
         Unopened, Ending
<1>2. CaptureInv /\ StopInv /\ [Next]_vars => StopInv' BY StopStep
<1>3. CaptureInv /\ StopInv /\ [Next]_vars
        => [Stopped => /\ delivered' = delivered
                       /\ \/ StepsToExit' = StepsToExit - 1
                          \/ UNCHANGED pc /\ handle_signal]_vars
  BY StopStep
<1>4. StopInv => (Stopped /\ pc = "exited" => StoppedWell) BY DEF StopInv
<1>5. StepsToExit \in 0 .. 9 BY DEF StepsToExit
<1> QED BY <1>1, <1>2, <1>3, <1>4, <1>5, CaptureInvariant, PTL DEF Spec

-----------------------------------------------------------------------------
\* The command line

\* The flags of the loop record which options were given, and a rejected
\* argument ends the loop.
FlagsAsGiven ==
  /\ on = given \cap Switch
  /\ have_interface <=> "interface" \in given
  /\ have_read_file <=> "read" \in given
  /\ has_raw_filter <=> "filter" \in given
  /\ any_simple_filter <=> given \cap Simple # {}
  /\ operands <=> "operand" \in given
  /\ "invalid" \in given => outcome = "rejected"

\* The inductive invariant.
CommandLineInv ==
  /\ ConfigTypes
  /\ vs \in Nat
  /\ FlagsAsGiven
  /\ LogLevelAsGiven
  /\ AcceptedExactly
  /\ StartsCapture

LEMMA CommandLineInit == ParseInit => CommandLineInv
<1> SUFFICES ASSUME ParseInit PROVE CommandLineInv
  OBVIOUS
<1>1. ConfigTypes
  <2>1. 0 \in 0 .. NS_CONFIG_STR_LEN - 1 BY CommandLineAssumption
  <2>2. -1 \in -1 .. MaxPort BY SMT DEF MaxPort
  <2> QED BY <2>1, <2>2, Zenon DEF ParseInit, ConfigTypes, NS_LOG_WARN
<1>2. FlagsAsGiven /\ vs \in Nat BY DEF ParseInit, FlagsAsGiven
<1>3. LogLevelAsGiven BY DEF ParseInit, LogLevelAsGiven, NS_LOG_WARN
<1>4. AcceptedExactly /\ StartsCapture BY DEF ParseInit, AcceptedExactly, StartsCapture, Run
<1> QED BY <1>1, <1>2, <1>3, <1>4 DEF CommandLineInv

-----------------------------------------------------------------------------
\* The loop

(* While the loop runs nothing has been decided, and an argument that ends *)
(* it is one that AcceptedExactly does not accept.                         *)
LEMMA LoopDecides ==
  ASSUME outcome' = "parsing" \/ (outcome' = "rejected" /\ "invalid" \in given')
  PROVE  AcceptedExactly' /\ StartsCapture'
BY DEF AcceptedExactly, StartsCapture, Run

LEMMA SetSwitchKeeps ==
  ASSUME CommandLineInv, NEW o \in Switch, SetSwitch(o) PROVE CommandLineInv'
<1> USE DEF CommandLineInv
<1>1. /\ given' = given \cup {o} /\ on' = on \cup {o} /\ outcome = "parsing" /\ outcome' = outcome
      /\ any_simple_filter' = (any_simple_filter \/ o \in SimpleSwitch)
      /\ UNCHANGED <<str, filter_port, format, log_level, input_mode, operands,
                     have_interface, have_read_file, has_raw_filter, vs>>
  BY DEF SetSwitch, TakeOption
<1>2. ConfigTypes'
  BY <1>1 DEF ConfigTypes
<1>3. o \in Simple <=> o \in SimpleSwitch
  BY DEF Simple, Switch, SimpleSwitch, SimpleString
<1>4. o \notin {"interface", "read", "filter", "operand", "invalid", "debug"}
  BY DEF Switch, SimpleSwitch
<1>5. FlagsAsGiven'
  <2>1. given' \cap Simple # {} <=> given \cap Simple # {} \/ o \in SimpleSwitch
    BY <1>1, <1>3
  <2> QED BY <1>1, <1>4, <2>1, Zenon DEF FlagsAsGiven
<1>6. LogLevelAsGiven'
  BY <1>1, <1>4 DEF LogLevelAsGiven
<1> QED BY <1>1, <1>2, <1>5, <1>6, LoopDecides

LEMMA StoreStringKeeps ==
  ASSUME CommandLineInv, NEW o \in StringOption, NEW n \in Typed, StoreString(o, n)
  PROVE  CommandLineInv'
<1> USE DEF CommandLineInv
<1>1. /\ given' = given \cup {o} /\ outcome = "parsing" /\ outcome' = outcome
      /\ str' = [str EXCEPT ![o] = Copied(n)]
      /\ have_interface' = (have_interface \/ o = "interface")
      /\ have_read_file' = (have_read_file \/ o = "read")
      /\ has_raw_filter' = (has_raw_filter \/ o = "filter")
      /\ any_simple_filter' = (any_simple_filter \/ o \in SimpleString)
      /\ UNCHANGED <<on, filter_port, format, log_level, input_mode, operands, vs>>
  BY DEF StoreString, TakeOption, IsSimpleString
<1>2. ConfigTypes'
  <2>1. Copied(n) \in 0 .. NS_CONFIG_STR_LEN - 1
    <3>1. n \in Nat /\ NS_CONFIG_STR_LEN \in Nat /\ NS_CONFIG_STR_LEN > 0
      BY CommandLineAssumption
    <3> QED BY <3>1 DEF Copied
  <2>2. str' \in [StringOption -> 0 .. NS_CONFIG_STR_LEN - 1]
    BY <1>1, <2>1 DEF ConfigTypes
  <2> QED BY <1>1, <2>2 DEF ConfigTypes
<1>3. /\ o \in Simple <=> o \in SimpleString
      /\ o \notin Switch /\ o \notin {"operand", "invalid", "debug"}
  BY DEF Simple, Switch, StringOption, SimpleSwitch, SimpleString
<1>4. FlagsAsGiven'
  <2>1. given' \cap Simple # {} <=> given \cap Simple # {} \/ o \in SimpleString
    BY <1>1, <1>3
  <2>2. given' \cap Switch = given \cap Switch BY <1>1, <1>3
  <2> QED BY <1>1, <1>3, <2>1, <2>2, Zenon DEF FlagsAsGiven
<1>5. LogLevelAsGiven'
  BY <1>1, <1>3 DEF LogLevelAsGiven
<1> QED BY <1>1, <1>2, <1>4, <1>5, LoopDecides

(* The options that set no flag but any_simple_filter, for --port, and the *)
(* arguments that are rejected.                                            *)
LEMMA PlainKeeps ==
  ASSUME CommandLineInv, NEW o \in {"port", "format", "invalid"}, TakeOption(o),
         IF o = "invalid" THEN outcome' = "rejected" ELSE outcome' = outcome,
         any_simple_filter' = (any_simple_filter \/ o = "port"),
         filter_port' \in -1 .. MaxPort, format' \in {"text", "json"},
         UNCHANGED <<on, str, log_level, input_mode, operands,
                     have_interface, have_read_file, has_raw_filter, vs>>
  PROVE  CommandLineInv'
<1> USE DEF CommandLineInv
<1>1. given' = given \cup {o} /\ outcome = "parsing"
  BY DEF TakeOption
<1>2. ConfigTypes'
  BY <1>1 DEF ConfigTypes
<1>3. (o \in Simple <=> o = "port") /\ o \notin Switch
  BY DEF Simple, SimpleSwitch, SimpleString, Switch
<1>4. FlagsAsGiven'
  <2>1. given' \cap Simple # {} <=> given \cap Simple # {} \/ o = "port"
    BY <1>1, <1>3
  <2>2. given' \cap Switch = given \cap Switch BY <1>1, <1>3
  <2> QED BY <1>1, <2>1, <2>2, Zenon DEF FlagsAsGiven
<1>5. LogLevelAsGiven'
  BY <1>1 DEF LogLevelAsGiven
<1> QED BY <1>1, <1>2, <1>4, <1>5, LoopDecides

LEMMA SetPortKeeps ==
  ASSUME CommandLineInv, NEW v \in PortValue, SetPort(v) PROVE CommandLineInv'
<1>1. /\ format' = format
      /\ UNCHANGED <<on, str, log_level, input_mode, operands,
                     have_interface, have_read_file, has_raw_filter, vs>>
  BY DEF SetPort
<1>2. /\ any_simple_filter \in BOOLEAN /\ filter_port \in -1 .. MaxPort
      /\ format \in {"text", "json"}
  BY DEF CommandLineInv, ConfigTypes
<1>3. CASE PortOk(v)
  <2>1. v \in -1 .. MaxPort
    <3>1. v \in Int BY CommandLineAssumption
    <3>2. v >= 0 /\ v <= MaxPort BY <1>3 DEF PortOk
    <3>3. MaxPort \in Int BY SMT DEF MaxPort
    <3> QED BY <3>1, <3>2, <3>3
  <2>2. /\ TakeOption("port") /\ outcome' = outcome /\ filter_port' = v
        /\ any_simple_filter' = TRUE
    BY <1>3, Zenon DEF SetPort
  <2> QED BY <1>1, <1>2, <2>1, <2>2, PlainKeeps, Zenon
<1>4. CASE ~PortOk(v)
  <2>1. /\ TakeOption("invalid") /\ outcome' = "rejected" /\ filter_port' = filter_port
        /\ any_simple_filter' = any_simple_filter
    BY <1>4, Zenon DEF SetPort
  <2> QED BY <1>1, <1>2, <2>1, PlainKeeps
<1> QED BY <1>3, <1>4

LEMMA SetFormatKeeps ==
  ASSUME CommandLineInv, NEW f, SetFormat(f) PROVE CommandLineInv'
<1>1. UNCHANGED <<on, str, filter_port, log_level, input_mode, operands, any_simple_filter,
                  have_interface, have_read_file, has_raw_filter, vs>>
  BY DEF SetFormat, flags
<1>2. /\ any_simple_filter \in BOOLEAN /\ filter_port \in -1 .. MaxPort
      /\ format \in {"text", "json"}
  BY DEF CommandLineInv, ConfigTypes
<1>3. CASE f \in {"text", "json"}
  <2>1. TakeOption("format") /\ outcome' = outcome /\ format' = f
    BY <1>3, Zenon DEF SetFormat
  <2> QED BY <1>1, <1>2, <1>3, <2>1, PlainKeeps
<1>4. CASE f \notin {"text", "json"}
  <2>1. TakeOption("invalid") /\ outcome' = "rejected" /\ format' = format
    BY <1>4, Zenon DEF SetFormat
  <2> QED BY <1>1, <1>2, <2>1, PlainKeeps
<1> QED BY <1>3, <1>4

LEMMA UnrecognizedKeeps ==
  ASSUME CommandLineInv, Unrecognized PROVE CommandLineInv'
<1>1. /\ any_simple_filter \in BOOLEAN /\ filter_port \in -1 .. MaxPort
      /\ format \in {"text", "json"}
  BY DEF CommandLineInv, ConfigTypes
<1> QED BY <1>1, PlainKeeps DEF Unrecognized, flags

(* -v and --debug: only the level changes.                                 *)
LEMMA LevelKeeps ==
  ASSUME CommandLineInv, RaiseLogLevel \/ SetDebug PROVE CommandLineInv'
<1> USE DEF CommandLineInv
<1>1. /\ outcome = "parsing" /\ outcome' = outcome
      /\ UNCHANGED <<on, str, filter_port, format, input_mode, operands, any_simple_filter,
                     have_interface, have_read_file, has_raw_filter>>
  BY DEF RaiseLogLevel, SetDebug, TakeOption, flags
<1>2. CASE RaiseLogLevel
  <2>1. given' = given \cup {"v"} /\ log_level' = Raised /\ vs' = vs + 1
    BY <1>2 DEF RaiseLogLevel, TakeOption
  <2>2. LogLevelAsGiven' /\ log_level' \in Nat /\ vs' \in Nat
    <3>1. "debug" \in given' <=> "debug" \in given BY <2>1, SMTT(20)
    <3> QED BY <2>1, <3>1 DEF LogLevelAsGiven, Raised, NS_LOG_DEBUG, NS_LOG_WARN, ConfigTypes
  <2>3. ConfigTypes' BY <1>1, <2>2 DEF ConfigTypes
  <2>4. FlagsAsGiven'
    <3>1. given' \cap Switch = given \cap Switch /\ given' \cap Simple = given \cap Simple
      BY <2>1 DEF Switch, SimpleSwitch, Simple, SimpleString
    <3> QED BY <1>1, <2>1, <3>1 DEF FlagsAsGiven
  <2> QED BY <1>1, <2>2, <2>3, <2>4, LoopDecides
<1>3. CASE SetDebug
  <2>1. given' = given \cup {"debug"} /\ log_level' = NS_LOG_DEBUG /\ vs' = vs
    BY <1>3 DEF SetDebug, TakeOption
  <2>2. LogLevelAsGiven' /\ log_level' \in Nat /\ vs' \in Nat
    BY <2>1 DEF LogLevelAsGiven, NS_LOG_DEBUG
  <2>3. ConfigTypes' BY <1>1, <2>2 DEF ConfigTypes
  <2>4. FlagsAsGiven'
    <3>1. given' \cap Switch = given \cap Switch /\ given' \cap Simple = given \cap Simple
      BY <2>1 DEF Switch, SimpleSwitch, Simple, SimpleString
    <3> QED BY <1>1, <2>1, <3>1 DEF FlagsAsGiven
  <2> QED BY <1>1, <2>2, <2>3, <2>4, LoopDecides
<1> QED BY <1>2, <1>3

LEMMA OperandKeeps ==
  ASSUME CommandLineInv, Operand PROVE CommandLineInv'
<1> USE DEF CommandLineInv
<1>1. /\ outcome = "parsing" /\ outcome' = outcome /\ given' = given \cup {"operand"}
      /\ operands' = TRUE
      /\ UNCHANGED <<on, str, filter_port, format, log_level, input_mode, any_simple_filter,
                     have_interface, have_read_file, has_raw_filter, vs>>
  BY DEF Operand, TakeOption, flags
<1>2. ConfigTypes' BY <1>1 DEF ConfigTypes
<1>3. FlagsAsGiven'
  <2>1. given' \cap Switch = given \cap Switch /\ given' \cap Simple = given \cap Simple
    BY <1>1 DEF Switch, SimpleSwitch, Simple, SimpleString
  <2> QED BY <1>1, <2>1 DEF FlagsAsGiven
<1>4. LogLevelAsGiven' BY <1>1 DEF LogLevelAsGiven
<1> QED BY <1>1, <1>2, <1>3, <1>4, LoopDecides

-----------------------------------------------------------------------------
\* Behind the loop

(* The checks behind the loop decide as AcceptedExactly says.              *)
LEMMA CheckDecides ==
  ASSUME CommandLineInv, CheckOptions PROVE AcceptedExactly'
<1>1. /\ outcome = "parsing" /\ given' = given /\ str' = str /\ format' = format
  BY DEF CheckOptions, history
<1>2. FlagsAsGiven /\ "invalid" \notin given
  BY <1>1 DEF CommandLineInv, FlagsAsGiven
<1>3. HelpOrVersion <=> given \cap {"help", "version"} # {}
  BY <1>2 DEF HelpOrVersion, FlagsAsGiven, Switch
<1>4. "list_interfaces" \in on <=> "list_interfaces" \in given
  BY <1>2 DEF FlagsAsGiven, Switch
<1>5. ~({"interface", "read"} \subseteq given) <=> ~(have_interface /\ have_read_file)
  BY <1>2 DEF FlagsAsGiven
<1>6. ("filter" \in given => given \cap Simple = {}) <=> ~(has_raw_filter /\ any_simple_filter)
  BY <1>2 DEF FlagsAsGiven
<1>7. given \cap {"interface", "read", "list_interfaces"} # {}
        <=> have_interface \/ have_read_file \/ "list_interfaces" \in on
  BY <1>2, <1>4 DEF FlagsAsGiven
<1>8. given \cap {"invalid", "operand"} = {} <=> ~operands
  BY <1>2 DEF FlagsAsGiven
<1> DEFINE Good == /\ ~operands
                   /\ \/ HelpOrVersion
                      \/ /\ ~Conflict
                         /\ have_interface \/ have_read_file \/ "list_interfaces" \in on
<1>9. outcome' = "accepted" <=> Good
  BY DEF CheckOptions
<1>10. Conflict <=> \/ have_interface /\ have_read_file
                    \/ has_raw_filter /\ any_simple_filter
                    \/ OutputWithoutJson
  BY DEF Conflict
<1>11. (str["output"] > 0 => format = "json") <=> ~OutputWithoutJson
  BY SMTT(20) DEF OutputWithoutJson
<1> QED BY <1>1, <1>3, <1>5, <1>6, <1>7, <1>8, <1>9, <1>10, <1>11, Zenon DEF AcceptedExactly

(* A run that is accepted has one source, and --output only with JSON.     *)
LEMMA CheckStarts ==
  ASSUME CommandLineInv, CheckOptions PROVE StartsCapture'
<1> SUFFICES ASSUME Run' PROVE StartsCapture'
  BY Zenon DEF StartsCapture
<1>1. /\ given' = given /\ str' = str /\ format' = format /\ on' = on
  BY DEF CheckOptions, history
<1>2. ConfigTypes /\ FlagsAsGiven BY DEF CommandLineInv
<1>3. /\ ~HelpOrVersion /\ "list_interfaces" \notin on /\ outcome' = "accepted"
  BY <1>1 DEF Run, HelpOrVersion
<1>4. ~Conflict /\ (have_interface \/ have_read_file) /\ input_mode' = Source
  BY <1>3 DEF CheckOptions
<1>5. /\ (str["output"] > 0) => format = "json"
      /\ ~(have_interface /\ have_read_file)
  BY <1>4 DEF Conflict, OutputWithoutJson
<1>6. input_mode' = IF "interface" \in given THEN "live" ELSE "file"
  BY <1>2, <1>4 DEF Source, FlagsAsGiven
<1>7. given' \cap {"interface", "read"} = IF input_mode' = "live" THEN {"interface"} ELSE {"read"}
  <2>1. "interface" \in given \/ "read" \in given BY <1>2, <1>4 DEF FlagsAsGiven
  <2>2. ~("interface" \in given /\ "read" \in given) BY <1>2, <1>5 DEF FlagsAsGiven
  <2> QED BY <1>1, <1>6, <2>1, <2>2
<1>8. [mode |-> input_mode', format |-> format', quiet |-> "quiet" \in on',
       show_stats |-> "stats" \in on', write_file |-> str'["write"] > 0,
       output_file |-> str'["output"] > 0] \in Config
  <2>1. input_mode' \in {"live", "file"} BY <1>6
  <2>2. format' \in {"text", "json"} BY <1>1, <1>2 DEF ConfigTypes
  <2>3. (str'["output"] > 0) => format' = "json" BY <1>1, <1>5
  <2>4. /\ ("quiet" \in on') \in BOOLEAN /\ ("stats" \in on') \in BOOLEAN
        /\ (str'["write"] > 0) \in BOOLEAN /\ (str'["output"] > 0) \in BOOLEAN
    OBVIOUS
  <2> QED BY <2>1, <2>2, <2>3, <2>4, Zenon DEF Config
<1> QED BY <1>7, <1>8 DEF StartsCapture

LEMMA CheckOptionsKeeps ==
  ASSUME CommandLineInv, CheckOptions PROVE CommandLineInv'
<1>1. /\ outcome' \in {"accepted", "rejected"} /\ input_mode' \in {input_mode, Source}
      /\ UNCHANGED <<on, str, filter_port, format, log_level, flags, operands, given, vs>>
  BY DEF CheckOptions, history
<1>2. ConfigTypes'
  <2>1. input_mode' \in {"none", "live", "file"}
    BY <1>1 DEF Source, CommandLineInv, ConfigTypes
  <2> QED BY <1>1, <2>1 DEF CommandLineInv, ConfigTypes, flags
<1>3. FlagsAsGiven'
  <2>1. "invalid" \notin given BY DEF CommandLineInv, FlagsAsGiven, CheckOptions
  <2> QED BY <1>1, <2>1 DEF CommandLineInv, FlagsAsGiven, flags
<1>4. LogLevelAsGiven' /\ vs' \in Nat
  BY <1>1 DEF CommandLineInv, LogLevelAsGiven
<1> QED BY <1>2, <1>3, <1>4, CheckDecides, CheckStarts DEF CommandLineInv

-----------------------------------------------------------------------------
LEMMA CommandLineStep ==
  ASSUME CommandLineInv, [ParseNext]_parseVars PROVE CommandLineInv'
<1>1. CASE ParseNext
  BY <1>1, SetSwitchKeeps, StoreStringKeeps, SetPortKeeps, SetFormatKeeps, LevelKeeps,
     UnrecognizedKeeps, OperandKeeps, CheckOptionsKeeps DEF ParseNext
<1>2. CASE UNCHANGED parseVars
  <2>1. UNCHANGED <<outcome, on, str, filter_port, format, log_level, input_mode, operands,
                    have_interface, have_read_file, any_simple_filter, has_raw_filter, given, vs>>
    BY <1>2 DEF parseVars, flags, history
  <2>2. ConfigTypes' /\ vs' \in Nat BY <2>1 DEF CommandLineInv, ConfigTypes
  <2>3. FlagsAsGiven' BY <2>1 DEF CommandLineInv, FlagsAsGiven
  <2>4. LogLevelAsGiven' BY <2>1 DEF CommandLineInv, LogLevelAsGiven
  <2>5. AcceptedExactly' BY <2>1 DEF CommandLineInv, AcceptedExactly
  <2>6. StartsCapture' BY <2>1, Zenon DEF CommandLineInv, StartsCapture, Run
  <2> QED BY <2>2, <2>3, <2>4, <2>5, <2>6 DEF CommandLineInv
<1> QED BY <1>1, <1>2

(* For every command line: the flags of the loop say which options were    *)
(* given, whatever came before or after them (config.c:98-193).           *)
THEOREM CommandLineInvariant == ParseSpec => []CommandLineInv
<1>1. CommandLineInv /\ [ParseNext]_parseVars => CommandLineInv' BY CommandLineStep
<1> QED BY CommandLineInit, <1>1, PTL DEF ParseSpec

(* A stored argument always leaves room for its NUL, a port is one, and    *)
(* the members stay in their types (config.c:56-80).                       *)
THEOREM CommandLineTypes == ParseSpec => []ConfigTypes
<1>1. CommandLineInv => ConfigTypes BY DEF CommandLineInv
<1> QED BY CommandLineInvariant, <1>1, PTL

(* What main() starts a capture with has exactly one source, the one that  *)
(* was named, and --output only with JSON: it is a configuration that      *)
(* module Capture starts from.                                             *)
THEOREM AcceptedStartsCapture == ParseSpec => []StartsCapture
<1>1. CommandLineInv => StartsCapture BY DEF CommandLineInv
<1> QED BY CommandLineInvariant, <1>1, PTL

(* Acceptance and the log level depend on which options were given and how *)
(* often -v, not on their order.                                           *)
THEOREM OrderDoesNotMatter == ParseSpec => []OrderIrrelevant
<1>1. CommandLineInv => OrderIrrelevant BY DEF CommandLineInv, OrderIrrelevant
<1> QED BY CommandLineInvariant, <1>1, PTL

-----------------------------------------------------------------------------
\* From the command line to the filter: main.c:91-100.
FilterInput ==
  [tcp |-> "tcp" \in on, udp |-> "udp" \in on, icmp |-> "icmp" \in on, port |-> filter_port,
   host |-> str["host"], src |-> str["src"], dst |-> str["dst"],
   raw |-> IF has_raw_filter THEN str["filter"] ELSE 0]

\* What module Filter takes for granted of a specification.
StoredLength == 0 .. NS_CONFIG_STR_LEN - 1
FilterReady ==
  FilterInput \in [tcp : BOOLEAN, udp : BOOLEAN, icmp : BOOLEAN, port : {-1} \cup 0 .. MaxPort,
                   host : StoredLength, src : StoredLength, dst : StoredLength, raw : StoredLength]

\* A raw expression is alone, so that none of the options it takes the place
\* of was given.
RawAlone ==
  FilterInput.raw > 0 =>
    /\ ~FilterInput.tcp /\ ~FilterInput.udp /\ ~FilterInput.icmp /\ FilterInput.port = -1
    /\ FilterInput.host = 0 /\ FilterInput.src = 0 /\ FilterInput.dst = 0

\* What was not given has its default.
DefaultsInv ==
  /\ \A o \in StringOption : o \notin given => str[o] = 0
  /\ "port" \notin given => filter_port = -1

LEMMA DefaultsStep ==
  ASSUME ConfigTypes, DefaultsInv, [ParseNext]_parseVars PROVE DefaultsInv'
<1> USE DEF DefaultsInv, TakeOption, history
<1>1. ASSUME NEW o \in StringOption, NEW n \in Typed, StoreString(o, n) PROVE DefaultsInv'
  <2>1. str' = [str EXCEPT ![o] = Copied(n)] /\ given' = given \cup {o}
        /\ filter_port' = filter_port
    BY <1>1 DEF StoreString
  <2>2. DOMAIN str = StringOption BY DEF ConfigTypes
  <2> QED BY <2>1, <2>2
<1>2. ASSUME NEW v \in PortValue, SetPort(v) PROVE DefaultsInv'
  BY <1>2 DEF SetPort
<1>3. ASSUME str' = str, filter_port' = filter_port, given \subseteq given' PROVE DefaultsInv'
  BY <1>3
<1>4. ASSUME NEW o \in Switch, SetSwitch(o) PROVE DefaultsInv' BY <1>3, <1>4 DEF SetSwitch
<1>5. ASSUME NEW f, SetFormat(f) PROVE DefaultsInv' BY <1>3, <1>5 DEF SetFormat
<1>6. CASE RaiseLogLevel \/ SetDebug \/ Unrecognized \/ Operand
  BY <1>3, <1>6 DEF RaiseLogLevel, SetDebug, Unrecognized, Operand
<1>7. CASE CheckOptions BY <1>3, <1>7 DEF CheckOptions
<1>8. CASE UNCHANGED parseVars BY <1>3, <1>8 DEF parseVars
<1> QED BY <1>1, <1>2, <1>4, <1>5, <1>6, <1>7, <1>8, Zenon DEF ParseNext

LEMMA SpecTyped ==
  ASSUME NEW P, NEW L, NEW t \in BOOLEAN, NEW u \in BOOLEAN, NEW c \in BOOLEAN,
         NEW p \in P, NEW h \in L, NEW s \in L, NEW d \in L, NEW r \in L
  PROVE  [tcp |-> t, udp |-> u, icmp |-> c, port |-> p, host |-> h, src |-> s, dst |-> d, raw |-> r]
           \in [tcp : BOOLEAN, udp : BOOLEAN, icmp : BOOLEAN, port : P,
                host : L, src : L, dst : L, raw : L]
OBVIOUS

(* Whatever the command line: what main() passes to ns_filter_build_bpf()  *)
(* is a specification for which module Filter shows that the expression    *)
(* fits, and a raw expression never takes the place of an option that was  *)
(* given as well.                                                          *)
THEOREM FilterGetsWhatItNeeds == ParseSpec => [](Run => FilterReady /\ RawAlone)
<1>1. ParseInit => DefaultsInv BY DEF ParseInit, DefaultsInv
<1>2. CommandLineInv => ConfigTypes BY DEF CommandLineInv
<1>3. CommandLineInv /\ DefaultsInv => (Run => FilterReady /\ RawAlone)
  <2> SUFFICES ASSUME CommandLineInv, DefaultsInv, Run PROVE FilterReady /\ RawAlone
    OBVIOUS
  <2>1. \A o \in StringOption : str[o] \in StoredLength BY <1>2 DEF ConfigTypes, StoredLength
  <2>2. filter_port \in {-1} \cup 0 .. MaxPort
    <3>1. filter_port \in -1 .. MaxPort BY <1>2, Zenon DEF ConfigTypes
    <3>2. MaxPort \in Nat BY DEF MaxPort
    <3> QED BY <3>1, <3>2
  <2>3. {"host", "src", "dst", "filter"} \subseteq StringOption
    BY DEF StringOption, SimpleString
  <2>4. (IF has_raw_filter THEN str["filter"] ELSE 0) \in StoredLength
    BY <2>1, <2>3, CommandLineAssumption DEF StoredLength
  <2>5. FilterReady
    <3>1. /\ str["host"] \in StoredLength /\ str["src"] \in StoredLength
          /\ str["dst"] \in StoredLength
      BY <2>1, <2>3
    <3>2. ("tcp" \in on) \in BOOLEAN /\ ("udp" \in on) \in BOOLEAN /\ ("icmp" \in on) \in BOOLEAN
      OBVIOUS
    <3> QED BY <2>2, <2>4, <3>1, <3>2, SpecTyped, Zenon DEF FilterReady, FilterInput
  <2>6. ASSUME FilterInput.raw > 0 PROVE given \cap Simple = {}
    <3>1. str["filter"] # 0 BY <2>6 DEF FilterInput
    <3>2. "filter" \in given BY <2>3, <3>1 DEF DefaultsInv
    <3>3. AcceptedExactly /\ outcome = "accepted" BY DEF CommandLineInv, Run
    <3>4. given \cap {"help", "version"} = {}
      BY DEF CommandLineInv, FlagsAsGiven, Run, Switch
    <3> QED BY <3>2, <3>3, <3>4 DEF AcceptedExactly
  <2>7. ASSUME FilterInput.raw > 0
        PROVE  /\ "tcp" \notin on /\ "udp" \notin on /\ "icmp" \notin on /\ filter_port = -1
               /\ str["host"] = 0 /\ str["src"] = 0 /\ str["dst"] = 0
    <3>1. \A o \in Simple : o \notin given BY <2>6, <2>7
    <3>2. on \subseteq given BY DEF CommandLineInv, FlagsAsGiven
    <3> QED BY <2>3, <3>1, <3>2 DEF Simple, SimpleSwitch, SimpleString, DefaultsInv
  <2>8. RawAlone BY <2>7, Zenon DEF RawAlone, FilterInput
  <2> QED BY <2>5, <2>8
<1> QED
  BY <1>1, <1>2, <1>3, DefaultsStep, CommandLineInvariant, PTL DEF ParseSpec

-----------------------------------------------------------------------------
\* The filter expression

\* The longest expression in front of piece k: three, three and four bytes
\* for the protocols, ten for "port 65535", 127 for each address, and five
\* for each " and ".
Longest == [j \in 0 .. 8 |->
  IF j <= 1 THEN 0 ELSE IF j = 2 THEN 3 ELSE IF j = 3 THEN 11 ELSE IF j = 4 THEN 20
  ELSE IF j = 5 THEN 35 ELSE IF j = 6 THEN 167 ELSE IF j = 7 THEN 299 ELSE 431]

LongestPiece(j) ==
  IF j <= 2 THEN 3 ELSE IF j = 3 THEN 4 ELSE IF j = 4 THEN 10 ELSE 127

\* The pieces that were looked at before piece j.
Before(j) == {Pieces[n] : n \in 1 .. j - 1}

FilterInv ==
  /\ FilterTypes /\ FilterInBuffer /\ ExpressionAsAsked
  /\ out_len = MainBuffer => progress # "too long" /\ pos <= Longest[k]
  /\ progress = "building" =>
       /\ expression = {p \in Before(k) : Asked(p)}
       /\ k = 0 => pos = 0 /\ expression = {}
       /\ k > 0 => spec.raw = 0 /\ pos < out_len /\ extent > 0

(* The names of the pieces, in the order of the code.                      *)
LEMMA PieceNames ==
  /\ Pieces[1] = "tcp" /\ Pieces[2] = "udp" /\ Pieces[3] = "icmp" /\ Pieces[4] = "port"
  /\ Pieces[5] = "host" /\ Pieces[6] = "src" /\ Pieces[7] = "dst"
BY DEF Pieces

(* How the pieces that were looked at grow, up to all of them.             *)
LEMMA BeforeGrows ==
  /\ Before(0) = {} /\ Before(1) = {}
  /\ \A j \in 1 .. 7 : Before(j + 1) = Before(j) \cup {Pieces[j]}
  /\ Before(8) = PieceName
<1>1. Before(0) = {} /\ Before(1) = {}
  <2>1. 1 .. 0 - 1 = {} /\ 1 .. 1 - 1 = {} OBVIOUS
  <2> QED BY <2>1, Zenon DEF Before
<1>2. \A j \in 1 .. 7 : 1 .. (j + 1) - 1 = (1 .. j - 1) \cup {j} OBVIOUS
<1>3. ASSUME NEW j \in 1 .. 7 PROVE Before(j + 1) = Before(j) \cup {Pieces[j]}
  <2>1. 1 .. (j + 1) - 1 = (1 .. j - 1) \cup {j} BY <1>2
  <2>2. ASSUME NEW I, NEW J, I = J \cup {j}
        PROVE  {Pieces[n] : n \in I} = {Pieces[n] : n \in J} \cup {Pieces[j]}
    BY <2>2
  <2> QED BY <2>1, <2>2 DEF Before
<1>4. \A j \in 1 .. 7 : \A m \in 2 .. 8 : m = j + 1 => Before(m) = Before(j) \cup {Pieces[j]}
  BY <1>3
<1>5. /\ Before(2) = Before(1) \cup {"tcp"} /\ Before(3) = Before(2) \cup {"udp"}
      /\ Before(4) = Before(3) \cup {"icmp"} /\ Before(5) = Before(4) \cup {"port"}
      /\ Before(6) = Before(5) \cup {"host"} /\ Before(7) = Before(6) \cup {"src"}
      /\ Before(8) = Before(7) \cup {"dst"}
  BY <1>4, PieceNames
<1>6. Before(8) = PieceName
  BY <1>1, <1>5 DEF PieceName
<1> QED BY <1>1, <1>3, <1>6

(* A piece is never longer than its place in piece[128].                   *)
LEMMA PieceBounded ==
  ASSUME spec \in Specs, NEW j \in 1 .. 7, Asked(Pieces[j])
  PROVE  /\ PieceLength(Pieces[j]) \in Nat
         /\ PieceLength(Pieces[j]) <= LongestPiece(j)
<1>1. /\ spec.port \in Int /\ spec.host \in Nat /\ spec.src \in Nat /\ spec.dst \in Nat
  <2>1. \A a \in Argument : a \in Nat BY FilterAssumption
  <2>2. \A a \in Port : a \in Int BY FilterAssumption
  <2>3. spec.port \in {-1} \cup Port /\ spec.host \in Argument /\ spec.src \in Argument
        /\ spec.dst \in Argument
    BY DEF Specs
  <2> QED BY <2>1, <2>2, <2>3
<1>2. Digits(spec.port) \in 1 .. 5 BY <1>1, SMTT(20) DEF Digits
<1>3. CASE j = 1 \/ j = 2
  BY <1>3, PieceNames, SMTT(20) DEF PieceLength, FullLength, LongestPiece, PIECE_LEN
<1>4. CASE j = 3
  BY <1>4, PieceNames, SMTT(20) DEF PieceLength, FullLength, LongestPiece, PIECE_LEN
<1>5. CASE j = 4
  BY <1>5, <1>2, PieceNames, SMTT(20) DEF PieceLength, FullLength, LongestPiece, PIECE_LEN
<1>6. CASE j = 5
  BY <1>6, <1>1, PieceNames, SMTT(20) DEF PieceLength, FullLength, LongestPiece, PIECE_LEN
<1>7. CASE j = 6
  BY <1>7, <1>1, PieceNames, SMTT(20) DEF PieceLength, FullLength, LongestPiece, PIECE_LEN
<1>8. CASE j = 7
  BY <1>8, <1>1, PieceNames DEF PieceLength, FullLength, LongestPiece, PIECE_LEN
<1> QED BY <1>3, <1>4, <1>5, <1>6, <1>7, <1>8

LEMMA MainBufferLong == MainBuffer \in Nat /\ MainBuffer >= 512
<1>1. NS_CONFIG_STR_LEN \in Nat /\ NS_CONFIG_STR_LEN >= 256 BY FilterAssumption
<1>2. \A n \in Nat : n >= 256 => n * 2 \in Nat /\ n * 2 >= 512 OBVIOUS
<1> QED BY <1>1, <1>2, Zenon DEF MainBuffer

-----------------------------------------------------------------------------
LEMMA FilterInitInv == FilterInit => FilterInv
<1> SUFFICES ASSUME FilterInit PROVE FilterInv OBVIOUS
<1>1. out_len \in Nat BY MainBufferLong, FilterAssumption DEF FilterInit
<1>2. FilterTypes /\ FilterInBuffer /\ ExpressionAsAsked
  BY <1>1 DEF FilterInit, FilterTypes, FilterInBuffer, ExpressionAsAsked
<1>3. Longest[0] = 0 BY DEF Longest
<1>4. expression = {p \in Before(k) : Asked(p)} BY BeforeGrows DEF FilterInit
<1> QED BY <1>1, <1>2, <1>3, <1>4 DEF FilterInit, FilterInv

(* The first step: a raw expression is taken whole or refused.             *)
LEMMA StartInv ==
  ASSUME FilterInv, Start PROVE FilterInv'
<1>1. /\ out_len \in Nat /\ extent \in Nat /\ extent <= out_len /\ spec \in Specs
      /\ k = 0 /\ pos = 0 /\ expression = {} /\ progress = "building"
      /\ spec.raw \in Nat /\ spec.raw < NS_CONFIG_STR_LEN
  <2>1. out_len \in SmallBuffer \cup {MainBuffer} /\ extent \in Nat /\ spec \in Specs
        /\ extent <= out_len
    BY Zenon DEF FilterInv, FilterTypes, FilterInBuffer
  <2>2. k = 0 /\ pos = 0 /\ expression = {} /\ progress = "building"
    BY Zenon DEF FilterInv, Start
  <2>3. spec.raw \in Argument BY <2>1 DEF Specs
  <2>4. spec.raw \in Nat /\ spec.raw < NS_CONFIG_STR_LEN BY <2>3, FilterAssumption
  <2>5. out_len \in Nat BY <2>1, MainBufferLong, FilterAssumption
  <2> QED BY <2>1, <2>2, <2>4, <2>5
<1>2. MainBuffer > spec.raw /\ MainBuffer > 0 /\ MainBuffer \in Nat
  BY <1>1, MainBufferLong, FilterAssumption DEF MainBuffer
<1>3. Longest[0] = 0 /\ Longest[1] = 0 BY DEF Longest
<1>4. spec' = spec /\ out_len' = out_len /\ pos' = 0 /\ cut' = cut
  BY <1>1, Zenon DEF Start, input
<1>5. CASE /\ out_len = 0 /\ progress' = "too long"
           /\ UNCHANGED <<k, expression, extent>>
  <2>1. out_len # MainBuffer
    <3>1. out_len = 0 BY <1>5, Zenon
    <3> QED BY <3>1, <1>1, <1>2
  <2> QED BY <1>1, <1>4, <1>5, <2>1, Zenon
          DEF FilterInv, FilterTypes, FilterInBuffer, ExpressionAsAsked
<1>6. CASE /\ out_len > 0 /\ spec.raw > 0 /\ spec.raw >= out_len
           /\ progress' = "too long" /\ Writes(1) /\ UNCHANGED <<k, expression>>
  <2>0. out_len > 0 /\ spec.raw >= out_len /\ Writes(1) BY <1>6, Zenon
  <2>1. extent' \in Nat /\ extent' <= out_len BY <1>1, <2>0 DEF Writes
  <2>2. out_len # MainBuffer BY <1>1, <1>2, <2>0, SMTT(20)
  <2> QED BY <1>1, <1>4, <1>6, <2>1, <2>2, Zenon
          DEF FilterInv, FilterTypes, FilterInBuffer, ExpressionAsAsked
<1>7. CASE /\ out_len > 0 /\ spec.raw > 0 /\ spec.raw < out_len
           /\ progress' = "built" /\ expression' = {"raw"} /\ Writes(spec.raw + 1)
           /\ UNCHANGED k
  <2>1. extent' \in Nat /\ extent' <= out_len BY <1>1, <1>7, SMTT(20) DEF Writes
  <2> QED BY <1>1, <1>3, <1>4, <1>7, <2>1
          DEF FilterInv, FilterTypes, FilterInBuffer, ExpressionAsAsked
<1>8. CASE /\ out_len > 0 /\ spec.raw = 0
           /\ k' = 1 /\ Writes(1) /\ UNCHANGED <<progress, expression>>
  <2>1. extent' \in Nat /\ extent' <= out_len /\ extent' > 0 BY <1>1, <1>8 DEF Writes
  <2>2. {p \in Before(k') : Asked(p)'} = {} BY <1>8, BeforeGrows, SMTT(20)
  <2> QED BY <1>1, <1>3, <1>4, <1>8, <2>1, <2>2
          DEF FilterInv, FilterTypes, FilterInBuffer, ExpressionAsAsked
<1> QED BY <1>5, <1>6, <1>7, <1>8, Zenon DEF Start

-----------------------------------------------------------------------------
(* Another piece never makes the expression longer than Longest says, and  *)
(* that is less than main()'s buffer.                                      *)
LEMMA LongestGrows ==
  \A j \in 1 .. 7 :
    /\ Longest[j] \in Nat /\ Longest[j + 1] \in Nat /\ LongestPiece(j) \in Nat
    /\ Longest[j] <= Longest[j + 1]
    /\ LongestPiece(j) <= Longest[j + 1]
    /\ j > 1 => Longest[j] + 5 + LongestPiece(j) <= Longest[j + 1]
    /\ Longest[1] = 0
    /\ Longest[j] + 5 + LongestPiece(j) < 512
<1>1. /\ Longest[1] = 0 /\ Longest[2] = 3 /\ Longest[3] = 11 /\ Longest[4] = 20
      /\ Longest[5] = 35 /\ Longest[6] = 167 /\ Longest[7] = 299 /\ Longest[8] = 431
  BY SMTT(20) DEF Longest
<1> SUFFICES ASSUME NEW j \in 1 .. 7
             PROVE  /\ Longest[j] \in Nat /\ Longest[j + 1] \in Nat /\ LongestPiece(j) \in Nat
                    /\ Longest[j] <= Longest[j + 1]
                    /\ LongestPiece(j) <= Longest[j + 1]
                    /\ j > 1 => Longest[j] + 5 + LongestPiece(j) <= Longest[j + 1]
                    /\ Longest[j] + 5 + LongestPiece(j) < 512
  BY <1>1
<1>2. CASE j \in 1 .. 3 BY <1>1, <1>2, SMTT(20) DEF LongestPiece
<1>3. CASE j \in 4 .. 5 BY <1>1, <1>3, SMTT(20) DEF LongestPiece
<1>4. CASE j \in 6 .. 7 BY <1>1, <1>4, SMTT(20) DEF LongestPiece
<1> QED BY <1>2, <1>3, <1>4, SMTT(20)

(* What was asked for does not change on the way.                          *)
LEMMA AskedSame ==
  ASSUME spec' = spec PROVE \A p \in PieceName : Asked(p)' <=> Asked(p)
BY DEF Asked, PieceName

\* What is known in front of piece k.
AtPiece ==
  /\ k \in 1 .. 7 /\ out_len \in Nat /\ pos \in Nat /\ pos < out_len
  /\ extent \in Nat /\ extent <= out_len /\ extent > 0
  /\ spec \in Specs /\ spec.raw = 0
  /\ expression = {p \in Before(k) : Asked(p)}
  /\ out_len = MainBuffer => pos <= Longest[k]

LEMMA KnownAtPiece ==
  ASSUME FilterInv, AddPiece
  PROVE  AtPiece /\ cut \subseteq PieceName /\ Pieces[k] \in PieceName
<1>1. k \in 1 .. 7 /\ progress = "building" BY DEF AddPiece
<1>2. out_len \in Nat
  <2>1. out_len \in SmallBuffer \cup {MainBuffer} BY Zenon DEF FilterInv, FilterTypes
  <2> QED BY <2>1, MainBufferLong, FilterAssumption
<1>3. pos \in Nat
  <2>1. pos \in 0 .. out_len BY Zenon DEF FilterInv, FilterTypes
  <2> QED BY <2>1, <1>2
<1>4. Pieces[k] \in PieceName BY <1>1, PieceNames DEF PieceName
<1> QED BY <1>1, <1>2, <1>3, <1>4 DEF FilterInv, FilterTypes, FilterInBuffer, AtPiece

(* append(): a piece that does not fit leaves an error, within the buffer, *)
(* and in main()'s buffer every piece fits.                                *)
LEMMA AppendInv ==
  ASSUME AtPiece, Asked(Pieces[k]), Append(Pieces[k]), UNCHANGED input,
         progress = "building"
  PROVE  /\ pos' \in 0 .. out_len /\ extent' \in Nat /\ extent' <= out_len
         /\ \/ /\ progress' = "too long" /\ out_len # MainBuffer
               /\ k' = k /\ expression' = expression
            \/ /\ progress' = "building" /\ k' = k + 1
               /\ expression' = expression \cup {Pieces[k]}
               /\ pos' < out_len /\ extent' > 0
               /\ out_len = MainBuffer => pos' <= Longest[k + 1]
<1> DEFINE L == PieceLength(Pieces[k])
<1>1. L \in Nat /\ L <= LongestPiece(k) BY PieceBounded DEF AtPiece
<1>2. /\ k \in 1 .. 7 /\ out_len \in Nat /\ pos \in Nat /\ pos < out_len
      /\ extent \in Nat /\ extent <= out_len /\ extent > 0
  BY DEF AtPiece
<1>3. /\ Longest[k] \in Nat /\ Longest[k + 1] \in Nat /\ LongestPiece(k) \in Nat
      /\ LongestPiece(k) <= Longest[k + 1]
      /\ k > 1 => Longest[k] + 5 + LongestPiece(k) <= Longest[k + 1]
      /\ Longest[1] = 0
      /\ Longest[k] + 5 + LongestPiece(k) < 512
  BY <1>2, LongestGrows
<1>4. Behind \in Nat /\ Behind <= pos + 5 /\ (pos = 0 => Behind = 0) /\ (pos # 0 => Behind = pos + 5)
  BY <1>2 DEF Behind
<1>5. out_len = MainBuffer => pos <= Longest[k] /\ out_len >= 512
  BY MainBufferLong DEF AtPiece
<1> HIDE DEF L
<1>6. CASE ~SeparatorFits /\ progress' = "too long" /\ UNCHANGED <<k, pos, expression, extent>>
  <2>0. ~(pos # 0 => pos + 4 < out_len) BY <1>6, Zenon DEF SeparatorFits
  <2>1. pos + 4 >= out_len BY <1>2, <2>0
  <2>2. out_len # MainBuffer BY <2>1, <1>2, <1>3, <1>5
  <2>3. pos' = pos /\ extent' = extent /\ k' = k /\ expression' = expression BY <1>6, Zenon
  <2>4. pos' \in 0 .. out_len BY <2>3, <1>2
  <2> QED BY <1>2, <1>6, <2>2, <2>3, <2>4, Zenon
<1>7. CASE /\ SeparatorFits /\ ~PieceFits(Pieces[k])
           /\ progress' = "too long" /\ pos' = Behind /\ Writes(Behind)
           /\ UNCHANGED <<k, expression>>
  <2>0. ~(Behind + L < out_len) BY <1>7, Zenon DEF PieceFits, L
  <2>1. Behind + L >= out_len BY <1>1, <1>2, <1>4, <2>0
  <2>2. out_len # MainBuffer BY <2>1, <1>1, <1>2, <1>3, <1>4, <1>5
  <2>3. Behind <= out_len
    <3>1. pos # 0 => pos + 4 < out_len BY <1>7, Zenon DEF SeparatorFits
    <3> QED BY <3>1, <1>2, <1>4
  <2>4. pos' \in 0 .. out_len
    <3>1. pos' = Behind BY <1>7, Zenon
    <3> QED BY <3>1, <2>3, <1>2, <1>4
  <2>5. extent' = IF Behind > extent THEN Behind ELSE extent BY <1>7, Zenon DEF Writes
  <2>6. extent' \in Nat /\ extent' <= out_len BY <2>3, <2>5, <1>2, <1>4
  <2> QED BY <1>7, <2>2, <2>4, <2>6, Zenon
<1>8. CASE /\ SeparatorFits /\ PieceFits(Pieces[k])
           /\ pos' = Behind + PieceLength(Pieces[k])
           /\ Writes(Behind + PieceLength(Pieces[k]) + 1)
           /\ expression' = expression \cup {Pieces[k]}
           /\ k' = k + 1
           /\ UNCHANGED progress
  <2>1. pos' = Behind + L /\ Behind + L < out_len BY <1>8 DEF PieceFits, L
  <2>2. extent' = IF Behind + L + 1 > extent THEN Behind + L + 1 ELSE extent
    BY <1>8 DEF Writes, L
  <2>3. extent' \in Nat /\ extent' <= out_len /\ extent' > 0
    BY <2>1, <2>2, <1>1, <1>2, <1>4
  <2>4. pos' \in 0 .. out_len /\ pos' < out_len BY <2>1, <1>1, <1>2, <1>4
  <2>5. out_len = MainBuffer => pos' <= Longest[k + 1]
    <3> SUFFICES ASSUME out_len = MainBuffer PROVE pos' <= Longest[k + 1] OBVIOUS
    <3>1. pos <= Longest[k] BY <1>5
    <3>2. CASE pos = 0
      <4>1. pos' = L BY <2>1, <1>1, <1>4, <3>2
      <4> QED BY <4>1, <1>1, <1>3
    <3>3. CASE pos # 0
      <4>1. k > 1 BY <3>1, <3>3, <1>2, <1>3
      <4> QED BY <4>1, <3>1, <3>3, <2>1, <1>1, <1>2, <1>3, <1>4
    <3> QED BY <3>2, <3>3
  <2> QED BY <1>8, <2>3, <2>4, <2>5
<1> QED BY <1>6, <1>7, <1>8, Zenon DEF Append

(* A piece is added, refused or passed over.                               *)
LEMMA AddPieceInv ==
  ASSUME FilterInv, AddPiece PROVE FilterInv'
<1>1. AtPiece /\ cut \subseteq PieceName /\ Pieces[k] \in PieceName BY KnownAtPiece
<1>2. /\ k \in 1 .. 7 /\ progress = "building" /\ spec' = spec /\ out_len' = out_len
      /\ out_len \in SmallBuffer \cup {MainBuffer} /\ expression \subseteq PieceName \cup {"raw"}
  BY DEF AddPiece, input, FilterInv, FilterTypes
<1>3. /\ out_len \in Nat /\ pos \in Nat /\ pos < out_len /\ extent \in Nat
      /\ extent <= out_len /\ extent > 0 /\ spec \in Specs /\ spec.raw = 0
      /\ expression = {p \in Before(k) : Asked(p)}
      /\ (out_len = MainBuffer => pos <= Longest[k])
  BY <1>1 DEF AtPiece
<1>4. k + 1 \in 0 .. 8 /\ k \in 0 .. 8 /\ k + 1 > 0 /\ k + 1 # 0 BY <1>2
<1>5. Before(k + 1) = Before(k) \cup {Pieces[k]} BY <1>2, BeforeGrows
<1>6. \A p \in Before(k + 1) : p \in PieceName
  BY <1>2, PieceNames DEF Before, PieceName
<1>7. \A p \in Before(k + 1) : Asked(p)' <=> Asked(p) BY <1>2, <1>6, AskedSame
<1>8. MainBuffer' = MainBuffer BY DEF MainBuffer
<1>9. CASE /\ Asked(Pieces[k]) /\ Append(Pieces[k])
           /\ cut' = IF PieceLength(Pieces[k]) < FullLength(Pieces[k])
                     THEN cut \cup {Pieces[k]} ELSE cut
  <2>1. cut' \subseteq PieceName BY <1>1, <1>9
  <2>2. /\ pos' \in 0 .. out_len /\ extent' \in Nat /\ extent' <= out_len
        /\ \/ /\ progress' = "too long" /\ out_len # MainBuffer
              /\ k' = k /\ expression' = expression
           \/ /\ progress' = "building" /\ k' = k + 1
              /\ expression' = expression \cup {Pieces[k]}
              /\ pos' < out_len /\ extent' > 0
              /\ out_len = MainBuffer => pos' <= Longest[k + 1]
    BY <1>1, <1>2, <1>9, AppendInv, Zenon DEF AddPiece
  <2>3. CASE /\ progress' = "too long" /\ out_len # MainBuffer
             /\ k' = k /\ expression' = expression
    BY <1>2, <1>3, <1>4, <1>8, <2>1, <2>2, <2>3, Zenon
       DEF FilterInv, FilterTypes, FilterInBuffer, ExpressionAsAsked
  <2>4. CASE /\ progress' = "building" /\ k' = k + 1
             /\ expression' = expression \cup {Pieces[k]}
             /\ pos' < out_len /\ extent' > 0
             /\ out_len = MainBuffer => pos' <= Longest[k + 1]
    <3>1. expression' = {p \in Before(k + 1) : Asked(p)'}
      BY <1>3, <1>5, <1>7, <1>9, <2>4
    <3>2. expression' \subseteq PieceName \cup {"raw"} BY <1>1, <1>2, <2>4
    <3> QED BY <1>2, <1>3, <1>4, <1>8, <2>1, <2>2, <2>4, <3>1, <3>2, Zenon
            DEF FilterInv, FilterTypes, FilterInBuffer, ExpressionAsAsked
  <2> QED BY <2>2, <2>3, <2>4, Zenon
<1>10. CASE /\ ~Asked(Pieces[k]) /\ k' = k + 1
            /\ UNCHANGED <<pos, progress, expression, cut, extent>>
  <2>1. expression' = {p \in Before(k + 1) : Asked(p)'}
    BY <1>3, <1>5, <1>7, <1>10, SMTT(20)
  <2>2. out_len = MainBuffer => pos <= Longest[k + 1]
    BY <1>2, <1>3, LongestGrows
  <2>3. pos' \in 0 .. out_len BY <1>3, <1>10, SMTT(20)
  <2> QED BY <1>1, <1>2, <1>3, <1>4, <1>8, <1>10, <2>1, <2>2, <2>3, Zenon
          DEF FilterInv, FilterTypes, FilterInBuffer, ExpressionAsAsked
<1> QED BY <1>9, <1>10, Zenon DEF AddPiece

(* Behind the last piece the expression has all that was asked for.        *)
LEMMA FinishInv ==
  ASSUME FilterInv, Finish PROVE FilterInv'
<1>1. /\ k = 8 /\ progress = "building" /\ progress' = "built"
      /\ UNCHANGED <<spec, out_len, k, pos, expression, cut, extent>>
  BY DEF Finish, input
<1>2. spec.raw = 0 /\ expression = {p \in PieceName : Asked(p)} /\ spec \in Specs
  BY <1>1, BeforeGrows, SMTT(20) DEF FilterInv, FilterTypes
<1>3. spec.port \in Int /\ (spec.port >= 0 <=> spec.port # -1)
      /\ \A p \in {"host", "src", "dst"} : spec[p] \in Nat
  BY <1>2, FilterAssumption DEF Specs
<1>4. expression = {p \in {"tcp", "udp", "icmp"} : spec[p]}
                     \cup {p \in {"port"} : spec.port # -1}
                     \cup {p \in {"host", "src", "dst"} : spec[p] # 0}
  BY <1>2, <1>3 DEF PieceName, Asked
<1>5. ExpressionAsAsked' BY <1>1, <1>2, <1>4 DEF ExpressionAsAsked
<1>6. MainBuffer' = MainBuffer BY DEF MainBuffer
<1> QED BY <1>1, <1>5, <1>6 DEF FilterInv, FilterTypes, FilterInBuffer

-----------------------------------------------------------------------------
(* The inductive invariant of ns_filter_build_bpf().                       *)
THEOREM FilterInvariant == FilterSpec => []FilterInv
<1>1. FilterInv /\ [FilterNext]_filterVars => FilterInv'
  <2> SUFFICES ASSUME FilterInv, [FilterNext]_filterVars PROVE FilterInv' OBVIOUS
  <2>1. CASE UNCHANGED filterVars
    <3>1. UNCHANGED <<spec, out_len, k, pos, progress, expression, cut, extent>>
      BY <2>1 DEF filterVars, input
    <3>2. MainBuffer' = MainBuffer BY DEF MainBuffer
    <3>3. \A p : Asked(p)' <=> Asked(p) BY <3>1 DEF Asked
    <3> QED BY <3>1, <3>2, <3>3, Zenon DEF FilterInv, FilterTypes, FilterInBuffer, ExpressionAsAsked
  <2> QED BY <2>1, StartInv, AddPieceInv, FinishInv DEF FilterNext
<1> QED BY <1>1, FilterInitInv, PTL DEF FilterSpec

(* No byte past the buffer is written, for any buffer and arguments.       *)
THEOREM FilterNoOverflow == FilterSpec => []FilterInBuffer
BY FilterInvariant, PTL DEF FilterInv

(* main()'s buffer is long enough for all that the options can ask for.    *)
THEOREM NeverTooLong == FilterSpec => []MainNeverTooLong
<1>1. FilterInv => MainNeverTooLong BY Zenon DEF FilterInv, MainNeverTooLong
<1> QED BY <1>1, FilterInvariant, PTL

(* The expression has what was asked for and nothing else.                 *)
THEOREM AsAsked == FilterSpec => []ExpressionAsAsked
BY FilterInvariant, PTL DEF FilterInv
=============================================================================
