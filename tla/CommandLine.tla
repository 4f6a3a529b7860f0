---------------------------- MODULE CommandLine -----------------------------
(***************************************************************************)
(* ns_config_parse() of src/src/config.c: one action for each kind of      *)
(* option, in any order and any number of times, and the checks behind     *)
(* the loop.  Of a string only its length matters.  getopt_long() is       *)
(* external: it returns the options in order, moves other arguments behind *)
(* them, and answers '?' to what it does not know.                         *)
(***************************************************************************)
EXTENDS Integers, RunConfig, ConfigLimits

CONSTANTS
  Typed,               \* lengths of arguments on the command line
  PortValue,           \* what strtol() makes of the argument of --port
  MaxOptions           \* bound: options on a command line

ASSUME CommandLineAssumption ==
  /\ Typed \subseteq Nat /\ PortValue \subseteq Int
  /\ NS_CONFIG_STR_LEN \in Nat \ {0} /\ MaxOptions \in Nat

NS_LOG_WARN == 1
NS_LOG_DEBUG == 3

SimpleSwitch == {"tcp", "udp", "icmp"}
Switch == SimpleSwitch \cup {"help", "version", "list_interfaces", "no_color",
                             "verbose", "quiet", "stats", "hex"}
SimpleString == {"host", "src", "dst"}
StringOption == SimpleString \cup {"interface", "read", "write", "output", "filter"}

VARIABLES
  outcome,             \* "parsing", "accepted" or "rejected"
  on,                  \* the bool members that are set
  str,                 \* lengths of the char[] members
  filter_port, format, log_level, input_mode,
  have_interface, have_read_file, any_simple_filter, has_raw_filter,
  operands,            \* optind < argc behind the loop
  given,               \* history: the options of the command line
  vs,                  \* history: how often -v was given
  shortened,           \* history: options whose last argument was cut
  count                \* number of arguments so far, for the bound

flags == <<have_interface, have_read_file, any_simple_filter, has_raw_filter>>
history == <<given, vs, shortened>>
parseVars == <<outcome, on, str, filter_port, format, log_level, input_mode, flags,
          operands, history, count>>

ParseInit ==
  /\ outcome = "parsing"
  /\ on = {} /\ str = [o \in StringOption |-> 0]
  /\ filter_port = -1 /\ format = "text" /\ log_level = NS_LOG_WARN
  /\ input_mode = "none"
  /\ have_interface = FALSE /\ have_read_file = FALSE
  /\ any_simple_filter = FALSE /\ has_raw_filter = FALSE
  /\ operands = FALSE
  /\ given = {} /\ vs = 0 /\ shortened = {} /\ count = 0

-----------------------------------------------------------------------------
\* The loop over the options

TakeOption(name) ==
  /\ outcome = "parsing" /\ count < MaxOptions
  /\ count' = count + 1
  /\ given' = given \cup {name}

SetSwitch(o) ==
  /\ TakeOption(o)
  /\ on' = on \cup {o}
  /\ any_simple_filter' = (any_simple_filter \/ o \in SimpleSwitch)
  /\ UNCHANGED <<outcome, str, filter_port, format, log_level, input_mode, operands,
                 have_interface, have_read_file, has_raw_filter, vs, shortened>>

\* Mutant: the whole argument is copied.
CopiedWhole(n) == n

\* copy_str()
Copied(n) == IF n < NS_CONFIG_STR_LEN THEN n ELSE NS_CONFIG_STR_LEN - 1

\* Mutant: --dst does not count as a simple filter.
IsSimpleStringNoDst(o) == o \in {"host", "src"}

IsSimpleString(o) == o \in SimpleString

StoreString(o, n) ==
  /\ TakeOption(o)
  /\ str' = [str EXCEPT ![o] = Copied(n)]
  /\ shortened' = IF n < NS_CONFIG_STR_LEN THEN shortened \ {o} ELSE shortened \cup {o}
  /\ have_interface' = (have_interface \/ o = "interface")
  /\ have_read_file' = (have_read_file \/ o = "read")
  /\ has_raw_filter' = (has_raw_filter \/ o = "filter")
  /\ any_simple_filter' = (any_simple_filter \/ IsSimpleString(o))
  /\ UNCHANGED <<outcome, on, filter_port, format, log_level, input_mode, operands, vs>>

MaxPort == 65535

\* parse_port(); what is no number at all is rejected like one out of range.
PortOk(v) == v >= 0 /\ v <= MaxPort

SetPort(v) ==
  /\ TakeOption(IF PortOk(v) THEN "port" ELSE "invalid")
  /\ \/ /\ PortOk(v) /\ filter_port' = v /\ any_simple_filter' = TRUE
        /\ UNCHANGED outcome
     \/ /\ ~PortOk(v) /\ outcome' = "rejected"
        /\ UNCHANGED <<filter_port, any_simple_filter>>
  /\ UNCHANGED <<on, str, format, log_level, input_mode, operands,
                 have_interface, have_read_file, has_raw_filter, vs, shortened>>

SetFormat(f) ==
  /\ TakeOption(IF f \in {"text", "json"} THEN "format" ELSE "invalid")
  /\ \/ f \in {"text", "json"} /\ format' = f /\ UNCHANGED outcome
     \/ f \notin {"text", "json"} /\ outcome' = "rejected" /\ UNCHANGED format
  /\ UNCHANGED <<on, str, filter_port, log_level, input_mode, flags, operands,
                 vs, shortened>>

Raised == IF log_level < NS_LOG_DEBUG THEN log_level + 1 ELSE log_level

RaiseLogLevel ==
  /\ TakeOption("v")
  /\ log_level' = Raised
  /\ vs' = vs + 1
  /\ UNCHANGED <<outcome, on, str, filter_port, format, input_mode, flags, operands,
                 shortened>>

SetDebug ==
  /\ TakeOption("debug")
  /\ log_level' = NS_LOG_DEBUG
  /\ UNCHANGED <<outcome, on, str, filter_port, format, input_mode, flags, operands,
                 vs, shortened>>

\* '?': an unknown option, or one without its argument.
Unrecognized ==
  /\ TakeOption("invalid")
  /\ outcome' = "rejected"
  /\ UNCHANGED <<on, str, filter_port, format, log_level, input_mode, flags, operands,
                 vs, shortened>>

\* An argument that is no option: getopt_long() leaves it behind the others.
Operand ==
  /\ TakeOption("operand")
  /\ operands' = TRUE
  /\ UNCHANGED <<outcome, on, str, filter_port, format, log_level, input_mode, flags,
                 vs, shortened>>

-----------------------------------------------------------------------------
\* Behind the loop

HelpOrVersion == on \cap {"help", "version"} # {}

OutputWithoutJson == str["output"] > 0 /\ format # "json"

Conflict ==
  \/ have_interface /\ have_read_file
  \/ has_raw_filter /\ any_simple_filter
  \/ OutputWithoutJson

\* Mutant: input_mode stays NS_INPUT_NONE, its value 0.
SourceUnset == input_mode

Source == IF have_interface THEN "live" ELSE "file"

CheckOptions ==
  /\ outcome = "parsing"
  /\ \/ operands /\ outcome' = "rejected" /\ UNCHANGED input_mode
     \/ ~operands /\ HelpOrVersion /\ outcome' = "accepted" /\ UNCHANGED input_mode
     \/ ~operands /\ ~HelpOrVersion /\ Conflict /\ outcome' = "rejected"
        /\ UNCHANGED input_mode
     \/ /\ ~operands /\ ~HelpOrVersion /\ ~Conflict
        /\ \/ "list_interfaces" \in on /\ outcome' = "accepted" /\ UNCHANGED input_mode
           \/ /\ "list_interfaces" \notin on /\ (have_interface \/ have_read_file)
              /\ outcome' = "accepted" /\ input_mode' = Source
           \/ /\ "list_interfaces" \notin on /\ ~have_interface /\ ~have_read_file
              /\ outcome' = "rejected" /\ UNCHANGED input_mode
  /\ UNCHANGED <<on, str, filter_port, format, log_level, flags, operands, history, count>>

ParseNext ==
  \/ \E o \in Switch : SetSwitch(o)
  \/ \E o \in StringOption, n \in Typed : StoreString(o, n)
  \/ \E v \in PortValue : SetPort(v)
  \/ \E f \in {"text", "json", "other"} : SetFormat(f)
  \/ RaiseLogLevel \/ SetDebug \/ Unrecognized \/ Operand
  \/ CheckOptions

ParseSpec == ParseInit /\ [][ParseNext]_parseVars
-----------------------------------------------------------------------------
(* Type invariant; in particular a stored string leaves room for its NUL.  *)
ConfigTypes ==
  /\ outcome \in {"parsing", "accepted", "rejected"}
  /\ on \subseteq Switch
  /\ str \in [StringOption -> 0 .. NS_CONFIG_STR_LEN - 1]
  /\ filter_port \in -1 .. MaxPort /\ format \in {"text", "json"}
  /\ log_level \in Nat /\ input_mode \in {"none", "live", "file"}
  /\ {have_interface, have_read_file, any_simple_filter, has_raw_filter,
      operands} \subseteq BOOLEAN

Run == /\ outcome = "accepted"
       /\ on \cap {"help", "version", "list_interfaces"} = {}

(* What main() starts a capture with is a configuration of module Capture: *)
(* it has one source, the one that was named, and --output only with JSON. *)
StartsCapture ==
  Run =>
    /\ [mode |-> input_mode, format |-> format, quiet |-> "quiet" \in on,
        show_stats |-> "stats" \in on, write_file |-> str["write"] > 0,
        output_file |-> str["output"] > 0] \in Config
    /\ given \cap {"interface", "read"} =
         IF input_mode = "live" THEN {"interface"} ELSE {"read"}

Simple == SimpleSwitch \cup SimpleString \cup {"port"}

(* Whether a command line is accepted depends on which options it has, not *)
(* on their order or number: nothing invalid; -i or -r and not both, not   *)
(* --filter with a simple filter, unless help or the version is asked for. *)
(* Only --format and --output count as they were given last.               *)
AcceptedExactly ==
  outcome # "parsing" =>
    (outcome = "accepted" <=>
       /\ given \cap {"invalid", "operand"} = {}
       /\ \/ given \cap {"help", "version"} # {}
          \/ /\ ~({"interface", "read"} \subseteq given)
             /\ "filter" \in given => given \cap Simple = {}
             /\ str["output"] > 0 => format = "json"
             /\ given \cap {"interface", "read", "list_interfaces"} # {})

(* config.c:279-280: each -v raises the level by one, up to DEBUG, and     *)
(* --debug is -vv wherever it stands.                                      *)
LogLevelAsGiven ==
  log_level = IF "debug" \in given \/ vs >= 2 THEN NS_LOG_DEBUG ELSE NS_LOG_WARN + vs

(* What the options mean does not depend on the order they come in.        *)
OrderIrrelevant == AcceptedExactly /\ LogLevelAsGiven

(* config.c:276, "save captured packets": to the file that was named.      *)
StoredWhole == Run => shortened = {}
=============================================================================
