------------------------------- MODULE Filter -------------------------------
(***************************************************************************)
(* ns_filter_build_bpf() of src/src/filter.c: the simplified filter        *)
(* options become one BPF expression, piece by piece.                      *)
(*                                                                         *)
(* Of a string only its length matters here.  The arguments come from      *)
(* ns_config_parse(), which stores at most NS_CONFIG_STR_LEN - 1 bytes of  *)
(* each: see module CommandLine.                                           *)
(***************************************************************************)
EXTENDS Integers, ConfigLimits

CONSTANTS
  Argument,            \* lengths of stored arguments
  Port,                \* ports that are asked for
  SmallBuffer          \* buffer sizes other than main()'s

ASSUME FilterAssumption ==
  /\ NS_CONFIG_STR_LEN \in Nat /\ NS_CONFIG_STR_LEN >= 256
  /\ \A length \in Argument : length \in Nat /\ length < NS_CONFIG_STR_LEN
  /\ \A port \in Port : port \in Nat /\ port <= 65535
  /\ SmallBuffer \subseteq Nat

VARIABLES
  spec,         \* ns_filter_spec_t
  out_len,
  k,            \* the piece that comes next
  pos,
  progress,       \* "building", "built" or "too long"
  expression,   \* the pieces in the expression
  cut,          \* history: pieces whose argument did not fit in piece[128]
  extent        \* history: bytes of out that were written

input == <<spec, out_len>>
filterVars == <<input, k, pos, progress, expression, cut, extent>>

PIECE_LEN == 128

\* Mutant: the buffer is as long as one argument.
MainBufferSingle == NS_CONFIG_STR_LEN

\* bpf_expr of main()
MainBuffer == NS_CONFIG_STR_LEN * 2

Specs == [tcp : BOOLEAN, udp : BOOLEAN, icmp : BOOLEAN, port : {-1} \cup Port,
          host : Argument, src : Argument, dst : Argument, raw : Argument]

FilterInit ==
  /\ spec \in Specs
  /\ out_len \in SmallBuffer \cup {MainBuffer}
  /\ k = 0 /\ pos = 0 /\ progress = "building" /\ expression = {} /\ cut = {} /\ extent = 0

-----------------------------------------------------------------------------
Writes(end) == extent' = IF end > extent THEN end ELSE extent

\* A raw expression takes the place of everything else.
Start ==
  /\ k = 0 /\ progress = "building"
  /\ \/ out_len = 0 /\ progress' = "too long" /\ UNCHANGED <<k, expression, extent>>
     \/ /\ out_len > 0 /\ spec.raw > 0 /\ spec.raw >= out_len
        /\ progress' = "too long" /\ Writes(1) /\ UNCHANGED <<k, expression>>
     \/ /\ out_len > 0 /\ spec.raw > 0 /\ spec.raw < out_len
        /\ progress' = "built" /\ expression' = {"raw"} /\ Writes(spec.raw + 1)
        /\ UNCHANGED k
     \/ /\ out_len > 0 /\ spec.raw = 0
        /\ k' = 1 /\ Writes(1) /\ UNCHANGED <<progress, expression>>
  /\ UNCHANGED <<input, pos, cut>>

Pieces == <<"tcp", "udp", "icmp", "port", "host", "src", "dst">>

\* Mutant: port 0 is taken for no port.
AskedNonzero(piece) ==
  \/ piece = "tcp" /\ spec.tcp
  \/ piece = "udp" /\ spec.udp
  \/ piece = "icmp" /\ spec.icmp
  \/ piece = "port" /\ spec.port > 0
  \/ piece \in {"host", "src", "dst"} /\ spec[piece] > 0

\* The conditions in front of the calls of append().
Asked(piece) ==
  \/ piece = "tcp" /\ spec.tcp
  \/ piece = "udp" /\ spec.udp
  \/ piece = "icmp" /\ spec.icmp
  \/ piece = "port" /\ spec.port >= 0
  \/ piece \in {"host", "src", "dst"} /\ spec[piece] > 0

Digits(n) == IF n < 10 THEN 1 ELSE IF n < 100 THEN 2 ELSE IF n < 1000 THEN 3
             ELSE IF n < 10000 THEN 4 ELSE 5

\* "tcp", "udp", "icmp", "port %d", "host %s", "src host %s", "dst host %s"
FullLength(piece) ==
  IF piece \in {"tcp", "udp"} THEN 3
  ELSE IF piece = "icmp" THEN 4
  ELSE IF piece = "port" THEN 5 + Digits(spec.port)
  ELSE IF piece = "host" THEN 5 + spec.host
  ELSE 9 + spec[piece]

\* snprintf() into piece[128]
PieceLength(piece) ==
  IF FullLength(piece) < PIECE_LEN THEN FullLength(piece) ELSE PIECE_LEN - 1

\* " and " has to fit when it is not the first piece.
SeparatorFits == pos # 0 => pos + 4 < out_len

Behind == IF pos = 0 THEN 0 ELSE pos + 5

\* Mutant: no room for the terminating NUL.
PieceFitsWithoutNul(piece) == Behind + PieceLength(piece) <= out_len

PieceFits(piece) == Behind + PieceLength(piece) < out_len

\* append()
Append(piece) ==
  \/ ~SeparatorFits /\ progress' = "too long" /\ UNCHANGED <<k, pos, expression, extent>>
  \/ /\ SeparatorFits /\ ~PieceFits(piece)
     /\ progress' = "too long" /\ pos' = Behind /\ Writes(Behind)
     /\ UNCHANGED <<k, expression>>
  \/ /\ SeparatorFits /\ PieceFits(piece)
     /\ pos' = Behind + PieceLength(piece) /\ Writes(Behind + PieceLength(piece) + 1)
     /\ expression' = expression \cup {piece}
     /\ k' = k + 1
     /\ UNCHANGED progress

AddPiece ==
  /\ k \in 1 .. 7 /\ progress = "building"
  /\ \/ /\ Asked(Pieces[k]) /\ Append(Pieces[k])
        /\ cut' = IF PieceLength(Pieces[k]) < FullLength(Pieces[k])
                  THEN cut \cup {Pieces[k]} ELSE cut
     \/ /\ ~Asked(Pieces[k]) /\ k' = k + 1
        /\ UNCHANGED <<pos, progress, expression, cut, extent>>
  /\ UNCHANGED input

Finish ==
  /\ k = 8 /\ progress = "building"
  /\ progress' = "built"
  /\ UNCHANGED <<input, k, pos, expression, cut, extent>>

FilterNext == Start \/ AddPiece \/ Finish

FilterSpec == FilterInit /\ [][FilterNext]_filterVars

-----------------------------------------------------------------------------
PieceName == {"tcp", "udp", "icmp", "port", "host", "src", "dst"}

(* Type invariant.                                                         *)
FilterTypes ==
  /\ spec \in Specs /\ out_len \in SmallBuffer \cup {MainBuffer}
  /\ k \in 0 .. 8 /\ pos \in 0 .. out_len /\ extent \in Nat
  /\ progress \in {"building", "built", "too long"}
  /\ expression \subseteq PieceName \cup {"raw"} /\ cut \subseteq PieceName

(* No write past the buffer, whatever its size and the arguments.          *)
FilterInBuffer == extent <= out_len

(* main.c:101-104: main()'s buffer holds every expression that can be      *)
(* asked for, so that its error message is never needed.                   *)
MainNeverTooLong == out_len = MainBuffer => progress # "too long"

(* Exactly what was asked for is in the expression: each option that was   *)
(* given (port 0 too) and no other, unless there is a raw expression.      *)
ExpressionAsAsked ==
  progress = "built" =>
    expression = IF spec.raw > 0 THEN {"raw"}
                 ELSE {p \in {"tcp", "udp", "icmp"} : spec[p]}
                        \cup {p \in {"port"} : spec.port # -1}
                        \cup {p \in {"host", "src", "dst"} : spec[p] # 0}

-----------------------------------------------------------------------------
(* What the documentation says and the code does not do.                   *)

\* The packets a BPF primitive selects, by transport protocol (libpcap's).
Selects(piece) == IF piece = "tcp" THEN {"TCP"}
                  ELSE IF piece = "udp" THEN {"UDP"}
                  ELSE IF piece = "icmp" THEN {"ICMP"}
                  ELSE {"TCP", "UDP", "ICMP", "ICMPV6"}

(* config.c:261, "only ICMP/ICMPv6 packets".                               *)
IcmpSelectsBoth ==
  progress = "built" /\ expression = {"icmp"} =>
    {"ICMP", "ICMPV6"} \subseteq {t \in {"TCP", "UDP", "ICMP", "ICMPV6"} :
                                    \A p \in expression : t \in Selects(p)}

(* main.c:103, "capture filter expression is too long": an address that    *)
(* does not fit is refused, not shortened.                                 *)
AddressWholeOrRefused == progress = "built" => cut = {}
=============================================================================
