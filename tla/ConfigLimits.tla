---------------------------- MODULE ConfigLimits ----------------------------
(***************************************************************************)
(* include/netscope/config.h: the size of the strings of ns_config_t,      *)
(* which ns_config_parse() fills and ns_filter_build_bpf() reads.          *)
(***************************************************************************)

CONSTANT NS_CONFIG_STR_LEN   \* 256
=============================================================================
