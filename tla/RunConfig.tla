----------------------------- MODULE RunConfig ------------------------------
(***************************************************************************)
(* The part of ns_config_t that decides how a run goes, as                 *)
(* ns_config_parse() hands it to main(): module CommandLine ends with a    *)
(* member of Config and module Capture starts from one.                    *)
(***************************************************************************)

\* --output needs --format json.
Config == {c \in [mode : {"live", "file"}, format : {"text", "json"},
                  quiet : BOOLEAN, show_stats : BOOLEAN,
                  write_file : BOOLEAN, output_file : BOOLEAN] :
             c.output_file => c.format = "json"}
=============================================================================
