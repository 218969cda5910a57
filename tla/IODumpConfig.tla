---------------------------- MODULE IODumpConfig ----------------------------
(***************************************************************************)
(* How the settings of the IO dumper are resolved                          *)
(* (vllm_fl/dispatch/io_dumper.py, io_common.py): defaults, environment,   *)
(* YAML file and Python arguments overlay each other, and what was resolved*)
(* is written back to the environment for the processes started later.     *)
(*                                                                         *)
(* A layer is a record of settings, Unset where it says nothing.  None is  *)
(* the Python value: "all", as an explicit argument.  Settings that are    *)
(* merged in the same way as one of these are left out: layers and ranks   *)
(* go with max_calls' neighbours ops and step_range.                       *)
(***************************************************************************)
EXTENDS Naturals, Sequences, FiniteSets

CONSTANTS
    Unset,  \* nothing was said
    None,   \* Python's None
    NoFile  \* no file, or none with an io_dump section

(* What was not said is none of the things that can be said.               *)
ASSUME UnsetAssumption ==
    /\ Unset \notin {None} /\ Unset \notin {"", "0", "1", "cwd"}
    /\ Unset \notin BOOLEAN /\ Unset \notin Nat
    /\ {Unset, None} \cap (Nat \X Nat) = {}

Fields == {"dir", "ops", "modules", "max", "range", "values", "metas", "print"}
Silent == [f \in Fields |-> Unset]

Defaults == [dir |-> "cwd", ops |-> None, modules |-> None, max |-> 0,
             range |-> None, values |-> FALSE, metas |-> FALSE, print |-> FALSE]

(* What a layer may say; the other settings may be anything.               *)
Layer(l) ==
    /\ DOMAIN l = Fields
    /\ l.dir # ""
    /\ l.max \in Nat \cup {Unset}
    /\ l.range \in Nat \X Nat \cup {Unset, None}
    /\ \A f \in {"values", "metas", "print"} : l[f] \in BOOLEAN \cup {Unset}

(* The environment and a file have no way to write that None.              *)
TextLayer(l) == Layer(l) /\ l.range # None

(* What the upper layer says replaces what is below it.                    *)
Over(base, layer) == [f \in Fields |->
    IF layer[f] = Unset THEN base[f] ELSE layer[f]]

(* A range is written "first-last" and kept half-open.                     *)
Parsed(range) == IF range = Unset THEN Unset ELSE <<range[1], range[2] + 1>>

(* The directory variables "0" and "1" name no directory.                  *)
EnvLayer(env) == [env EXCEPT
    !.dir = IF @ \in {"0", "1"} THEN Unset ELSE @,
    !.range = Parsed(@)]

(* _parse_dump_section: max_calls 0 says nothing, and a section without    *)
(* with_values says FALSE.                                                 *)
YamlLayer(yaml) ==
    IF yaml = NoFile THEN Silent
    ELSE [yaml EXCEPT !.max = IF @ = 0 THEN Unset ELSE @,
                      !.values = IF @ = Unset THEN FALSE ELSE @,
                      !.range = Parsed(@)]

ApiLayer(api) == [api EXCEPT
    !.dir = IF @ = None THEN "cwd" ELSE @,
    !.range = IF @ = None THEN None ELSE Parsed(@)]

YamlDir(yaml) == yaml # NoFile /\ yaml.dir # Unset

(* The module-level settings of the dumper; all: neither ops nor modules   *)
(* restrict it.                                                            *)
Off == [on |-> FALSE, dir |-> "", all |-> FALSE, ops |-> {}, modules |-> {}, max |-> 0,
        range |-> None, values |-> FALSE, metas |-> FALSE, print |-> FALSE]
Apply(r, dir) ==
    [on |-> TRUE, dir |-> dir, all |-> r.ops = None /\ r.modules = None,
     ops |-> IF r.ops = None THEN {} ELSE r.ops,
     modules |-> IF r.modules = None THEN {} ELSE r.modules,
     max |-> r.max, range |-> r.range, values |-> r.values,
     metas |-> r.metas, print |-> r.print]

(* enable_io_dump: print-only unless an argument or the environment names  *)
(* a directory (what the file names does not count).                       *)
EnableConfig(env, yaml, api) ==
    LET r == Over(Over(Over(Defaults, EnvLayer(env)), YamlLayer(yaml)), ApiLayer(api))
    IN Apply(r, IF r.print /\ api.dir = Unset /\ env.dir = Unset THEN "" ELSE r.dir)

(* _init_from_env: off unless something asks for a dump, then the same     *)
(* layers without the arguments.                                           *)
Requested(env, yaml) ==
    \/ env.dir # Unset \/ YamlDir(yaml)
    \/ env.print = TRUE \/ env.range # Unset
InitFromEnv(env, yaml) ==
    LET r == Over(Over(Defaults, EnvLayer(env)), YamlLayer(yaml))
        named == env.dir # Unset \/ YamlDir(yaml) \/ env.print # TRUE
    IN IF env.dir = "0" \/ ~Requested(env, yaml) THEN Off
       ELSE Apply(r, IF r.print /\ ~named THEN "" ELSE r.dir)

(* Mutant: the half-open end is written as if it were the last step.       *)
SetEnvVarsEnd(cfg) ==
    [dir     |-> IF cfg.dir = "" THEN Unset ELSE cfg.dir,
     ops     |-> IF cfg.ops = {} THEN Unset ELSE cfg.ops,
     modules |-> IF cfg.modules = {} THEN Unset ELSE cfg.modules,
     max     |-> IF cfg.max > 0 THEN cfg.max ELSE Unset,
     range   |-> IF cfg.range = None THEN Unset ELSE cfg.range,
     values  |-> IF cfg.values THEN TRUE ELSE Unset,
     metas   |-> IF cfg.metas THEN TRUE ELSE Unset,
     print   |-> IF cfg.print THEN TRUE ELSE Unset]

(* _set_env_vars.                                                          *)
SetEnvVars(cfg) ==
    [dir     |-> IF cfg.dir = "" THEN Unset ELSE cfg.dir,
     ops     |-> IF cfg.ops = {} THEN Unset ELSE cfg.ops,
     modules |-> IF cfg.modules = {} THEN Unset ELSE cfg.modules,
     max     |-> IF cfg.max > 0 THEN cfg.max ELSE Unset,
     range   |-> IF cfg.range = None THEN Unset
                 ELSE <<cfg.range[1], cfg.range[2] - 1>>,
     values  |-> IF cfg.values THEN TRUE ELSE Unset,
     metas   |-> IF cfg.metas THEN TRUE ELSE Unset,
     print   |-> IF cfg.print THEN TRUE ELSE Unset]
=============================================================================
