--------------------------- MODULE Configuration ---------------------------
(***************************************************************************)
(* What a command makes of config.yaml and the environment: config.Load,    *)
(* the choice of an LLM for a role, and the autonomy of a run.              *)
(*                                                                         *)
(* A file is [llm, providers, command, roles, autonomy, allowBypass,        *)
(* notify, rounds]: the type in the legacy block, or Unset; the types of    *)
(* the declared providers, by name; whether a command is given; the         *)
(* provider assigned to each role; and the plain settings.  A machine is    *)
(* the set of what it has: "cli", "anthropic key", "openai key", "local".   *)
(***************************************************************************)
EXTENDS Functions

CONSTANT Unset

KnownTypes == {"", "auto", "anthropic", "cli", "openai", "openai-compatible"}
Autonomies == {"auto", "accept-edits", "bypass-permissions", "off"}
Notifies   == {"auto", "bell", "off"}
Invalid    == "invalid"

\* Mutant: what is not known is handed on.
NormalizeAutonomy_Any(v) == IF v \in {Unset, ""} THEN "auto" ELSE v

NormalizeAutonomy(v) ==
    CASE v \in {Unset, ""} -> "auto" [] v \in Autonomies -> v [] OTHER -> Invalid

NormalizeNotify(v) ==
    CASE v \in {Unset, ""} -> "auto" [] v \in Notifies -> v [] OTHER -> Invalid

\* OVERMIND_AUTONOMY, OVERMIND_AUTONOMY_ALLOW_BYPASS and OVERMIND_LLM_PROVIDER, where
\* set, replace what the file says.
ApplyEnv(file, env) ==
    [k \in DOMAIN file |-> IF k \in DOMAIN env /\ env[k] # Unset THEN env[k] ELSE file[k]]

LegacyProviderType(v) == CASE v = Unset -> "" [] v = "openai" -> "openai-compatible" [] OTHER -> v

\* A file that declares no provider gets the legacy block, which has defaults, as
\* provider "default"; the planner uses it unless it is assigned another.
Migrate(file) ==
    IF DOMAIN file.providers # {} THEN file
    ELSE [file EXCEPT
            !.providers = [n \in {"default"} |-> LegacyProviderType(file.llm)],
            !.roles = IF "planner" \in DOMAIN @ THEN @
                      ELSE [r \in DOMAIN @ \cup {"planner"} |->
                              IF r = "planner" THEN "default" ELSE @[r]]]

Validated(cfg) ==
    /\ cfg.rounds >= 0
    /\ NormalizeAutonomy(cfg.autonomy) # Invalid
    /\ NormalizeNotify(cfg.notify) # Invalid
    /\ \A n \in DOMAIN cfg.providers :
         cfg.providers[n] \in KnownTypes /\ (cfg.providers[n] = "cli" => cfg.command)
    /\ "planner" \in DOMAIN cfg.roles
    /\ Range(cfg.roles) \subseteq DOMAIN cfg.providers

Load(file, env) == Migrate(ApplyEnv(file, env))

\* newRoleLLM: a client, or why there is none.  "unavailable" is for the user to mend
\* on the machine; "unassigned" and "unknown" blame the configuration.
RoleLLM(cfg, role, machine) ==
    IF role \notin DOMAIN cfg.roles \/ cfg.roles[role] \notin DOMAIN cfg.providers
    THEN "unassigned"
    ELSE LET type   == cfg.providers[cfg.roles[role]]
             needed == CASE type \in {"", "auto"} -> {"cli", "anthropic key"}
                         [] type = "anthropic"   -> {"anthropic key"}
                         [] type = "cli"         -> {"cli"}
                         [] type \in {"openai", "openai-compatible"} -> {"openai key", "local"}
                         [] OTHER                -> {}
         IN  IF type \notin KnownTypes THEN "unknown"
             ELSE IF needed \cap machine # {} THEN "ready" ELSE "unavailable"

\* Mutant: the opt-in is asked for before the flag is looked at.
ResolveAutonomy_FlagUnchecked(cfg, flag) ==
    LET m == NormalizeAutonomy(cfg.autonomy)
    IN  IF m = "bypass-permissions" /\ ~cfg.allowBypass THEN Invalid
        ELSE IF flag = Unset THEN m ELSE NormalizeAutonomy(flag)

\* The flag goes before the configuration; without the opt-in there is no bypass.
ResolveAutonomy(cfg, flag) ==
    LET m == NormalizeAutonomy(IF flag = Unset THEN cfg.autonomy ELSE flag)
    IN  IF m = "bypass-permissions" /\ ~cfg.allowBypass THEN Invalid ELSE m

\* What a command keeps of its settings.
Settings(file, env, machine, flag) ==
    LET cfg == Load(file, env)
    IN  [loaded |-> Validated(cfg), optedIn |-> cfg.allowBypass,
         autonomy |-> ResolveAutonomy(cfg, flag),
         planner |-> RoleLLM(cfg, "planner", machine),
         verifier |-> RoleLLM(cfg, "verifier", machine)]
=============================================================================
