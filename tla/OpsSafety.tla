------------------------------ MODULE OpsSafety ------------------------------
(***************************************************************************)
(* The gates of the ops chat as functions of the operator's instruction:   *)
(* injection guard, parser, configuration guard, danger heuristic, intent  *)
(* validator, and the whitelist of the least-privilege executor.           *)
(*                                                                         *)
(* All of them match regular expressions against texts. A command is what  *)
(* the catalogues see in it:                                               *)
(*   block, approval, allow   a BLOCK, REQUIRE_APPROVAL, ALLOW rule matches*)
(*   chained                  it contains a shell operator                 *)
(*   parses                   shlex can split it, and something remains    *)
(*   elevated                 it starts with sudo, doas, su, ...           *)
(*   path, writes             it names a protected file, has a write verb  *)
(*                            or a redirection                             *)
(*   program, verb            argv[0] without its path, first non-flag     *)
(* An instruction carries the command it would be if run verbatim.         *)
(***************************************************************************)
EXTENDS Integers, Sequences, FiniteSets

Program == {"query", "systemctl", "other"}

Verb == {"read", "other", "none"}

Command ==
  [block : BOOLEAN, approval : BOOLEAN, allow : BOOLEAN, chained : BOOLEAN,
   parses : BOOLEAN, elevated : BOOLEAN, path : BOOLEAN, writes : BOOLEAN,
   program : Program, verb : Verb]

\* Forms of danger the parser recognises: "repository" is repo_tamper.
Danger == {"none", "catalogued", "repository"}

Topic ==
  {"PORT_LOOKUP", "SERVICE_STATUS", "RECENT_ERROR_LOGS", "NETWORK_ANOMALY",
   "KYLINSEC_STATUS", "TCM_VERIFY", "KERNEL_MODULE_CHECK", "DISK_USAGE",
   "MEMORY_STATUS", "CPU_LOAD", "PROCESS_LIST"}

(***************************************************************************)
(* injections: what the injection guard finds in it; hint: it speaks of    *)
(* writing, in Chinese or English; topic: the first of the safe intents    *)
(* that matches, "raw" for what smells like a command.                     *)
(***************************************************************************)
InjectionForm == {"too long", "percent-encoded", "pattern"}

Instruction ==
  [empty : BOOLEAN, injections : SUBSET InjectionForm, hint : BOOLEAN, danger : Danger,
   topic : Topic \cup {"raw", "unknown"}, text : Command]

-----------------------------------------------------------------------------
(* ops_intent_parser *)

Query ==
  [block |-> FALSE, approval |-> FALSE, allow |-> TRUE, chained |-> FALSE,
   parses |-> TRUE, elevated |-> FALSE, path |-> FALSE, writes |-> FALSE,
   program |-> "query", verb |-> "none"]

StatusQuery == [Query EXCEPT !.program = "systemctl", !.verb = "read"]

\* kylinsec-status, tcm_get_info and lsmod: no rule knows them.
Unlisted == [Query EXCEPT !.allow = FALSE, !.program = "other"]

(***************************************************************************)
(* What the parser hands to the validator in place of a dangerous request. *)
(* "rm /etc/yum.repos.d/kylin.repo" is the one that no rule matches.       *)
(***************************************************************************)
SyntheticOf(danger) == [Unlisted EXCEPT !.block = danger = "catalogued"]

\* A plan: the candidate commands and the calls of tools that exist.
Planned(commands, calls) == [commands |-> commands, calls |-> calls]

\* The builders of the safe intents.
PlanOn(topic) ==
  CASE topic = "PORT_LOOKUP"     -> Planned(<<Query, Query>>, 2)
    [] topic = "NETWORK_ANOMALY" -> Planned(<<Query>>, 2)
    [] topic = "SERVICE_STATUS"  -> Planned(<<StatusQuery>>, 1)
    [] topic \in {"KYLINSEC_STATUS", "TCM_VERIFY", "KERNEL_MODULE_CHECK"} ->
         Planned(<<Unlisted>>, 0)
    [] OTHER                     -> Planned(<<Query>>, 1)

\* parse_instruction: danger wins over everything else.
Plan(i) ==
  IF i.empty THEN Planned(<< >>, 0)
  ELSE IF i.danger # "none" THEN Planned(<<SyntheticOf(i.danger)>>, 0)
  ELSE IF i.topic \in Topic THEN PlanOn(i.topic)
  ELSE IF i.topic = "raw" THEN Planned(<<i.text>>, 0)
  ELSE Planned(<< >>, 0)

CommandsOf(i) == {Plan(i).commands[k] : k \in DOMAIN Plan(i).commands}

-----------------------------------------------------------------------------
(* The guards *)

\* prompt_injection_guard.inspect
Injected(i) == i.injections # {}

(***************************************************************************)
(* system_config_guard.evaluate: a command of the plan writes a protected  *)
(* file, or the instruction does or only says so.                          *)
(***************************************************************************)
Protected(i) ==
  \/ \E c \in CommandsOf(i) : c.path /\ c.writes
  \/ ~i.empty /\ i.text.path /\ (i.text.writes \/ i.hint)

-----------------------------------------------------------------------------
(* IntentValidator.validate *)

Decision == {"ALLOW", "REQUIRE_APPROVAL", "BLOCK"}

\* Mutant: a chained command may match an ALLOW rule.
MatchesOfPrefix(c) ==
  {d \in Decision : \/ d = "BLOCK" /\ c.block
                    \/ d = "REQUIRE_APPROVAL" /\ c.approval
                    \/ d = "ALLOW" /\ c.allow}

\* The decisions of the rules that match a command.
Matches(c) ==
  {d \in Decision : \/ d = "BLOCK" /\ c.block
                    \/ d = "REQUIRE_APPROVAL" /\ c.approval
                    \/ d = "ALLOW" /\ c.allow /\ ~c.chained}

\* ALLOW rules do not apply to the instruction itself.
AllMatches(i) ==
  (UNION {Matches(c) : c \in CommandsOf(i)})
    \cup (IF i.empty THEN {} ELSE Matches(i.text) \ {"ALLOW"})

Validate(i) ==
  LET all == AllMatches(i)
  IN  IF i.empty /\ CommandsOf(i) = {} THEN "ALLOW"
      ELSE IF "BLOCK" \in all THEN "BLOCK"
      ELSE IF "REQUIRE_APPROVAL" \in all \/ all = {} THEN "REQUIRE_APPROVAL"
      ELSE "ALLOW"

(***************************************************************************)
(* is_dangerous_intent: the parser says so, or DANGER_HEURISTIC_RE, which  *)
(* joins the BLOCK rules, finds something.                                 *)
(***************************************************************************)
Dangerous(i) ==
  ~i.empty /\ (\/ i.danger # "none"
               \/ \E c \in CommandsOf(i) : c.block
               \/ i.text.block)

-----------------------------------------------------------------------------
(* LeastPrivilegeExecutor *)

Whitelisted(c) ==
  /\ ~c.elevated
  /\ c.program = "query" \/ (c.program = "systemctl" /\ c.verb = "read")

ExecutorStatus ==
  {"EXECUTED", "TIMEOUT", "RUNTIME_ERROR", "REJECTED", "INVALID_INPUT", "BLOCKED",
   "PENDING_APPROVAL", "SKIPPED"}

\* What subprocess.run may come to; the command has run on the host or not.
Runs == [status : {"EXECUTED", "TIMEOUT"}, ran : {TRUE}]
        \cup [status : {"RUNTIME_ERROR"}, ran : BOOLEAN]

Refused(status) == {[status |-> status, ran |-> FALSE]}

\* execute, for a command the validator has allowed.
ExecutionsOf(c) ==
  IF ~c.parses THEN Refused("INVALID_INPUT")
  ELSE IF ~Whitelisted(c) THEN Refused("REJECTED")
  ELSE Runs

(***************************************************************************)
(* _maybe_execute: the first command of the plan runs, if everything in    *)
(* the plan and the instruction together is ALLOWed.                       *)
(***************************************************************************)
MaybeExecute(i, executorEnabled) ==
  CASE Validate(i) = "BLOCK"            -> Refused("BLOCKED")
    [] Validate(i) = "REQUIRE_APPROVAL" -> Refused("PENDING_APPROVAL")
    [] Validate(i) = "ALLOW" ->
         IF Dangerous(i) THEN Refused("BLOCKED")
         ELSE IF ~executorEnabled \/ CommandsOf(i) = {} THEN Refused("SKIPPED")
         ELSE ExecutionsOf(Plan(i).commands[1])

=============================================================================
