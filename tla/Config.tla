------------------------------- MODULE Config -------------------------------
(***************************************************************************)
(* The settings of the agent: Parse and Validate in                        *)
(* internal/config/config.go, as operators.                                *)
(*                                                                         *)
(* An input says what the caller gave: for every flag and every variable   *)
(* of the environment a text or Unset, for "hostname" what the system      *)
(* answers, and for "command" which of the flags without a value is set.   *)
(* What a text means (trimmed, lower case, as a duration, an integer or a  *)
(* URL) is given for the texts the model uses.                             *)
(***************************************************************************)
EXTENDS Naturals

Unset == "unset"
Blank == " "            \* white space only
NoNumber == 0

Trimmed(text) == CASE text = Blank -> "" [] text = " ON " -> "ON" [] OTHER -> text
Lower(text) == IF text = "ON" THEN "on" ELSE text

\* time.ParseDuration in milliseconds and strconv.Atoi, NoNumber for an error: a
\* zero is refused like one.
Duration(text) == CASE text = "15s" -> 15000 [] text = "500ms" -> 500 [] OTHER -> NoNumber
Atoi(text) == IF text = "10" THEN 10 ELSE NoNumber
Numerals == {"10", "0"}
HttpUrls == {"https://host/write"}

\* env
Env(in, key, default) == IF in[key] \notin {Unset, ""} THEN in[key] ELSE default

\* The flag, then the environment, then the default.
Setting(in, flag, key, default) == IF in[flag] # Unset THEN in[flag] ELSE Env(in, key, default)

\* envInt: unlike the others it trims before it looks.
EnvInt(in) ==
    LET text == Trimmed(Env(in, "OBSERVANT_INSPECT_EVERY", ""))
    IN [ok |-> text \in Numerals \union {""}, text |-> IF text = "" THEN "10" ELSE text]

InspectEvery(in) == Atoi(IF in["-inspect-every"] # Unset THEN in["-inspect-every"] ELSE EnvInt(in).text)
Interval(in) == Duration(Trimmed(Setting(in, "-interval", "OBSERVANT_INTERVAL", "15s")))
DockerText(in) == Lower(Trimmed(Setting(in, "-docker", "OBSERVANT_DOCKER", "auto")))

DockerMode ==
    [auto |-> {"auto", ""}, on |-> {"on", "true", "1", "yes"}, off |-> {"off", "false", "0", "no"}]

\* Fault: the white space is cut off only after the system name has had its turn.
HostnameTrimmedLate(in) ==
    LET given == Setting(in, "-hostname", "OBSERVANT_HOSTNAME", "")
    IN Trimmed(IF given # "" THEN given
               ELSE IF Trimmed(in["hostname"]) # "" THEN in["hostname"] ELSE "unknown")

Hostname(in) ==
    LET given == Trimmed(Setting(in, "-hostname", "OBSERVANT_HOSTNAME", ""))
    IN IF given # "" THEN given
       ELSE IF Trimmed(in["hostname"]) # "" THEN Trimmed(in["hostname"]) ELSE "unknown"

\* What is wrong with the settings once the flags are read.
Refused(in) ==
    \/ in["argument"] # Unset
    \/ Interval(in) < 1000
    \/ InspectEvery(in) < 1
    \/ \A mode \in DOMAIN DockerMode : DockerText(in) \notin DockerMode[mode]

\* How Parse ends.  A bad number in the environment is refused before the flags
\* are looked at, and the usage text is printed before the settings are.
ParseResult(in) ==
    IF ~EnvInt(in).ok THEN "error"
    ELSE IF in["command"] = "help" THEN "usage"
    ELSE IF Refused(in) THEN "error" ELSE "settings"

\* The settings, of an input that Parse accepts.
Parse(in) ==
    [URL          |-> Setting(in, "-url", "OBSERVANT_URL", ""),
     Token        |-> Setting(in, "-token", "OBSERVANT_TOKEN", ""),
     Interval     |-> Interval(in),
     Hostname     |-> Hostname(in),
     Role         |-> Trimmed(Setting(in, "-role", "OBSERVANT_ROLE", "")),
     Docker       |-> CHOOSE mode \in DOMAIN DockerMode : DockerText(in) \in DockerMode[mode],
     Socket       |-> Setting(in, "-socket", "OBSERVANT_SOCKET", ""),
     InspectEvery |-> InspectEvery(in)]

\* Validate: what the push loop needs on top of that.
Valid(cfg) == cfg.URL \in HttpUrls /\ cfg.Token # ""
=============================================================================
