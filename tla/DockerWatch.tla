---------------------------- MODULE DockerWatch ----------------------------
(***************************************************************************)
(* From the command line to the loop, and what the agent itself remembers  *)
(* about the container socket: run, startDocker, redetectDocker,           *)
(* logDockerFailure, their calls in cycle, once and the outcome of         *)
(* selfCheck, cmd/observant-agent/main.go; Detect and probe,               *)
(* internal/docker/docker.go.  Which sockets answer, and with which        *)
(* failure a collection ends, is up to the runtime.                        *)
(***************************************************************************)
EXTENDS Config, Sequences, FiniteSetsExt

CONSTANTS
    Inputs,             \* what the agent may be started with, see Config
    Path,               \* of all sockets
    knownSockets,       \* the paths that are always tried, in order
    Message,            \* the texts of failures
    redetectEvery,      \* cycles between two attempts to find the socket
    dockerLogEvery,     \* ticks the same text stays quiet
    Gaps,               \* ticks between two cycles
    MaxCycles           \* bound of the model: cycles

None == "none"

ASSUME WatchAssumption ==
    /\ knownSockets \in Seq(Path)
    /\ redetectEvery \in Nat \ {0}
    /\ dockerLogEvery \in Nat \ {0}
    /\ Gaps \subseteq Nat \ {0}
    /\ None \notin Message
    /\ MaxCycles \in Nat
    /\ \A in \in Inputs : in["command"] \in {"", "help", "version", "once", "selfcheck"}

VARIABLES
    phase,          \* "start", "once", "selfcheck", "loop", "exit"
    code,           \* of the process
    mode,           \* cfg.Docker
    host,           \* cfg.Hostname, the tag of every point
    paths,          \* the sockets Detect tries, in order
    docker,         \* the client, NoClient for nil
    dockerErr,      \* the last detection failed
    cycles,         \* cycles begun
    now,            \* the clock
    dockerLastMsg,  \* the text of the last report, None for ""
    dockerLoggedAt, \* its time
    failing,        \* history: the failure of the last cycle, None for none
    said,           \* history: when each text was last reported, 0 for never
    usable          \* history: cycles in a row in which a socket would have answered

watched == <<docker, dockerErr, cycles, now, dockerLastMsg, dockerLoggedAt, failing, said, usable>>
vars == <<phase, code, mode, host, paths, watched>>

NoClient == [socket |-> None, batch |-> 0]

Init ==
    /\ phase = "start" /\ code = 0
    /\ mode = "auto" /\ host = "" /\ paths = <<>>
    /\ docker = NoClient /\ dockerErr = FALSE
    /\ cycles = 0 /\ now = dockerLogEvery
    /\ dockerLastMsg = None /\ dockerLoggedAt = 0
    /\ failing = None
    /\ said = [msg \in Message |-> 0]
    /\ usable = 0

-----------------------------------------------------------------------------
(* The search for a socket *)

\* What a variable of the environment leads to: a unix:// address, or the sockets of
\* the user.
Given(text) == IF text \in {Unset, ""} THEN <<>> ELSE <<text>>

candidateSockets(in) == Given(in["DOCKER_HOST"]) \o knownSockets \o Given(in["XDG_RUNTIME_DIR"])

\* What Detect may find at a path: no socket, one that does not answer, a Docker
\* before 25.0, or another runtime.
Found == {"nothing", "dead", "old", "runtime"}
Answering == {"old", "runtime"}

\* probe: an old Docker is asked for one thing at a time.
probe(path, found) == [socket |-> path, batch |-> IF found = "old" THEN 1 ELSE 5]

\* The first path that answers.
Detect(tried, found) ==
    LET answering == {i \in DOMAIN tried : found[tried[i]] \in Answering}
    IN IF answering = {} THEN NoClient
       ELSE probe(tried[Min(answering)], found[tried[Min(answering)]])

Clients(tried) == {Detect(tried, found) : found \in [Path -> Found]}

-----------------------------------------------------------------------------
(* The start *)

Exits(status) == phase' = "exit" /\ code' = status

\* run up to newAgent: nothing but the settings are looked at.
ParsesOnly(in) ==
    /\ phase = "start"
    /\ \/ ParseResult(in) = "error" /\ Exits(1)
       \/ ParseResult(in) = "usage" /\ Exits(2)
       \/ ParseResult(in) = "settings" /\ in["command"] = "version" /\ Exits(0)
    /\ UNCHANGED <<mode, host, paths, watched>>

\* What Detect tries: the path of the settings, or the paths it finds itself.
Tried(in) == IF Parse(in).Socket # "" THEN <<Parse(in).Socket>> ELSE candidateSockets(in)

\* newAgent and startDocker, then one of the three modes.
Starts(in) ==
    LET cfg == Parse(in)
    IN /\ phase = "start"
       /\ ParseResult(in) = "settings" /\ in["command"] # "version"
       /\ mode' = cfg.Docker /\ host' = cfg.Hostname /\ paths' = Tried(in)
       /\ docker' \in IF cfg.Docker = "off" THEN {NoClient} ELSE Clients(paths')
       /\ dockerErr' = (cfg.Docker # "off" /\ docker' = NoClient)
       /\ IF in["command"] = "" /\ ~Valid(cfg) THEN Exits(1)
          ELSE /\ phase' = IF in["command"] = "" THEN "loop" ELSE in["command"]
               /\ UNCHANGED code
       /\ UNCHANGED <<cycles, now, dockerLastMsg, dockerLoggedAt, failing, said, usable>>

Run(in) == ParsesOnly(in) \/ Starts(in)

\* A signal in the pause between the two samples ends both modes without a word.
Interrupted ==
    /\ phase \in {"once", "selfcheck"}
    /\ Exits(0)
    /\ UNCHANGED <<mode, host, paths, watched>>

Once ==
    /\ phase = "once"
    /\ Exits(IF dockerErr /\ mode = "on" THEN 1 ELSE 0)
    /\ UNCHANGED <<mode, host, paths, watched>>

\* What counts as a failure next to a host collector without a value.
CheckFails(failed) == failed \/ (docker = NoClient /\ mode = "on")

SelfCheck(failed) ==
    /\ phase = "selfcheck"
    /\ Exits(IF CheckFails(failed) THEN 1 ELSE 0)
    /\ UNCHANGED <<mode, host, paths, watched>>

-----------------------------------------------------------------------------
(* The loop *)

\* Fault: the detection is retried only where the configuration insists on it.
RetriesIfOn ==
    /\ docker = NoClient /\ mode = "on" /\ dockerErr
    /\ cycles # 0 /\ cycles % redetectEvery = 0

Retries ==
    /\ docker = NoClient /\ mode # "off" /\ dockerErr
    /\ cycles # 0 /\ cycles % redetectEvery = 0

redetectDocker(client) ==
    IF Retries /\ client # NoClient THEN docker' = client /\ dockerErr' = FALSE
                                    ELSE UNCHANGED <<docker, dockerErr>>

\* What the text of the last report is after redetectDocker.
Remembered(client) == IF Retries /\ client # NoClient THEN None ELSE dockerLastMsg

\* Fault: the quiet period holds for every text.
QuietForAll(msg, last, time) == msg \in Message /\ time - dockerLoggedAt < dockerLogEvery

\* logDockerFailure: the text that is still quiet
Quiet(msg, last, time) == msg = last /\ time - dockerLoggedAt < dockerLogEvery

Report(msg, last, time) ==
    IF msg = None \/ Quiet(msg, last, time)
    THEN /\ dockerLastMsg' = last
         /\ UNCHANGED <<dockerLoggedAt, said>>
    ELSE /\ dockerLastMsg' = msg
         /\ dockerLoggedAt' = time
         /\ said' = [said EXCEPT ![msg] = time]

\* One cycle: the detection, the count, the collection with its failure.
Cycle(gap, client, msg) ==
    /\ phase = "loop" /\ cycles < MaxCycles
    /\ now' = now + gap
    /\ redetectDocker(client)
    /\ cycles' = cycles + 1
    /\ msg # None => docker' # NoClient
    /\ Report(msg, Remembered(client), now')
    /\ failing' = msg
    /\ usable' = IF client # NoClient THEN usable + 1 ELSE 0
    /\ UNCHANGED <<phase, code, mode, host, paths>>

Next ==
    \/ \E in \in Inputs : Run(in)
    \/ Interrupted \/ Once \/ \E failed \in BOOLEAN : SelfCheck(failed)
    \/ \E gap \in Gaps, client \in Clients(paths), msg \in Message \union {None} :
        Cycle(gap, client, msg)

Spec == Init /\ [][Next]_vars

-----------------------------------------------------------------------------
(* Properties *)

\* Whatever mixture of flags, environment and system the name comes from, the
\* points of a host carry a name that is not white space (config.go 122).
HostIsNamed == phase \in {"once", "selfcheck", "loop"} => Trimmed(host) # "" /\ host = Trimmed(host)

\* Unless containers are switched off, a socket that appears late is found: it is
\* not there for longer than redetectEvery cycles without being opened.
SocketIsFound ==
    phase = "loop" /\ mode # "off" /\ docker = NoClient => usable <= redetectEvery

\* However failures alternate and pause, a failure of the last cycle is one the
\* log names: it was reported less than dockerLogEvery ago, and no other failure
\* was reported after it.
FailureIsHeard ==
    failing # None =>
        /\ now - said[failing] < dockerLogEvery
        /\ \A msg \in Message \ {failing} : said[msg] < said[failing]

\* What config.go 26 says: DockerOn reports an error when no socket exists.  It
\* holds of the two modes that print and exit.
OnReportsAnError ==
    mode = "on" /\ docker = NoClient /\ cycles > 0 => \E msg \in Message : said[msg] # 0
=============================================================================
