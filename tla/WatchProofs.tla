---------------------------- MODULE WatchProofs ----------------------------
(***************************************************************************)
(* Theorems about DockerWatch.tla, for any command lines and environments, *)
(* any sockets and failures, and any two periods.                          *)
(***************************************************************************)
EXTENDS DockerWatch, TLAPS

-----------------------------------------------------------------------------
(* Remainders *)

LEMMA RemainderInRange ==
    ASSUME NEW R \in Nat \ {0}, NEW c \in Nat
    PROVE  c % R \in 0 .. R - 1
OBVIOUS

LEMMA QuotientAndRemainder ==
    ASSUME NEW R \in Nat \ {0}, NEW c \in Nat
    PROVE  c = R * (c \div R) + (c % R) /\ c \div R \in Int
OBVIOUS

LEMMA MultiplesApart ==
    ASSUME NEW R \in Nat \ {0}, NEW p \in Int, NEW q \in Int, p < q
    PROVE  R * p + R <= R * q
<1>1. R * (q - p) >= R
  <2>1. q - p - 1 \in Nat
    OBVIOUS
  <2>2. R * (q - p - 1) >= 0
    BY <2>1
  <2>3. R * (q - p) = R * (q - p - 1) + R
    OBVIOUS
  <2>4. QED
    BY <2>2, <2>3
<1>2. R * (q - p) = R * q - R * p
  OBVIOUS
<1>3. R * p \in Int /\ R * q \in Int
  OBVIOUS
<1>4. QED
  BY <1>1, <1>2, <1>3

\* Between two multiples of R the remainder counts up.
LEMMA RemainderCounts ==
    ASSUME NEW R \in Nat \ {0}, NEW c \in Nat, c > 0, c % R # 0
    PROVE  c % R = ((c - 1) % R) + 1
<1> DEFINE p == (c - 1) \div R
           q == c \div R
           r == (c - 1) % R
           s == c % R
<1>1. c = R * q + s /\ q \in Int /\ s \in 0 .. R - 1
  BY RemainderInRange, QuotientAndRemainder
<1>2. c - 1 = R * p + r /\ p \in Int /\ r \in 0 .. R - 1
  BY RemainderInRange, QuotientAndRemainder, c - 1 \in Nat
<1>3. R * p \in Int /\ R * q \in Int
  BY <1>1, <1>2
<1> HIDE DEF p, q, r, s
<1>4. ~(p < q)
  <2>1. ASSUME p < q PROVE R * p + R <= R * q
    BY <1>1, <1>2, <2>1, MultiplesApart
  <2>2. QED
    BY <1>1, <1>2, <1>3, <2>1 DEF s
<1>5. ~(q < p)
  <2>1. ASSUME q < p PROVE R * q + R <= R * p
    BY <1>1, <1>2, <2>1, MultiplesApart
  <2>2. QED
    BY <1>1, <1>2, <1>3, <2>1
<1>6. s = r + 1
  BY <1>1, <1>2, <1>3, <1>4, <1>5
<1>7. QED
  BY <1>6 DEF s, r

-----------------------------------------------------------------------------
(* The constants *)

LEMMA Periods ==
    /\ redetectEvery \in Nat \ {0} /\ dockerLogEvery \in Nat \ {0}
    /\ \A gap \in Gaps : gap \in Nat /\ gap > 0
<1>1. redetectEvery \in Nat \ {0} /\ dockerLogEvery \in Nat \ {0} /\ Gaps \subseteq Nat \ {0}
  BY WatchAssumption
<1>2. QED
  BY <1>1

-----------------------------------------------------------------------------
(* The name of the host *)

LEMMA TrimmedOnce == ASSUME NEW text PROVE Trimmed(Trimmed(text)) = Trimmed(text)
BY DEF Trimmed, Blank

LEMMA HostnameIsAName ==
    ASSUME NEW in
    PROVE  Trimmed(Hostname(in)) = Hostname(in) /\ Hostname(in) # ""
<1>1. Trimmed("unknown") = "unknown"
  BY DEF Trimmed, Blank
<1>2. QED
  BY <1>1, TrimmedOnce DEF Hostname

-----------------------------------------------------------------------------

Numbers ==
    /\ cycles \in Nat /\ usable \in Nat
    /\ now \in Nat /\ dockerLoggedAt \in Nat /\ dockerLoggedAt <= now
    /\ said \in [Message -> Nat]
    /\ dockerLastMsg \in Message \union {None}
    /\ failing \in Message \union {None}

\* A socket that is missed was there only since the last attempt: before the first
\* one, cycles counts the rounds since then, afterwards its remainder does.
Missed ==
    phase = "loop" /\ mode # "off" /\ docker = NoClient =>
        /\ dockerErr
        /\ cycles <= redetectEvery => usable <= cycles
        /\ cycles > redetectEvery => usable <= (cycles - 1) % redetectEvery

Unused == phase = "start" => cycles = 0 /\ usable = 0

\* The text that is remembered is the one reported last.
LastIsLatest ==
    /\ \A msg \in Message : said[msg] <= dockerLoggedAt
    /\ dockerLastMsg # None =>
        /\ said[dockerLastMsg] = dockerLoggedAt
        /\ \A msg \in Message \ {dockerLastMsg} : said[msg] < dockerLoggedAt

IInv ==
    /\ Numbers
    /\ HostIsNamed
    /\ Missed
    /\ Unused
    /\ LastIsLatest
    /\ FailureIsHeard

LEMMA InitIInv == Init => IInv
<1> SUFFICES ASSUME Init PROVE IInv
  OBVIOUS
<1>0. /\ cycles = 0 /\ usable = 0 /\ now \in Nat /\ dockerLoggedAt = 0
      /\ dockerLastMsg = None /\ failing = None
      /\ said = [msg \in Message |-> 0]
  BY WatchAssumption DEF Init
<1>1. Numbers
  BY <1>0 DEF Numbers
<1>2. HostIsNamed /\ Missed /\ Unused
  BY DEF Init, HostIsNamed, Missed, Unused
<1>3. LastIsLatest /\ FailureIsHeard
  BY <1>0 DEF LastIsLatest, FailureIsHeard
<1>4. QED
  BY <1>1, <1>2, <1>3 DEF IInv

\* The steps that end the process change nothing but how it ends.
LEMMA ExitKeeps ==
    ASSUME IInv, NEW status, Exits(status), UNCHANGED <<mode, host, paths, watched>>
    PROVE  IInv'
<1>1. phase' = "exit"
  BY DEF Exits
<1>2. QED
  BY <1>1 DEF IInv, Numbers, HostIsNamed, Missed, Unused, LastIsLatest, FailureIsHeard, watched

LEMMA StartsKeeps ==
    ASSUME IInv, NEW in \in Inputs, Starts(in)
    PROVE  IInv'
<1> USE DEF IInv
<1>1. /\ phase = "start" /\ phase' # "start"
      /\ host' = Hostname(in)
      /\ dockerErr' = (mode' # "off" /\ docker' = NoClient)
      /\ UNCHANGED <<cycles, now, dockerLastMsg, dockerLoggedAt, failing, said, usable>>
  <2>1. phase = "start" /\ host' = Hostname(in) /\ mode' = Parse(in).Docker
    BY DEF Starts, Parse
  <2>2. phase' # "start"
    <3>1. phase' \in {"exit", "loop", in["command"]}
      BY DEF Starts, Exits
    <3>2. in["command"] # "start"
      BY WatchAssumption
    <3>3. QED
      BY <3>1, <3>2
  <2>3. QED
    BY <2>1, <2>2 DEF Starts
<1>2. Numbers' /\ LastIsLatest' /\ FailureIsHeard'
  BY <1>1 DEF Numbers, LastIsLatest, FailureIsHeard
<1>3. HostIsNamed'
  BY <1>1, HostnameIsAName DEF HostIsNamed
<1>4. Missed' /\ Unused'
  <2>1. cycles' = 0 /\ usable' = 0 /\ redetectEvery \in Nat \ {0}
    BY <1>1, WatchAssumption DEF Unused
  <2>2. mode' # "off" /\ docker' = NoClient => dockerErr'
    BY <1>1
  <2>3. QED
    BY <1>1, <2>1, <2>2 DEF Missed, Unused
<1>5. QED
  BY <1>2, <1>3, <1>4

\* A cycle without a socket is one that found none, or one without an attempt.
LEMMA CycleMisses ==
    ASSUME IInv, NEW gap \in Gaps, NEW client, NEW msg \in Message \union {None},
           Cycle(gap, client, msg)
    PROVE  Missed'
<1> USE DEF IInv
<1> SUFFICES ASSUME mode # "off", docker' = NoClient
             PROVE  /\ dockerErr'
                    /\ cycles' <= redetectEvery => usable' <= cycles'
                    /\ cycles' > redetectEvery => usable' <= (cycles' - 1) % redetectEvery
  BY DEF Missed, Cycle
<1>1. phase = "loop" /\ cycles \in Nat /\ cycles' = cycles + 1 /\ redetectEvery \in Nat \ {0}
  BY WatchAssumption DEF Cycle, Numbers
<1>2. docker = NoClient /\ dockerErr' = dockerErr
  BY DEF Cycle, redetectDocker, Retries
<1>3. /\ dockerErr
      /\ cycles <= redetectEvery => usable <= cycles
      /\ cycles > redetectEvery => usable <= (cycles - 1) % redetectEvery
  BY <1>1, <1>2 DEF Missed
<1>4. usable \in Nat /\ usable' \in {0, usable + 1}
  BY DEF Cycle, Numbers
<1>5. cycles % redetectEvery \in Nat /\ (cycles' - 1) % redetectEvery = cycles % redetectEvery
  BY <1>1, RemainderInRange
<1>6. CASE usable' = 0
  BY <1>1, <1>2, <1>3, <1>5, <1>6
<1>7. CASE usable' = usable + 1
  <2>1. CASE cycles = 0
    BY <1>1, <1>2, <1>3, <1>4, <1>7, <2>1
  <2>2. CASE cycles # 0
    <3>1. cycles % redetectEvery # 0
      <4>1. client # NoClient
        BY <1>7, <1>4 DEF Cycle
      <4>2. ~Retries
        BY <4>1 DEF Cycle, redetectDocker
      <4>3. QED
        BY <1>2, <1>3, <2>2, <4>2 DEF Retries
    <3>2. cycles # redetectEvery
      BY <1>1, <3>1
    <3>3. cycles % redetectEvery = ((cycles - 1) % redetectEvery) + 1
      BY <1>1, <2>2, <3>1, RemainderCounts, cycles > 0
    <3>4. cycles' <= redetectEvery => cycles <= redetectEvery
      BY <1>1
    <3>5. cycles' > redetectEvery => cycles > redetectEvery
      BY <1>1, <3>2
    <3>6. (cycles - 1) % redetectEvery \in Nat
      BY <1>1, <2>2, RemainderInRange, cycles - 1 \in Nat
    <3>7. QED
      BY <1>1, <1>2, <1>3, <1>4, <1>5, <1>7, <3>3, <3>4, <3>5, <3>6
  <2>3. QED
    BY <2>1, <2>2
<1>8. QED
  BY <1>4, <1>6, <1>7

LEMMA CycleReports ==
    ASSUME IInv, NEW gap \in Gaps, NEW client, NEW msg \in Message \union {None},
           Cycle(gap, client, msg)
    PROVE  Numbers' /\ LastIsLatest' /\ FailureIsHeard'
<1> USE DEF IInv
<1> DEFINE last == Remembered(client)
<1>1. /\ now' \in Nat /\ now' > now
      /\ cycles' \in Nat /\ usable' \in Nat /\ failing' = msg
      /\ Report(msg, last, now')
  <2>1. gap \in Nat /\ gap > 0 /\ now \in Nat /\ now' = now + gap
    BY Periods DEF Cycle, Numbers
  <2>2. cycles \in Nat /\ cycles' = cycles + 1 /\ usable' \in {0, usable + 1} /\ usable \in Nat
    BY DEF Cycle, Numbers
  <2>3. failing' = msg /\ Report(msg, last, now')
    BY DEF Cycle
  <2>4. QED
    BY <2>1, <2>2, <2>3
<1>2. last \in {None, dockerLastMsg}
  BY DEF Remembered
<1>3. None \notin Message /\ dockerLogEvery \in Nat \ {0}
  BY WatchAssumption
<1>4. \A m \in Message : said[m] \in Nat /\ said[m] <= dockerLoggedAt
  BY DEF Numbers, LastIsLatest
<1> HIDE DEF last
<1>5. CASE msg = None \/ Quiet(msg, last, now')
  <2>1. dockerLastMsg' = last /\ dockerLoggedAt' = dockerLoggedAt /\ said' = said
    BY <1>1, <1>5 DEF Report
  <2>2. Numbers'
    BY <1>1, <1>2, <2>1 DEF Numbers
  <2>3. LastIsLatest'
    BY <1>2, <2>1 DEF LastIsLatest
  <2>4. FailureIsHeard'
    <3>1. CASE msg = None
      BY <1>1, <3>1 DEF FailureIsHeard
    <3>2. CASE msg # None
      <4>1. msg = dockerLastMsg /\ now' - dockerLoggedAt < dockerLogEvery
        BY <1>2, <1>5, <3>2 DEF Quiet
      <4>2. /\ said[msg] = dockerLoggedAt
            /\ \A m \in Message \ {msg} : said[m] < dockerLoggedAt
        BY <3>2, <4>1 DEF LastIsLatest
      <4>3. QED
        BY <1>1, <2>1, <4>1, <4>2 DEF FailureIsHeard
    <3>3. QED
      BY <3>1, <3>2
  <2>5. QED
    BY <2>2, <2>3, <2>4
<1>6. CASE ~(msg = None \/ Quiet(msg, last, now'))
  <2>1. /\ msg \in Message /\ dockerLastMsg' = msg /\ dockerLoggedAt' = now'
        /\ said' = [said EXCEPT ![msg] = now']
    BY <1>1, <1>6 DEF Report
  <2>2. said' \in [Message -> Nat] /\ said'[msg] = now'
    BY <1>1, <2>1 DEF Numbers
  <2>3. \A m \in Message \ {msg} : said'[m] = said[m] /\ said'[m] < now'
    BY <1>1, <1>4, <2>1 DEF Numbers
  <2>4. Numbers'
    BY <1>1, <2>1, <2>2 DEF Numbers
  <2>5. LastIsLatest'
    BY <1>1, <2>1, <2>2, <2>3 DEF LastIsLatest
  <2>6. FailureIsHeard'
    <3>1. \A t \in Nat : t - t < dockerLogEvery
      BY Periods
    <3>2. failing' = msg /\ now' - said'[msg] < dockerLogEvery
      BY <1>1, <2>2, <3>1
    <3>3. QED
      BY <2>2, <2>3, <3>2 DEF FailureIsHeard
  <2>7. QED
    BY <2>4, <2>5, <2>6
<1>7. QED
  BY <1>5, <1>6

LEMMA CycleKeeps ==
    ASSUME IInv, NEW gap \in Gaps, NEW client, NEW msg \in Message \union {None},
           Cycle(gap, client, msg)
    PROVE  IInv'
<1>1. phase = "loop" /\ UNCHANGED <<phase, mode, host>>
  BY DEF Cycle
<1>2. HostIsNamed' /\ Unused'
  BY <1>1 DEF IInv, HostIsNamed, Unused
<1>3. QED
  BY <1>2, CycleMisses, CycleReports DEF IInv

LEMMA NextKeeps == IInv /\ [Next]_vars => IInv'
<1> SUFFICES ASSUME IInv, [Next]_vars PROVE IInv'
  OBVIOUS
<1>1. ASSUME NEW in \in Inputs, Run(in) PROVE IInv'
  <2>1. CASE ParsesOnly(in)
    BY <2>1, ExitKeeps DEF ParsesOnly
  <2>2. CASE ~ParsesOnly(in)
    BY <1>1, <2>2, StartsKeeps DEF Run
  <2>3. QED
    BY <2>1, <2>2
<1>2. CASE Interrupted
  BY <1>2, ExitKeeps DEF Interrupted
<1>3. CASE Once
  BY <1>3, ExitKeeps DEF Once
<1>4. ASSUME NEW failed \in BOOLEAN, SelfCheck(failed) PROVE IInv'
  BY <1>4, ExitKeeps DEF SelfCheck
<1>5. ASSUME NEW gap \in Gaps, NEW client \in Clients(paths),
             NEW msg \in Message \union {None}, Cycle(gap, client, msg)
      PROVE  IInv'
  BY <1>5, CycleKeeps
<1>6. CASE UNCHANGED vars
  BY <1>6 DEF vars, watched, IInv, Numbers, HostIsNamed, Missed, Unused, LastIsLatest, FailureIsHeard
<1>7. QED
  BY <1>1, <1>2, <1>3, <1>4, <1>5, <1>6 DEF Next

LEMMA Invariance == Spec => []IInv
BY InitIInv, NextKeeps, PTL DEF Spec

-----------------------------------------------------------------------------

\* Whatever the settings and the system say, the points carry a name.
THEOREM HostNamed == Spec => []HostIsNamed
BY Invariance, PTL DEF IInv

\* Every failure of the last cycle is in the log, not older than the quiet time and
\* not hidden by a later one.
THEOREM FailureHeard == Spec => []FailureIsHeard
BY Invariance, PTL DEF IInv

\* A socket that would answer is opened within redetectEvery cycles.
THEOREM SocketFound == Spec => []SocketIsFound
<1>1. IInv => SocketIsFound
  <2> SUFFICES ASSUME IInv, phase = "loop", mode # "off", docker = NoClient
               PROVE  usable <= redetectEvery
    BY DEF SocketIsFound
  <2>1. cycles \in Nat /\ usable \in Nat /\ redetectEvery \in Nat \ {0}
    BY WatchAssumption DEF IInv, Numbers
  <2>2. /\ cycles <= redetectEvery => usable <= cycles
        /\ cycles > redetectEvery => usable <= (cycles - 1) % redetectEvery
    BY DEF IInv, Missed
  <2>3. CASE cycles <= redetectEvery
    BY <2>1, <2>2, <2>3
  <2>4. CASE cycles > redetectEvery
    <3>1. (cycles - 1) % redetectEvery \in 0 .. redetectEvery - 1
      BY <2>1, <2>4, RemainderInRange, cycles - 1 \in Nat
    <3>2. QED
      BY <2>1, <2>2, <2>4, <3>1
  <2>5. QED
    BY <2>1, <2>3, <2>4
<1>2. QED
  BY <1>1, Invariance, PTL

-----------------------------------------------------------------------------
(* What the other modules assume of the settings *)

\* Whatever flags and variables the settings come from, what Parse accepts is what
\* the rest of the agent builds on: a period of inspections that is no zero, a
\* ticker that can tick, one of the three modes, and a name (config.go 56-132).
THEOREM SettingsFit ==
    ASSUME NEW in, ParseResult(in) = "settings"
    PROVE  /\ Parse(in).InspectEvery \in Nat \ {0}
           /\ Parse(in).Interval \in Nat /\ Parse(in).Interval >= 1000
           /\ Parse(in).Docker \in {"auto", "on", "off"}
           /\ Parse(in).Hostname # ""
<1>1. ~Refused(in)
  BY DEF ParseResult
<1>2. InspectEvery(in) \in Nat \ {0}
  <2>1. InspectEvery(in) \in Nat
    BY DEF InspectEvery, Atoi, NoNumber
  <2>2. QED
    BY <1>1, <2>1 DEF Refused
<1>3. Interval(in) \in Nat /\ Interval(in) >= 1000
  <2>1. Interval(in) \in Nat
    BY DEF Interval, Duration, NoNumber
  <2>2. QED
    BY <1>1, <2>1 DEF Refused
<1>4. (CHOOSE m \in DOMAIN DockerMode : DockerText(in) \in DockerMode[m]) \in DOMAIN DockerMode
  BY <1>1 DEF Refused
<1>5. DOMAIN DockerMode = {"auto", "on", "off"}
  BY DEF DockerMode
<1>6. Hostname(in) # ""
  BY HostnameIsAName
<1>7. QED
  BY <1>2, <1>3, <1>4, <1>5, <1>6 DEF Parse

\* A client the agent holds has slots for at least one call, as DockerClient.tla
\* assumes, and there is none where containers are switched off.
ClientFits == docker # NoClient => mode # "off" /\ docker.batch \in Nat \ {0}

LEMMA DetectedFits ==
    ASSUME NEW tried, NEW client \in Clients(tried), client # NoClient
    PROVE  client.batch \in Nat \ {0}
<1>1. PICK found \in [Path -> Found] : client = Detect(tried, found)
  BY DEF Clients
<1> DEFINE answering == {i \in DOMAIN tried : found[tried[i]] \in Answering}
           path == tried[Min(answering)]
<1>2. client = probe(path, found[path])
  BY <1>1 DEF Detect
<1>3. ASSUME NEW p, NEW f PROVE probe(p, f).batch \in {1, 5}
  BY DEF probe
<1>4. client.batch \in {1, 5}
  <2> HIDE DEF path
  <2>1. QED
    BY <1>2, <1>3
<1>5. QED
  BY <1>4

LEMMA NextKeepsClient == ClientFits /\ [Next]_vars => ClientFits'
<1> SUFFICES ASSUME ClientFits, [Next]_vars PROVE ClientFits'
  OBVIOUS
<1>1. ASSUME NEW in \in Inputs, Starts(in) PROVE ClientFits'
  <2>1. mode' = Parse(in).Docker
        /\ docker' \in IF mode' = "off" THEN {NoClient} ELSE Clients(paths')
    BY <1>1 DEF Starts
  <2>2. QED
    BY <2>1, DetectedFits DEF ClientFits
<1>2. ASSUME NEW gap \in Gaps, NEW client \in Clients(paths),
             NEW msg \in Message \union {None}, Cycle(gap, client, msg)
      PROVE  ClientFits'
  <2>1. mode' = mode /\ (docker' = docker \/ (docker' = client /\ mode # "off"))
    BY <1>2 DEF Cycle, redetectDocker, Retries
  <2>2. QED
    BY <2>1, DetectedFits DEF ClientFits
<1>3. CASE UNCHANGED <<mode, docker>>
  BY <1>3 DEF ClientFits
<1>4. QED
  BY <1>1, <1>2, <1>3 DEF Next, Run, ParsesOnly, Interrupted, Once, SelfCheck, watched, vars

\* However the socket is found, at the start or later: startDocker, redetectDocker
\* and probe.
THEOREM ClientAlwaysFits == Spec => []ClientFits
<1>1. Init => ClientFits
  BY DEF Init, ClientFits
<1>2. QED
  BY <1>1, NextKeepsClient, PTL DEF Spec
=============================================================================
