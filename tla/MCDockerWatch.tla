--------------------------- MODULE MCDockerWatch ---------------------------
(* The command lines and environments DockerWatch is checked with. *)
EXTENDS DockerWatch

Own == "/run/user/own.sock"
MCPath == {"/var/run/docker.sock", Own}
MCKnown == <<"/var/run/docker.sock">>

\* The usual way to start the agent, and what else each part may be.
Usual ==
    [key \in {"-url", "OBSERVANT_URL", "-token", "OBSERVANT_TOKEN", "-interval",
              "OBSERVANT_INTERVAL", "-hostname", "OBSERVANT_HOSTNAME", "hostname", "-role",
              "OBSERVANT_ROLE", "-docker", "OBSERVANT_DOCKER", "-socket", "OBSERVANT_SOCKET",
              "DOCKER_HOST", "XDG_RUNTIME_DIR", "-inspect-every", "OBSERVANT_INSPECT_EVERY",
              "argument", "command"} |->
       CASE key = "OBSERVANT_URL" -> "https://host/write"
         [] key = "OBSERVANT_TOKEN" -> "secret"
         [] key = "hostname" -> "box"
         [] key = "command" -> ""
         [] OTHER -> Unset]

Other(key) ==
    CASE key \in {"-url", "OBSERVANT_URL"} -> {"", "ftp://host", "https://host/write"}
      [] key \in {"-token", "OBSERVANT_TOKEN", "-role", "OBSERVANT_ROLE"} -> {""}
      [] key \in {"-interval", "OBSERVANT_INTERVAL"} -> {"15s", "500ms", "", Blank}
      [] key \in {"-hostname", "OBSERVANT_HOSTNAME"} -> {"web", "", Blank}
      [] key = "hostname" -> {"", Blank}
      [] key \in {"-docker", "OBSERVANT_DOCKER"} -> {" ON ", "off", "yes", "never", "", Blank}
      [] key \in {"-socket", "OBSERVANT_SOCKET", "DOCKER_HOST", "XDG_RUNTIME_DIR"} -> {Own}
      [] key = "-inspect-every" -> {"10", "0"}
      [] key = "OBSERVANT_INSPECT_EVERY" -> {"10", "0", "often", Blank}
      [] key = "argument" -> {"now"}
      [] key = "command" -> {"help", "version", "once", "selfcheck"}

\* All inputs that differ from the usual one in at most two parts.
MCInputs ==
    UNION {{[Usual EXCEPT ![k1] = v1, ![k2] = v2] : v1 \in Other(k1), v2 \in Other(k2)} :
              k1 \in DOMAIN Usual, k2 \in DOMAIN Usual}
=============================================================================
