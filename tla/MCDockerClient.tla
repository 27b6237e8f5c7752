--------------------------- MODULE MCDockerClient ---------------------------
(***************************************************************************)
(* Values for TLC: two containers of the same age with different slots,    *)
(* one of which may start twice, or one container alone.                   *)
(***************************************************************************)
EXTENDS DockerClient

CONSTANTS a, b

MCContainer == {a}
MCContainers == {a, b}
MCCreated == [c \in Container |-> 1]
MCSlot == [c \in Container |-> IF c = a THEN 0 ELSE 1]
MCRuns == [c \in Container |-> IF c = a THEN 2 ELSE 1]
=============================================================================
