-------------------------- MODULE SessionLifecycle --------------------------
(***************************************************************************)
(* What the service promises about display numbers, without threads, bus   *)
(* methods or timers: each number is used once and in order, at most one   *)
(* session is being started at a time, the pool never exceeds its          *)
(* capacity, a session that left the pool never comes back, and its        *)
(* removal is announced only after it has left.                            *)
(***************************************************************************)
EXTENDS Naturals, FiniteSets

CONSTANTS MaxDisplay, PoolMax

VARIABLES
    stage,      \* the stage of each display number
    announced   \* display numbers whose removal has been announced

lifecycleVars == <<stage, announced>>

Numbers == 1..MaxDisplay
InStage(s) == {d \in Numbers : stage[d] = s}

LifecycleInit ==
    /\ stage = [d \in Numbers |-> "unused"]
    /\ announced = {}

\* the next number is taken; the session may fail at once
Begin(d) ==
    /\ stage[d] = "unused"
    /\ \A n \in Numbers : n < d => stage[n] # "unused"
    /\ InStage("starting") = {}
    /\ stage' \in {[stage EXCEPT ![d] = s] : s \in {"starting", "over"}}
    /\ UNCHANGED announced

\* the session has started and enters the pool
Admit(d) ==
    /\ stage[d] = "starting"
    /\ Cardinality(InStage("pooled")) < PoolMax
    /\ stage' = [stage EXCEPT ![d] = "pooled"]
    /\ UNCHANGED announced

\* the session did not start, or it leaves the pool
Leave(d) ==
    /\ stage[d] \in {"starting", "pooled"}
    /\ stage' = [stage EXCEPT ![d] = "over"]
    /\ UNCHANGED announced

Announce(d) ==
    /\ stage[d] = "over"
    /\ announced' = announced \union {d}
    /\ UNCHANGED stage

LifecycleNext == \E d \in Numbers : Begin(d) \/ Admit(d) \/ Leave(d) \/ Announce(d)

LifecycleSpec == LifecycleInit /\ [][LifecycleNext]_lifecycleVars
=============================================================================
