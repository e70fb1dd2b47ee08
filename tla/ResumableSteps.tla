---------------------------- MODULE ResumableSteps ----------------------------
(***************************************************************************)
(* What a resumable command promises (the header of src/launch.rs): its    *)
(* steps are begun in order, each only after all before it have completed, *)
(* no completed step is ever begun again, and a step that is abandoned     *)
(* half way stays to be done.                                              *)
(***************************************************************************)
EXTENDS Naturals, Sequences

CONSTANT Order        \* the steps, in the order they must happen

VARIABLES
  completed,          \* the steps that have completed
  running             \* index of the step under way, 0 when there is none

rvars == <<completed, running>>

RInit == completed = {} /\ running = 0

Begin(i) ==
  /\ running = 0
  /\ Order[i] \notin completed
  /\ \A j \in 1..(i - 1) : Order[j] \in completed
  /\ running' = i
  /\ UNCHANGED completed

Complete ==
  /\ running # 0
  /\ completed' = completed \cup {Order[running]}
  /\ running' = 0

Abandon ==
  /\ running # 0
  /\ running' = 0
  /\ UNCHANGED completed

RNext == \/ \E i \in DOMAIN Order : Begin(i)
         \/ Complete
         \/ Abandon

RSpec == RInit /\ [][RNext]_rvars
===============================================================================
