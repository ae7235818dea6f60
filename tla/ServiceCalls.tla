---------------------------- MODULE ServiceCalls ----------------------------
(***************************************************************************)
(* What stands between the threads of the drive and the service: the       *)
(* control of requests, which the FUSE thread passes (FloodControl), and   *)
(* the access token that every query of every thread asks for (Tokens),    *)
(* over one clock and the life of one process, which may be killed at any  *)
(* time and started again.                                                 *)
(***************************************************************************)
EXTENDS FloodControl, Tokens

CONSTANT Fuse  \* the caller that is the FUSE thread

ASSUME FuseAssumption == Fuse \in Callers

vars == <<floodVars, tokenVars>>

Init == FloodInit /\ TokensInit

(* The FUSE thread passes the control between its own queries. *)
PassControl ==
  /\ process = "up"
  /\ call[Fuse].pc = "idle"
  /\ FloodStep
  /\ UNCHANGED tokenVars

Query(c) ==
  /\ \/ (c = Fuse => flood.pc = "read") /\ Begin(c)
     \/ CallStep(c)
  /\ UNCHANGED floodVars

Tick == FloodTick /\ TokensTick

(* main from its start to `degoo.API()`, and its end. *)
Process ==
  \/ (Start \/ StartConfig \/ FinishConfig) /\ UNCHANGED floodVars
  \/ Kill /\ FloodReset

Next == PassControl \/ (\E c \in Callers : Query(c)) \/ Tick \/ Process

Spec == Init /\ [][Next]_vars
-----------------------------------------------------------------------------
(* Every variable has its type. *)
TypeOK == FloodTypeOK /\ TokensTypeOK
=============================================================================
