---------------------------- MODULE Level1Callers ----------------------------
(***************************************************************************)
(* The level-1 loops called on their own, with arrays of every length, by  *)
(* the streaming BLAS of the bench harness, and by the Jacobi SVD.         *)
(***************************************************************************)
EXTENDS StreamingBlas, JacobiSvd

callers == <<vars, blas, jacobi>>

CallersInit ==
  \/ Init /\ BlasOff /\ JacobiOff
  \/ BlasInit /\ JacobiOff
  \/ JacobiInit /\ BlasOff

Idle ==
  /\ pc = "done" /\ stage \in {"off", "returned"} /\ phase \in {"off", "returned"}
  /\ UNCHANGED callers

CallersNext ==
  \/ Step /\ UNCHANGED <<blas, jacobi>>
  \/ BlasNext /\ UNCHANGED jacobi
  \/ JacobiNext /\ UNCHANGED blas
  \/ Idle

CallersSpec == CallersInit /\ [][CallersNext]_callers
=============================================================================
