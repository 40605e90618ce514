---------------------------- MODULE BoundedPipe ----------------------------
(***************************************************************************)
(* What flow control promises about one direction of one stream: a byte    *)
(* pipe that never holds more than Capacity bytes.  Only the positions of  *)
(* the two ends matter: how many bytes the sender has let go of and how    *)
(* many the reader has taken.  LinkFlow implements it twice, once per      *)
(* direction, with WINDOW as the capacity.                                 *)
(***************************************************************************)
EXTENDS Naturals

CONSTANT Capacity

VARIABLES put,  \* bytes that have entered the pipe
          got   \* bytes that have left it

pvars == <<put, got>>

PipeInit == put = 0 /\ got = 0

Put == /\ put' \in Nat
       /\ put' > put
       /\ put' - got <= Capacity
       /\ UNCHANGED got

Get == /\ got' \in Nat
       /\ got' > got
       /\ got' <= put
       /\ UNCHANGED put

PipeSpec == PipeInit /\ [][Put \/ Get]_pvars
=============================================================================
