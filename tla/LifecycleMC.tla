----------------------------- MODULE LifecycleMC -----------------------------
(* How often each caller calls.  Two callers may want the same host's lock; *)
(* with a fault anywhere they do so within one interval of the supervisor,  *)
(* or one of them calls and the supervisor's rounds go on beside it.        *)
EXTENDS Lifecycle

Once(callers) == [r \in Reqs |-> IF r \in callers THEN 1 ELSE 0]
First == {CHOOSE r \in Reqs : TRUE}

MCBoth == {[calls |-> Once(Reqs), watched |-> TRUE]}
MCFaults == {[calls |-> Once(First), watched |-> TRUE], [calls |-> Once(Reqs), watched |-> FALSE]}
=============================================================================
