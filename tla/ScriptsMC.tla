----------------------------- MODULE ScriptsMC ------------------------------
(* The jobs of one script name that are model-checked.                     *)
EXTENDS Scripts
CONSTANTS j1, j2

One(action, watched, out, mute) == [action |-> action, watched |-> watched, out |-> out, mute |-> mute]
\* Two jobs, one of them a restart, that write nothing; one job of one line,
\* followed by a browser that may be too slow; and one whose leaders may close
\* their output and run on.
MCSetups ==
  {[j \in {j1, j2} |-> One(IF j = j1 THEN "restart" ELSE "up", FALSE, 0, FALSE)],
   [j \in {j1, j2} |-> IF j = j1 THEN One("up", TRUE, 1, FALSE) ELSE One("none", FALSE, 0, FALSE)],
   [j \in {j1, j2} |-> IF j = j1 THEN One("up", FALSE, 0, TRUE) ELSE One("none", FALSE, 0, FALSE)]}
=============================================================================
