----------------------------- MODULE AtomicFile -----------------------------
(***************************************************************************)
(* What the node promises of one file of a model root: whoever reads it    *)
(* finds no file or a published one, and nothing of it changes but as a    *)
(* whole.  `kept` is what a loss of power falls back to at worst.          *)
(***************************************************************************)
CONSTANTS
  Published,    \* the contents that may get the name
  Absent        \* what is read where there is no file

VARIABLES
  now,    \* what the name leads to
  kept,   \* what it leads to on the disk
  acked   \* it has been reported as written, and not deleted since

avars == <<now, kept, acked>>

AtomicInit == now = Absent /\ kept = Absent /\ acked = FALSE

Publish ==
  /\ now' \in Published
  /\ UNCHANGED <<kept, acked>>
Confirm == kept' = now /\ acked' = (now # Absent) /\ UNCHANGED now
Remove == now' = Absent /\ acked' = FALSE /\ UNCHANGED kept
PowerFails == now' \in {now, kept} /\ kept' = now' /\ UNCHANGED acked

AtomicNext == Publish \/ Confirm \/ Remove \/ PowerFails
AtomicSpec == AtomicInit /\ [][AtomicNext]_avars
=============================================================================
