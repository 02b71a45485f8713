------------------------------- MODULE Ledger -------------------------------
(***************************************************************************)
(* What TrafficStore promises of a counter that "survives restarts": it    *)
(* grows while the process is up; a save, at any moment, brings the stored *)
(* value to something it has been since the last one; a crash loses what   *)
(* was not saved, and nothing else.  The promise has one exception: a      *)
(* process that cannot read the stored value starts at 0, and its first    *)
(* save may bring the stored value back to what it counted itself.         *)
(***************************************************************************)
EXTENDS Integers

VARIABLES
  total,  \* the counter in memory
  saved,  \* the counter on disk
  up,     \* is the process running?
  blank   \* did it start without the stored value, and has not saved since?

ledgerVars == <<total, saved, up, blank>>

Init == total = 0 /\ saved = 0 /\ up = TRUE /\ blank = FALSE

Count == up /\ total' = total + 1 /\ UNCHANGED <<saved, up, blank>>

Save ==
  /\ up
  /\ saved' \in (IF blank THEN 0 ELSE saved)..total
  /\ blank' = FALSE
  /\ UNCHANGED <<total, up>>

Crash == up /\ up' = FALSE /\ total' = 0 /\ blank' = FALSE /\ UNCHANGED saved

Start == ~up /\ up' = TRUE /\ total' = saved /\ blank' = FALSE /\ UNCHANGED saved

StartBlank == ~up /\ up' = TRUE /\ total' = 0 /\ blank' = TRUE /\ UNCHANGED saved

Next == Count \/ Save \/ Crash \/ Start \/ StartBlank

Spec == Init /\ [][Next]_ledgerVars
=============================================================================
