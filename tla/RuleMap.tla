------------------------------- MODULE RuleMap -------------------------------
(***************************************************************************)
(* What the rule store promises the rule engine, without table, tasks or   *)
(* locks: readers see the newest edit of every rule; flash follows behind, *)
(* never past it and never backwards; a restart falls back to flash.       *)
(* Edits are numbered; a deletion is an edit.                              *)
(***************************************************************************)
EXTENDS Naturals

CONSTANTS Rule, MaxEdits

VARIABLES latest,   \* the edit readers see
          flash,    \* the edit a restart falls back to
          boots     \* restarts so far: nothing else takes an edit back

Init == latest = [r \in Rule |-> 0] /\ flash = [r \in Rule |-> 0] /\ boots = 0

Edit(r) ==
    \E v \in 1..MaxEdits :
       /\ v > latest[r]
       /\ latest' = [latest EXCEPT ![r] = v]
       /\ flash' \in {flash, [flash EXCEPT ![r] = v]}
       /\ UNCHANGED boots

Persist(r) ==
    /\ \E v \in flash[r]..latest[r] : flash' = [flash EXCEPT ![r] = v]
    /\ UNCHANGED <<latest, boots>>

Restart == boots' = boots + 1 /\ latest' = flash /\ UNCHANGED flash

Next == Restart \/ \E r \in Rule : Edit(r) \/ Persist(r)

Spec == Init /\ [][Next]_<<latest, flash, boots>>
=============================================================================
