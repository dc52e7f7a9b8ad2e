----------------------------- MODULE UsageLedger -----------------------------
(***************************************************************************)
(* What traffic reporting promises, without connections, panels, messages   *)
(* or user lists: usage is metered per item, delivered to the panel at      *)
(* least once, and written off only when it has been delivered.             *)
(***************************************************************************)
EXTENDS Integers

CONSTANT Items  \* the things metered: one per user and inbound, over time

VARIABLES
    used,       \* bytes metered
    delivered,  \* bytes the panel has received, duplicates included
    writtenOff  \* bytes that will never be sent again

vars == <<used, delivered, writtenOff>>

Zero == [i \in Items |-> 0]

Init == used = Zero /\ delivered = Zero /\ writtenOff = Zero

Use ==
    /\ \E i \in Items : used' = [used EXCEPT ![i] = @ + 1]
    /\ UNCHANGED <<delivered, writtenOff>>

\* One message: for some items, at most what is metered and not written off.
Deliver ==
    /\ delivered' = [i \in Items |-> delivered'[i]]
    /\ \A i \in Items :
          delivered'[i] \in delivered[i] .. delivered[i] + (used[i] - writtenOff[i])
    /\ UNCHANGED <<used, writtenOff>>

\* Write-offs only grow, and never run ahead of metering or of delivery.
WriteOff ==
    /\ writtenOff' = [i \in Items |-> writtenOff'[i]]
    /\ \A i \in Items : writtenOff'[i] # writtenOff[i] =>
          /\ writtenOff[i] < writtenOff'[i]
          /\ writtenOff'[i] <= used[i]
          /\ writtenOff'[i] <= delivered[i]
    /\ UNCHANGED <<used, delivered>>

Next == Use \/ Deliver \/ WriteOff

Spec == Init /\ [][Next]_vars
=============================================================================
