----------------------------- MODULE WorkSlots ------------------------------
(***************************************************************************)
(* What the task queue promises its callers, with no worker, lease, clock   *)
(* or retry in sight: a submitted work item is open until it is closed with *)
(* one result, which is final; an item submitted under a slot holds that    *)
(* slot alone from the submission to the moment it is closed, and not a     *)
(* moment longer; and every item is closed some day.                        *)
(***************************************************************************)
CONSTANTS Items, Slots, NoSlot, Results

VARIABLES state,   \* "absent", "open", or the result
          slot     \* the slot an open item holds

slotVars == <<state, slot>>

SlotInit ==
    /\ state = [x \in Items |-> "absent"]
    /\ slot = [x \in Items |-> NoSlot]

(* A submission is refused while its slot is held. *)
Submit(x, s) ==
    /\ state[x] = "absent"
    /\ s # NoSlot => \A y \in Items : slot[y] # s
    /\ state' = [state EXCEPT ![x] = "open"]
    /\ slot' = [slot EXCEPT ![x] = s]

Close(x, r) ==
    /\ state[x] = "open"
    /\ state' = [state EXCEPT ![x] = r]
    /\ slot' = [slot EXCEPT ![x] = NoSlot]

SlotNext == \E x \in Items : \/ \E s \in Slots \cup {NoSlot} : Submit(x, s)
                             \/ \E r \in Results : Close(x, r)

SafeSlots == SlotInit /\ [][SlotNext]_slotVars

(* Every open item is closed. *)
FairSlots == SafeSlots
             /\ \A x \in Items : WF_slotVars(\E r \in Results : Close(x, r))

=============================================================================
