--------------------------- MODULE ConfigRegister ---------------------------
(***************************************************************************)
(* What the OpAMP agent promises of the collector's configuration: there   *)
(* is one configuration in force, it is one a collector starts with, it    *)
(* changes only in a switch, and outside a switch whatever is served is    *)
(* served with it.  A file system error in a switch voids the promise.     *)
(***************************************************************************)
CONSTANTS Configs, Startable, Initial, Nothing

VARIABLES
  value,      \* the configuration in force
  serves,     \* the configuration that is served, or Nothing
  switching,  \* a switch is under way
  intact      \* the file has not been damaged

vars == <<value, serves, switching, intact>>

Init == value = Initial /\ serves = Nothing /\ switching = FALSE /\ intact = TRUE

(* A start without a switch, and an end at any time. *)
Start == ~switching /\ serves' = value /\ UNCHANGED <<value, switching, intact>>
End   == serves' = Nothing /\ UNCHANGED <<value, switching, intact>>

BeginSwitch ==
  /\ ~switching /\ switching' = TRUE /\ serves' = Nothing
  /\ UNCHANGED <<value, intact>>

Adopt ==
  /\ switching /\ value' \in Startable
  /\ UNCHANGED <<serves, switching, intact>>

EndSwitch ==
  /\ switching /\ switching' = FALSE
  /\ serves' \in {value, Nothing}
  /\ UNCHANGED <<value, intact>>

Damage ==
  /\ switching
  /\ value' \in Configs
  /\ intact' = FALSE
  /\ UNCHANGED <<serves, switching>>

Damaged ==
  /\ ~intact /\ ~intact'
  /\ value' \in Configs /\ serves' \in Configs \cup {Nothing} /\ switching' \in BOOLEAN

Next == Start \/ End \/ BeginSwitch \/ Adopt \/ EndSwitch \/ Damage \/ Damaged

Spec == Init /\ [][Next]_vars
=============================================================================
