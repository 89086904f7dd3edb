----------------------------- MODULE DirListing -----------------------------
(***************************************************************************)
(* What a listing of a changing directory promises, whatever its handler   *)
(* does: a name is handed out at most once between open and close, only    *)
(* while it is there is it picked, and the end of the directory is not     *)
(* reported before every name that has been there all along was handed     *)
(* out.  Names come and go at any time; a listing may stop and go on.      *)
(***************************************************************************)
CONSTANTS Names, Readers

VARIABLES
    present,    \* the names in the directory
    stage,      \* of each listing: "closed", "open", "ended"
    shown,      \* what it has handed out
    due,        \* the names there since it was opened
    picked      \* the name it is about to hand out: at most one

vars == <<present, stage, shown, due, picked>>

Init ==
    /\ present \subseteq Names
    /\ stage = [r \in Readers |-> "closed"]
    /\ shown = [r \in Readers |-> {}]
    /\ due = [r \in Readers |-> {}]
    /\ picked = [r \in Readers |-> {}]

Appear(n) ==
    /\ n \notin present
    /\ present' = present \cup {n}
    /\ UNCHANGED <<stage, shown, due, picked>>

\* A name that leaves is owed to nobody any more, should it come back or not.
Vanish(n) ==
    /\ n \in present
    /\ present' = present \ {n}
    /\ due' = [r \in Readers |-> due[r] \ {n}]
    /\ UNCHANGED <<stage, shown, picked>>

Open(r) ==
    /\ stage[r] = "closed"
    /\ stage' = [stage EXCEPT ![r] = "open"]
    /\ shown' = [shown EXCEPT ![r] = {}]
    /\ due' = [due EXCEPT ![r] = present]
    /\ UNCHANGED <<present, picked>>

Close(r) ==
    /\ stage[r] # "closed" /\ picked[r] = {}
    /\ stage' = [stage EXCEPT ![r] = "closed"]
    /\ shown' = [shown EXCEPT ![r] = {}]
    /\ due' = [due EXCEPT ![r] = {}]
    /\ UNCHANGED <<present, picked>>

Pick(r, n) ==
    /\ stage[r] = "open" /\ picked[r] = {}
    /\ n \in present \ shown[r]
    /\ picked' = [picked EXCEPT ![r] = {n}]
    /\ UNCHANGED <<present, stage, shown, due>>

\* The name goes to the user, though it may have left the directory by now.
Show(r) ==
    /\ picked[r] # {}
    /\ shown' = [shown EXCEPT ![r] = @ \cup picked[r]]
    /\ picked' = [picked EXCEPT ![r] = {}]
    /\ UNCHANGED <<present, stage, due>>

\* There is no room for it; it will be looked for again.
Drop(r) ==
    /\ picked[r] # {}
    /\ picked' = [picked EXCEPT ![r] = {}]
    /\ UNCHANGED <<present, stage, shown, due>>

End(r) ==
    /\ stage[r] = "open" /\ picked[r] = {}
    /\ due[r] \subseteq shown[r]
    /\ stage' = [stage EXCEPT ![r] = "ended"]
    /\ UNCHANGED <<present, shown, due, picked>>

Next ==
    \/ \E n \in Names : Appear(n) \/ Vanish(n)
    \/ \E r \in Readers :
         Open(r) \/ Close(r) \/ Show(r) \/ Drop(r) \/ End(r) \/ \E n \in Names : Pick(r, n)

Spec == Init /\ [][Next]_vars

=============================================================================
