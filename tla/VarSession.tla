----------------------------- MODULE VarSession -----------------------------
(***************************************************************************)
(* What the guest additions promise about the variables of a command: they *)
(* belong to a session, which is open while the command runs; a variable   *)
(* is set at one moment, in an open session, and stays as it is until it   *)
(* is set again or the next session begins.                                *)
(***************************************************************************)
CONSTANTS Names, Values, NoValue

VARIABLES
    open,   \* a command is running
    value,  \* the value of each variable, or NoValue
    spread  \* the variables that are to reach all machines

sessionVars == <<open, value, spread>>

NoVars == [x \in Names |-> NoValue]

Init == open = FALSE /\ value = NoVars /\ spread = {}

Open == /\ ~open /\ open' = TRUE
        /\ value' \in [Names -> Values \cup {NoValue}]
        /\ spread' = {}

Set(x, v, global) ==
    /\ open
    /\ value' = [value EXCEPT ![x] = v]
    /\ spread' = IF global THEN spread \cup {x} ELSE spread
    /\ UNCHANGED open

Close == open /\ open' = FALSE /\ UNCHANGED <<value, spread>>

\* The service or the whole guest starts anew.
Forget == open' = FALSE /\ value' = NoVars /\ spread' = {}

Next ==
    \/ Open \/ Close \/ Forget
    \/ \E x \in Names, v \in Values, global \in BOOLEAN : Set(x, v, global)

Spec == Init /\ [][Next]_sessionVars

=============================================================================
