------------------------------ MODULE ShopMutex ------------------------------
(* What the per-shop bulk lock promises to its callers, without Redis, leases *)
(* or timers: one processor at a time is inside the section of the            *)
(* orchestrator that decides about a shop's bulk run, and a processor that    *)
(* has left it, or has given up, does not come back (every acquisition draws  *)
(* a token of its own, so a processor is one acquisition).                    *)
CONSTANT Jobs            \* processors that may ask for the shop's lock

VARIABLES inside,        \* processors between "lock granted" and their finally
          gone           \* processors that have left, or gave up outside

mvars == <<inside, gone>>

MInit == inside = {} /\ gone = {}

Enter(j) ==
    /\ inside = {}
    /\ j \notin gone
    /\ inside' = {j}
    /\ gone' = gone

Leave(j) ==
    /\ j \in inside
    /\ inside' = inside \ {j}
    /\ gone' = gone \cup {j}

GiveUp(j) ==
    /\ j \notin inside \cup gone
    /\ inside' = inside
    /\ gone' = gone \cup {j}

MNext == \E j \in Jobs : Enter(j) \/ Leave(j) \/ GiveUp(j)

MSpec == MInit /\ [][MNext]_mvars
=============================================================================
