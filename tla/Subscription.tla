---------------------------- MODULE Subscription -----------------------------
(***************************************************************************)
(* What a Subscribe call promises its client, however it is implemented:   *)
(* it goes on for as long as the client holds its stream open, it is told  *)
(* to end only after the client has left, and it returns only when told.   *)
(* GpuWatch and EventMonitor implement this.                               *)
(***************************************************************************)
CONSTANT Clients

VARIABLES
    call,    \* client -> its Subscribe call
    gone     \* clients that left while their call went on

Calls == {"idle", "asked", "told", "returned", "refused"}

To(c, status) == call' = [call EXCEPT ![c] = status]

Ask(c)    == call[c] = "idle" /\ To(c, "asked") /\ UNCHANGED gone
Refuse(c) == call[c] \in {"idle", "asked"} /\ To(c, "refused") /\ gone' = gone \ {c}
Leave(c)  == call[c] \in {"asked", "told"} /\ gone' = gone \union {c} /\ UNCHANGED call
Tell(c)   == call[c] = "asked" /\ c \in gone /\ To(c, "told") /\ UNCHANGED gone
Return(c) == call[c] = "told" /\ To(c, "returned") /\ gone' = gone \ {c}

Init == call = [c \in Clients |-> "idle"] /\ gone = {}
Next == \E c \in Clients : Ask(c) \/ Refuse(c) \/ Leave(c) \/ Tell(c) \/ Return(c)
Spec == Init /\ [][Next]_<<call, gone>>
=============================================================================
