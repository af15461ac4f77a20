------------------------------ MODULE Requests -------------------------------
(***************************************************************************)
(* What a thread is promised of each request it makes of another thread:   *)
(* it is told once how the request ended.  Ipc implements this.            *)
(***************************************************************************)
CONSTANTS Callers, Serials

VARIABLE promise    \* caller -> request -> "none", "sent" or how it ended

Ends == {"answered", "timed out", "wrong answer"}

Ask(c, s)     == promise[c][s] = "none" /\ promise' = [promise EXCEPT ![c][s] = "sent"]
Tell(c, s, e) == promise[c][s] = "sent" /\ promise' = [promise EXCEPT ![c][s] = e]

Init == promise = [c \in Callers |-> [s \in Serials |-> "none"]]
Next == \E c \in Callers, s \in Serials : Ask(c, s) \/ \E e \in Ends : Tell(c, s, e)
Spec == Init /\ [][Next]_promise
=============================================================================
