------------------------------ MODULE Delivery ------------------------------
(***************************************************************************)
(* What a send promises the handler that makes it: the message is in the   *)
(* chat at most once, and the call returns one verdict.  "ok" means the    *)
(* message is there; "blocked" that it is not; "failed" may mean either,   *)
(* since an answer of Telegram can be lost on the way back.                *)
(***************************************************************************)
CONSTANT Calls      \* one for each message a handler sends

VARIABLES
    copies,         \* how many times the message is in the chat
    verdict         \* what the call has returned, "none" until it has

vars == <<copies, verdict>>

Verdicts == {"ok", "blocked", "failed"}

Init ==
    /\ copies = [c \in Calls |-> 0]
    /\ verdict = [c \in Calls |-> "none"]

(* The call returns, and with it at most one message arrives.  A call that *)
(* has not returned has put nothing into the chat: only a rate limit, on   *)
(* which Telegram drops the message, is worth another attempt.             *)
Return(c, v) ==
    /\ verdict[c] = "none"
    /\ verdict' = [verdict EXCEPT ![c] = v]
    /\ \E n \in {0, 1} :
           /\ v = "ok" => n = 1
           /\ v = "blocked" => n = 0
           /\ copies' = [copies EXCEPT ![c] = n]

Next == \E c \in Calls, v \in Verdicts : Return(c, v)

Spec == Init /\ [][Next]_vars

=============================================================================
