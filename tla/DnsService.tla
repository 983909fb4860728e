----------------------------- MODULE DnsService -----------------------------
(***************************************************************************)
(* What the UDP DNS server promises its clients, with no buffer, goroutine *)
(* or deadline in sight: each datagram that reaches it is answered at most *)
(* once, to whoever sent it and with the answer to what it asked.          *)
(***************************************************************************)
EXTENDS Naturals

CONSTANT Exchange       \* a client and what it asks
VARIABLES asked, answered   \* [Exchange -> Nat]

vars == <<asked, answered>>

Init == asked = [x \in Exchange |-> 0] /\ answered = [x \in Exchange |-> 0]

Ask(x) == asked' = [asked EXCEPT ![x] = @ + 1] /\ UNCHANGED answered

Answer(x) ==
    /\ answered[x] < asked[x]
    /\ answered' = [answered EXCEPT ![x] = @ + 1]
    /\ UNCHANGED asked

Next == \E x \in Exchange : Ask(x) \/ Answer(x)

Spec == Init /\ [][Next]_vars
=============================================================================
