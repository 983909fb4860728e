-------------------------------- MODULE Pipe --------------------------------
(***************************************************************************)
(* What one direction of a tunnel promises: the receiver gets what the     *)
(* sender wrote, in order, each item once, with nothing left out in        *)
(* between.  The pipe may stop delivering at any point.                    *)
(***************************************************************************)
EXTENDS Naturals, Sequences

CONSTANT Item
VARIABLES sent, got

vars == <<sent, got>>

Init == sent \in Seq(Item) /\ got = <<>>

Send(x) == sent' = Append(sent, x) /\ UNCHANGED got

Deliver ==
    /\ Len(got) < Len(sent)
    /\ got' = Append(got, sent[Len(got) + 1])
    /\ UNCHANGED sent

Next == Deliver \/ \E x \in Item : Send(x)

Spec == Init /\ [][Next]_vars
=============================================================================
