----------------------------- MODULE ProcessLife -----------------------------
(***************************************************************************)
(* What whoever started `tailscale-socks run' sees of the process: when it *)
(* can be asked to stop and how it ends (main.go:32-64, run.go:106-112).   *)
(***************************************************************************)
VARIABLES
    phase,      \* off, boot (signals still kill), main, exited
    asked,      \* BOOLEAN: SIGINT or SIGTERM was received in main
    status      \* none, zero, one, killed: how it ended

vars == <<phase, asked, status>>

Phase  == {"off", "boot", "main", "exited"}
Status == {"none", "zero", "one", "killed"}

Init == phase = "off" /\ asked = FALSE /\ status = "none"

Alive == phase \in {"boot", "main"}

Launch == ~Alive /\ phase' = "boot" /\ asked' = FALSE /\ status' = "none"

\* signal.NotifyContext is in place.
Ready == phase = "boot" /\ phase' = "main" /\ UNCHANGED <<asked, status>>

End(s) == phase' = "exited" /\ status' = s /\ UNCHANGED asked

\* A signal kills a process that is not ready for it, and asks one that is.
Signal ==
    \/ phase = "boot" /\ End("killed")
    \/ phase = "main" /\ asked' = TRUE /\ UNCHANGED <<phase, status>>

\* It ends by itself: as a success only if it was asked to, in boot never.
Exit(s) ==
    /\ Alive /\ s \in {"zero", "one"}
    /\ s = "zero" => phase = "main" /\ asked
    /\ End(s)

\* SIGKILL, or a crash of the process.
Kill == Alive /\ End("killed")

\* The place of a process that ended is free again.
Forget == phase = "exited" /\ phase' = "off" /\ asked' = FALSE /\ status' = "none"

Next == Launch \/ Ready \/ Signal \/ (\E s \in Status : Exit(s)) \/ Kill \/ Forget

Spec == Init /\ [][Next]_vars
=============================================================================
