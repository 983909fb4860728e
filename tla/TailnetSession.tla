--------------------------- MODULE TailnetSession ---------------------------
(***************************************************************************)
(* What the processes of tailscale-socks promise about the login they      *)
(* share, with no listener, goroutine, signal or error path in sight.      *)
(*                                                                         *)
(* Every process started for one host name uses the same state directory,  *)
(* hence one node key and one stored set of preferences.  A process is     *)
(* `out' of the tailnet, has `joined' it, or is `open' to the clients of   *)
(* its listeners.  The promise:                                            *)
(*   - a process joins only when no process that is in holds one of the    *)
(*     listeners it takes: the listeners are what keeps two runs apart;    *)
(*   - it takes all of its listeners before it joins, and gives none up    *)
(*     before it has opened;                                               *)
(*   - it starts with the preferences that were stored, and only a process *)
(*     that has listeners to serve ever stores others;                     *)
(*   - it opens to clients only under the preferences it was asked for.    *)
(***************************************************************************)
CONSTANTS
    Proc,       \* the processes that share the state directory
    Endpoint,   \* what a listener is bound to: a transport and an address
    Prefs,      \* the node preferences a command line can ask for
    NoPrefs     \* the preferences of a process that is out

VARIABLES
    state,      \* [Proc -> {"out", "joined", "open"}]
    claim,      \* [Proc -> SUBSET Endpoint]: the listeners a process that is in holds
    want,       \* [Proc -> Prefs \cup {NoPrefs}]: the preferences it was asked for
    live,       \* [Proc -> Prefs \cup {NoPrefs}]: the preferences its node runs with
    saved       \* the preferences stored in the state directory

vars == <<state, claim, want, live, saved>>

Init ==
    /\ state = [p \in Proc |-> "out"]
    /\ claim = [p \in Proc |-> {}]
    /\ want  = [p \in Proc |-> NoPrefs]
    /\ live  = [p \in Proc |-> NoPrefs]
    /\ saved \in Prefs

Join(p) ==
    /\ state[p] = "out"
    /\ state' = [state EXCEPT ![p] = "joined"]
    /\ live'  = [live EXCEPT ![p] = saved]
    /\ UNCHANGED saved
    /\ \E endpoints \in SUBSET Endpoint, prefs \in Prefs :
          /\ \A q \in Proc : state[q] # "out" => claim[q] \cap endpoints = {}
          /\ claim' = [claim EXCEPT ![p] = endpoints]
          /\ want'  = [want EXCEPT ![p] = prefs]

StorePrefs(p) ==
    /\ state[p] = "joined"
    /\ claim[p] # {}
    /\ live'  = [live EXCEPT ![p] = want[p]]
    /\ saved' = want[p]
    /\ UNCHANGED <<state, claim, want>>

Open(p) ==
    /\ state[p] = "joined"
    /\ claim[p] # {}
    /\ live[p] = want[p]
    /\ state' = [state EXCEPT ![p] = "open"]
    /\ UNCHANGED <<claim, want, live, saved>>

\* Listeners that can serve no more are given up, for others to take.
Yield(p) ==
    /\ state[p] = "open"
    /\ \E kept \in SUBSET claim[p] : claim' = [claim EXCEPT ![p] = kept]
    /\ UNCHANGED <<state, want, live, saved>>

Leave(p) ==
    /\ state[p] # "out"
    /\ state' = [state EXCEPT ![p] = "out"]
    /\ claim' = [claim EXCEPT ![p] = {}]
    /\ want'  = [want EXCEPT ![p] = NoPrefs]
    /\ live'  = [live EXCEPT ![p] = NoPrefs]
    /\ UNCHANGED saved

Next ==
    \E p \in Proc : Join(p) \/ StorePrefs(p) \/ Open(p) \/ Yield(p) \/ Leave(p)

Spec == Init /\ [][Next]_vars
=============================================================================
