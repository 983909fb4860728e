----------------------------- MODULE Lifecycle -----------------------------
(***************************************************************************)
(* The life of tailscale-socks processes: main.go, `run' (run.go),         *)
(* `status' (status.go) and tsnode.Start / Close (node.go), for several    *)
(* processes that share a state directory and compete for sockets.         *)
(*                                                                         *)
(* Each process has a main goroutine, whose place in the code is `pc', and *)
(* up to four server goroutines that report their error on the channel     *)
(* errc.  A signal, a crash, a socket somebody else holds and a failure of *)
(* any call can happen at any time.                                        *)
(***************************************************************************)
EXTENDS Naturals, FiniteSets

CONSTANTS
    Proc,         \* processes started with the same host name
    Addr,         \* listen addresses; two of them never overlap
    NoAddr,       \* an empty flag: that listener is disabled
    Prefs,        \* the node preferences the flags can ask for
    NoPrefs,      \* stands for "no node, hence no preferences"
    AcceptDNS,    \* the preferences that keep the tailnet DNS config (no --no-accept-dns)
    Config,       \* the settings a command can be started with
    MaxLaunches   \* bound: processes started in a behaviour

Listener == {"socks5", "http", "dnsudp", "dnstcp"}

\* What `run' registers with defer, in the order it registers it.
Resource == Listener \cup {"node"}
Rank == [r \in Resource |->
            CASE r = "socks5" -> 1 [] r = "http"   -> 2 [] r = "dnsudp" -> 3
              [] r = "dnstcp" -> 4 [] r = "node"   -> 5]

Endpoint == {"tcp", "udp"} \X Addr

Settings == [socks5 : Addr \cup {NoAddr}, http : Addr \cup {NoAddr},
             dns : Addr \cup {NoAddr}, prefs : Prefs]

ASSUME LifecycleAssumption ==
    /\ NoAddr \notin Addr
    /\ NoPrefs \notin Prefs
    /\ AcceptDNS \subseteq Prefs
    /\ Config \subseteq Settings
    /\ Config # {}
    /\ MaxLaunches \in Nat

VARIABLES
    launches,     \* how many processes were started so far
    cmd,          \* [Proc -> {"run", "status"}]
    conf,         \* [Proc -> Config]: the flags after .env and the environment
    pc,           \* [Proc -> PC]: where the main goroutine is
    signalled,    \* [Proc -> BOOLEAN]: ctx of signal.NotifyContext is cancelled
    defers,       \* [Proc -> SUBSET Resource]: registered with defer, not yet run
    node,         \* [Proc -> NodeState]: the tsnet server of the process
    hasDNS,       \* [Proc -> BOOLEAN]: Start found the DNS manager
    live,         \* [Proc -> Prefs \cup {NoPrefs}]: preferences the node runs with
    saved,        \* preferences stored in the state directory, shared by all
    srv,          \* [Proc -> [Listener -> ServerState]]: the server goroutines
    errc,         \* [Proc -> Nat]: errors in the channel errc
    result,       \* [Proc -> Result]: what the command's Run returned
    exit          \* [Proc -> Exit]: how the process ended

procVars == <<cmd, conf>>
nodeVars == <<node, hasDNS, live, saved>>
srvVars  == <<srv, errc>>
vars == <<launches, cmd, conf, pc, signalled, defers, node, hasDNS, live, saved,
          srv, errc, result, exit>>

\* "build" .. "abort" are inside tsnode.Start; "unwind" runs the deferred calls.
PC == {"off", "boot", "check", "bind", "build", "join", "attach", "prefs", "abort",
       "hasdns", "describe", "serve", "select", "unwind", "exited"}

\* none: tsnet has no subsystems yet (Sys() is nil).  built: it has, and is
\* connecting with the stored login.  nilpanic: Close dereferenced a nil Sys.
\* dropped: the process ended without closing it.
NodeState   == {"none", "built", "up", "closed", "dropped", "nilpanic"}
ServerState == {"off", "serving", "sending", "done"}
Result      == {"none", "nil", "canceled", "error"}
Exit        == {"none", "zero", "one", "killed"}

\* Mutant: room for all servers but one.
ErrcCapShort == 3
ErrcCap == 4
----------------------------------------------------------------------------
Running(p)  == pc[p] \notin {"off", "exited"}
NodeLive(p) == node[p] \in {"built", "up"}

Address(c, k) == CASE k = "socks5" -> c.socks5
                   [] k = "http"   -> c.http
                   [] OTHER        -> c.dns
EndpointOf(c, k) == <<IF k = "dnsudp" THEN "udp" ELSE "tcp", Address(c, k)>>

Enabled(c) == {k \in Listener : Address(c, k) # NoAddr}
Endpoints(c) == {EndpointOf(c, k) : k \in Enabled(c)}

\* Servers that close the listener they were given when their Serve returns, and so
\* before their error is sent; the DNS servers leave that to the deferred call.
ClosesItself == {"socks5", "http"}
GaveUp(p) == {k \in ClosesItself : srv[p][k] \in {"sending", "done"}}

\* A socket is closed by its deferred call, if its server has not done so before.
OpenSockets(p) == (defers[p] \cap Listener) \ GaveUp(p)

Free(e) == \A q \in Proc : \A k \in OpenSockets(q) : EndpointOf(conf[q], k) # e

\* The next listener in the order of run.go: nothing before it is still missing.
IsNextToBind(p, k) ==
    /\ k \in Enabled(conf[p]) \ defers[p]
    /\ \A j \in Enabled(conf[p]) \ defers[p] : Rank[k] <= Rank[j]

\* Mutant: the sockets are closed before the node.
IsNextDeferredFifo(p, r) ==
    /\ r \in defers[p]
    /\ \A s \in defers[p] : Rank[r] <= Rank[s]

\* Deferred calls run last registered, first run.
IsNextDeferred(p, r) ==
    /\ r \in defers[p]
    /\ \A s \in defers[p] : Rank[s] <= Rank[r]

\* tsnet.Server.Close dereferences the subsystems without looking.
TsClose(n) == IF n = "none" THEN "nilpanic" ELSE "closed"
\* Mutant: Start closes the server whatever it has built.
CloseAlways(n) == TsClose(n)
CloseStarted(n) == IF n # "none" THEN TsClose(n) ELSE n

Goto(p, l) == pc' = [pc EXCEPT ![p] = l]

\* The command returns r: its deferred calls run next.
Return(p, r) == Goto(p, "unwind") /\ result' = [result EXCEPT ![p] = r]

\* Start is about to return r: it calls closeStarted first.
Fail(p, r) == Goto(p, "abort") /\ result' = [result EXCEPT ![p] = r]
----------------------------------------------------------------------------
TypeOK ==
    /\ launches \in 0 .. MaxLaunches
    /\ cmd \in [Proc -> {"run", "status"}]
    /\ conf \in [Proc -> Config]
    /\ pc \in [Proc -> PC]
    /\ signalled \in [Proc -> BOOLEAN]
    /\ defers \in [Proc -> SUBSET Resource]
    /\ node \in [Proc -> NodeState]
    /\ hasDNS \in [Proc -> BOOLEAN]
    /\ live \in [Proc -> Prefs \cup {NoPrefs}]
    /\ saved \in Prefs
    /\ srv \in [Proc -> [Listener -> ServerState]]
    /\ errc \in [Proc -> 0 .. ErrcCap]
    /\ result \in [Proc -> Result]
    /\ exit \in [Proc -> Exit]

Init ==
    /\ launches = 0
    /\ cmd = [p \in Proc |-> "run"]
    /\ conf \in [Proc -> {CHOOSE c \in Config : TRUE}]
    /\ pc = [p \in Proc |-> "off"]
    /\ signalled = [p \in Proc |-> FALSE]
    /\ defers = [p \in Proc |-> {}]
    /\ node = [p \in Proc |-> "none"]
    /\ hasDNS = [p \in Proc |-> FALSE]
    /\ live = [p \in Proc |-> NoPrefs]
    /\ saved \in Prefs
    /\ srv = [p \in Proc |-> [k \in Listener |-> "off"]]
    /\ errc = [p \in Proc |-> 0]
    /\ result = [p \in Proc |-> "none"]
    /\ exit = [p \in Proc |-> "none"]
----------------------------------------------------------------------------
(* Process start: a user or a service manager runs the command.            *)
Launch(p, command, c) ==
    /\ ~Running(p)
    /\ launches < MaxLaunches
    /\ launches' = launches + 1
    /\ cmd' = [cmd EXCEPT ![p] = command]
    /\ conf' = [conf EXCEPT ![p] = c]
    /\ Goto(p, "boot")
    /\ signalled' = [signalled EXCEPT ![p] = FALSE]
    /\ node' = [node EXCEPT ![p] = "none"]
    /\ result' = [result EXCEPT ![p] = "none"]
    /\ exit' = [exit EXCEPT ![p] = "none"]
    /\ UNCHANGED <<defers, hasDNS, live, saved, srvVars>>

(* The end of the process takes its goroutines, sockets and node with it.  *)
End(p, e) ==
    /\ Goto(p, "exited")
    /\ exit' = [exit EXCEPT ![p] = e]
    /\ defers' = [defers EXCEPT ![p] = {}]
    /\ node' = [node EXCEPT ![p] = IF NodeLive(p) THEN "dropped" ELSE @]
    /\ hasDNS' = [hasDNS EXCEPT ![p] = FALSE]
    /\ live' = [live EXCEPT ![p] = NoPrefs]
    /\ srv' = [srv EXCEPT ![p] = [k \in Listener |-> "off"]]
    /\ errc' = [errc EXCEPT ![p] = 0]
    /\ UNCHANGED <<launches, procVars, signalled, saved, result>>

(* main up to signal.NotifyContext: settings are read and parsed.          *)
Boot(p) ==
    /\ pc[p] = "boot"
    /\ Goto(p, IF cmd[p] = "run" THEN "check" ELSE "build")
    /\ UNCHANGED <<launches, procVars, signalled, defers, nodeVars, srvVars, result, exit>>

(* kong.Parse ends the program when a flag or a variable does not parse.    *)
ParseFails(p) == pc[p] = "boot" /\ End(p, "one")

\* Mutant: DNS is accepted without the tailnet's DNS config.
RefusedOnlyEmpty(c) == Enabled(c) = {}

(* The two refusals before anything is bound.                              *)
Refused(c) ==
    \/ Enabled(c) = {}
    \/ c.dns # NoAddr /\ c.prefs \notin AcceptDNS

Check(p) ==
    /\ pc[p] = "check"
    /\ IF Refused(conf[p])
         THEN Return(p, "error")
         ELSE Goto(p, "bind") /\ UNCHANGED result
    /\ UNCHANGED <<launches, procVars, signalled, defers, nodeVars, srvVars, exit>>

(* net.Listen / net.ListenPacket of the next listener.                     *)
Bind(p, k) ==
    /\ pc[p] = "bind"
    /\ IsNextToBind(p, k)
    /\ Free(EndpointOf(conf[p], k))
    /\ defers' = [defers EXCEPT ![p] = @ \cup {k}]
    /\ UNCHANGED <<launches, procVars, pc, signalled, nodeVars, srvVars, result, exit>>

(* The socket is taken, here or by a program outside the model, or the     *)
(* address is not one of this machine or not one this user may bind.       *)
BindFails(p) ==
    /\ pc[p] = "bind"
    /\ ~(Enabled(conf[p]) \subseteq defers[p])
    /\ Return(p, "error")
    /\ UNCHANGED <<launches, procVars, signalled, defers, nodeVars, srvVars, exit>>

\* Mutant: one socket is enough to join.
AllBoundEarly(p) ==
    /\ pc[p] = "bind"
    /\ defers[p] # {}
    /\ Goto(p, "build")
    /\ UNCHANGED <<launches, procVars, signalled, defers, nodeVars, srvVars, result, exit>>

AllBound(p) ==
    /\ pc[p] = "bind"
    /\ Enabled(conf[p]) \subseteq defers[p]
    /\ Goto(p, "build")
    /\ UNCHANGED <<launches, procVars, signalled, defers, nodeVars, srvVars, result, exit>>
----------------------------------------------------------------------------
(* tsnode.Start.  ts.Up first builds the subsystems of tsnet and loads the *)
(* stored preferences.                                                     *)
Build(p) ==
    /\ pc[p] = "build"
    /\ node' = [node EXCEPT ![p] = "built"]
    /\ live' = [live EXCEPT ![p] = saved]
    /\ Goto(p, "join")
    /\ UNCHANGED <<launches, procVars, signalled, defers, hasDNS, saved, srvVars, result, exit>>

(* No state directory, or tsnet gave up before it built its subsystems.    *)
BuildFails(p) ==
    /\ pc[p] = "build"
    /\ Fail(p, "error")
    /\ UNCHANGED <<launches, procVars, signalled, defers, nodeVars, srvVars, exit>>

(* ts.Up then waits until the node runs, for as long as a login takes.     *)
JoinUp(p) ==
    /\ pc[p] = "join"
    /\ node' = [node EXCEPT ![p] = "up"]
    /\ Goto(p, "attach")
    /\ UNCHANGED <<launches, procVars, signalled, defers, hasDNS, live, saved, srvVars,
                   result, exit>>

JoinFails(p) ==
    /\ pc[p] = "join"
    /\ Fail(p, "error")
    /\ UNCHANGED <<launches, procVars, signalled, defers, nodeVars, srvVars, exit>>

\* Mutant: Up does not watch the context.
JoinIgnoresSignal(p) ==
    /\ pc[p] = "join"
    /\ FALSE
    /\ UNCHANGED vars

JoinCanceled(p) ==
    /\ pc[p] = "join"
    /\ signalled[p]
    /\ Fail(p, "canceled")
    /\ UNCHANGED <<launches, procVars, signalled, defers, nodeVars, srvVars, exit>>

(* LocalClient and the DNS manager.  With no preferences to apply, Start   *)
(* returns the node and its caller defers node.Close.                      *)
Attach(p) ==
    /\ pc[p] = "attach"
    /\ \/ /\ \E found \in BOOLEAN : hasDNS' = [hasDNS EXCEPT ![p] = found]
          /\ IF cmd[p] = "run"
               THEN Goto(p, "prefs") /\ UNCHANGED defers
               ELSE Goto(p, "describe") /\ defers' = [defers EXCEPT ![p] = @ \cup {"node"}]
          /\ UNCHANGED result
       \/ Fail(p, "error") /\ UNCHANGED <<hasDNS, defers>>
    /\ UNCHANGED <<launches, procVars, signalled, node, live, saved, srvVars, exit>>

\* Mutant: a field that is not masked in keeps its last value in the node.
StorePrefsUnmasked(p) ==
    /\ saved' = conf[p].prefs
    /\ UNCHANGED live

StorePrefs(p) ==
    /\ live' = [live EXCEPT ![p] = conf[p].prefs]
    /\ saved' = conf[p].prefs

(* applyPrefs: every field this program owns is masked in, so the node     *)
(* runs with what this command line asked for, and that is stored.         *)
ApplyPrefs(p) ==
    /\ pc[p] = "prefs"
    /\ StorePrefs(p)
    /\ defers' = [defers EXCEPT ![p] = @ \cup {"node"}]
    /\ Goto(p, "hasdns")
    /\ UNCHANGED <<launches, procVars, signalled, node, hasDNS, srvVars, result, exit>>

(* An unknown exit node stores nothing.  A request that failed or was      *)
(* cancelled may have been carried out before its answer was lost.         *)
ApplyPrefsFails(p) ==
    /\ pc[p] = "prefs"
    /\ Fail(p, "error") \/ (signalled[p] /\ Fail(p, "canceled"))
    /\ StorePrefs(p) \/ UNCHANGED <<live, saved>>
    /\ UNCHANGED <<launches, procVars, signalled, defers, node, hasDNS, srvVars, exit>>

(* closeStarted on the way out of a Start that failed.                     *)
Abort(p) ==
    /\ pc[p] = "abort"
    /\ node' = [node EXCEPT ![p] = CloseStarted(@)]
    /\ live' = [live EXCEPT ![p] = NoPrefs]
    /\ Goto(p, "unwind")
    /\ UNCHANGED <<launches, procVars, signalled, defers, hasDNS, saved, srvVars, result, exit>>
----------------------------------------------------------------------------
(* Back in `run': a DNS listener needs the tailnet's DNS manager.          *)
HasDNS(p) ==
    /\ pc[p] = "hasdns"
    /\ IF conf[p].dns # NoAddr /\ ~hasDNS[p]
         THEN Return(p, "error")
         ELSE Goto(p, "describe") /\ UNCHANGED result
    /\ UNCHANGED <<launches, procVars, signalled, defers, nodeVars, srvVars, exit>>

(* node.Describe: `run' only logs an error, `status' returns it.           *)
Describe(p) ==
    /\ pc[p] = "describe"
    /\ \/ cmd[p] = "run" /\ Goto(p, "serve") /\ UNCHANGED result
       \/ cmd[p] = "status" /\ \E r \in {"nil", "error"} : Return(p, r)
       \/ cmd[p] = "status" /\ signalled[p] /\ Return(p, "canceled")
    /\ UNCHANGED <<launches, procVars, signalled, defers, nodeVars, srvVars, exit>>

(* One goroutine per listener.                                             *)
Serve(p) ==
    /\ pc[p] = "serve"
    /\ srv' = [srv EXCEPT ![p] =
                 [k \in Listener |-> IF k \in Enabled(conf[p]) THEN "serving" ELSE "off"]]
    /\ Goto(p, "select")
    /\ UNCHANGED <<launches, procVars, signalled, defers, nodeVars, errc, result, exit>>

(* select: a signal ends the run without error ...                         *)
SelectDone(p) ==
    /\ pc[p] = "select"
    /\ signalled[p]
    /\ Return(p, "nil")
    /\ UNCHANGED <<launches, procVars, signalled, defers, nodeVars, srvVars, exit>>

\* Mutant: the error of a server is taken for the end of a normal run.
SelectErrClean(p) ==
    /\ pc[p] = "select"
    /\ errc[p] > 0
    /\ errc' = [errc EXCEPT ![p] = @ - 1]
    /\ Return(p, "nil")
    /\ UNCHANGED <<launches, procVars, signalled, defers, nodeVars, srv, exit>>

\* Mutant: the error is read and the run goes on with the other servers.
SelectErrGoesOn(p) ==
    /\ pc[p] = "select"
    /\ errc[p] > 0
    /\ errc' = [errc EXCEPT ![p] = @ - 1]
    /\ UNCHANGED <<launches, procVars, pc, signalled, defers, nodeVars, srv, result, exit>>

\* Mutant: the channel is read without an error in it.
SelectErrEmpty(p) ==
    /\ pc[p] = "select"
    /\ errc' = [errc EXCEPT ![p] = @ - 1]
    /\ Return(p, "error")
    /\ UNCHANGED <<launches, procVars, signalled, defers, nodeVars, srv, exit>>

(* ... and the first error of a server ends it with that error.  When both *)
(* are ready, Go picks either.                                             *)
SelectErr(p) ==
    /\ pc[p] = "select"
    /\ errc[p] > 0
    /\ errc' = [errc EXCEPT ![p] = @ - 1]
    /\ Return(p, "error")
    /\ UNCHANGED <<launches, procVars, signalled, defers, nodeVars, srv, exit>>

(* Accept or ReadFrom fails, by an error of its own or because the         *)
(* deferred call closed the socket, and Serve returns.  The SOCKS5 and the *)
(* HTTP server have closed their listener by then (GaveUp): somebody else  *)
(* may bind it while the node is still up.                                 *)
ServerFails(p, k) ==
    /\ srv[p][k] = "serving"
    /\ srv' = [srv EXCEPT ![p][k] = "sending"]
    /\ UNCHANGED <<launches, procVars, pc, signalled, defers, nodeVars, errc, result, exit>>

ServerSends(p, k) ==
    /\ srv[p][k] = "sending"
    /\ errc[p] < ErrcCap
    /\ srv' = [srv EXCEPT ![p][k] = "done"]
    /\ errc' = [errc EXCEPT ![p] = @ + 1]
    /\ UNCHANGED <<launches, procVars, pc, signalled, defers, nodeVars, result, exit>>
----------------------------------------------------------------------------
(* One deferred call: node.Close leaves the tailnet, the others close a    *)
(* socket.                                                                 *)
Unwind(p, r) ==
    /\ pc[p] = "unwind"
    /\ IsNextDeferred(p, r)
    /\ defers' = [defers EXCEPT ![p] = @ \ {r}]
    /\ IF r = "node"
         THEN /\ node' = [node EXCEPT ![p] = TsClose(@)]
              /\ live' = [live EXCEPT ![p] = NoPrefs]
         ELSE UNCHANGED <<node, live>>
    /\ UNCHANGED <<launches, procVars, pc, signalled, hasDNS, saved, srvVars, result, exit>>

\* Mutant: main forgets os.Exit(1).
ExitStatusForgotten(r) == "zero"

(* main: only an error other than a cancelled context is a failure.        *)
ExitStatus(r) == IF r \in {"nil", "canceled"} THEN "zero" ELSE "one"

ExitProcess(p) ==
    /\ pc[p] = "unwind"
    /\ defers[p] = {}
    /\ End(p, ExitStatus(result[p]))

(* SIGINT or SIGTERM: before NotifyContext the default action ends the     *)
(* process, afterwards it cancels ctx, and a second one changes nothing.   *)
Signal(p) ==
    /\ Running(p)
    /\ IF pc[p] = "boot"
         THEN End(p, "killed")
         ELSE /\ ~signalled[p]
              /\ signalled' = [signalled EXCEPT ![p] = TRUE]
              /\ UNCHANGED <<launches, procVars, pc, defers, nodeVars, srvVars, result, exit>>

(* SIGKILL, or a crash of the process.                                     *)
Crash(p) == Running(p) /\ End(p, "killed")
----------------------------------------------------------------------------
\* The steps of the main goroutine that wait for nobody outside the machine.
MainStep(p) ==
    \/ Boot(p) \/ ParseFails(p) \/ Check(p) \/ BindFails(p) \/ AllBound(p) \/ Build(p) \/ BuildFails(p)
    \/ \E k \in Listener : Bind(p, k)
    \/ JoinCanceled(p) \/ Attach(p) \/ ApplyPrefs(p) \/ ApplyPrefsFails(p) \/ Abort(p)
    \/ HasDNS(p) \/ Describe(p) \/ Serve(p) \/ SelectDone(p) \/ SelectErr(p)
    \/ \E r \in Resource : Unwind(p, r)
    \/ ExitProcess(p)

Join(p) == JoinUp(p) \/ JoinFails(p)

ServerStep(p) == \E k \in Listener : ServerFails(p, k) \/ ServerSends(p, k)

Environment(p) ==
    \/ \E command \in {"run", "status"}, c \in Config : Launch(p, command, c)
    \/ Signal(p) \/ Crash(p)

Next == \E p \in Proc : MainStep(p) \/ Join(p) \/ ServerStep(p) \/ Environment(p)

Spec == Init /\ [][Next]_vars

\* The main goroutine runs, tsnet's Close and local API calls return, and a
\* server whose error is ready sends it.  Nothing says that a login completes,
\* that a socket fails or that anybody sends a signal.
Fairness ==
    \A p \in Proc :
        /\ WF_vars(MainStep(p))
        /\ \A k \in Listener : WF_vars(ServerSends(p, k))

FairSpec == Spec /\ Fairness
----------------------------------------------------------------------------
(***************************************************************************)
(* What must hold.                                                         *)
(***************************************************************************)

\* The endpoints whose server failed and has closed them.
GivenUp(p) == {EndpointOf(conf[p], k) : k \in GaveUp(p)}

\* The run is over, or about to be: main has an error to read, or will have.
Leaving(p) ==
    \/ pc[p] = "unwind"
    \/ pc[p] = "select" /\ (errc[p] > 0 \/ \E k \in Listener : srv[p][k] = "sending")

\* One login cannot back two nodes (docs/service.md:53), and what keeps two runs
\* apart is that the second one fails on the bind (run.go:30-63).  Two runs that
\* want a common listener are on the tailnet together only when the SOCKS5 or
\* HTTP server of the one has failed on that very listener and closed it
\* (run.go:87-98), and then only while that run is on its way out: node.Close
\* comes after the listener is free again.  A signal, an error of Start or of a
\* DNS server, and every other ending leave no such gap.
OneLogin ==
    \A p, q \in Proc :
        /\ p # q
        /\ cmd[p] = "run" /\ cmd[q] = "run"
        /\ NodeLive(p) /\ NodeLive(q)
        => \A e \in Endpoints(conf[p]) \cap Endpoints(conf[q]) :
              \/ e \in GivenUp(p) /\ Leaving(p)
              \/ e \in GivenUp(q) /\ Leaving(q)

\* "Bind every listener before joining the tailnet" (run.go:30-32): while a run is
\* on the tailnet, from the first moment of tsnode.Start to the last of
\* node.Close, it holds every socket it was asked for, but those whose server has
\* failed and closed them; and with one of these gone the run is on its way out.
HoldsListenersWhileJoined ==
    \A p \in Proc :
        cmd[p] = "run" /\ NodeLive(p) =>
            \A k \in Enabled(conf[p]) \ OpenSockets(p) : k \in GaveUp(p) /\ Leaving(p)

\* Nothing is served over a node that is not ready for it: as long as a server
\* goroutine exists and the node is on the tailnet, the node runs with the
\* preferences of this command line, and a DNS server has a resolver to ask
\* that follows the tailnet's configuration (run.go:26-28, 75-77; node.go:141).
ServedAsAsked ==
    \A p \in Proc, k \in Listener :
        srv[p][k] # "off" /\ NodeLive(p) =>
            /\ node[p] = "up"
            /\ live[p] = conf[p].prefs
            /\ k \in {"dnsudp", "dnstcp"} => hasDNS[p] /\ live[p] \in AcceptDNS

\* A run exits 0 only if a signal asked for it (run.go:106-112, main.go:57-63):
\* whatever else ends it is a failure the service manager restarts.
CleanExitWasAsked ==
    \A p \in Proc : cmd[p] = "run" /\ exit[p] = "zero" => signalled[p]

\* "none of them blocks on the send" (run.go:84-86): a server with an error to
\* report finds room in errc, also after the first error has been read and also
\* when nobody reads any.
NoServerBlocked ==
    \A p \in Proc, k \in Listener : srv[p][k] = "sending" => errc[p] < ErrcCap

\* "The caller must Close the returned Node" (node.go:97), and closeStarted
\* closes what Start does not return (node.go:154-158): a process that ends by
\* itself has closed its node, and never one whose subsystems did not exist.
LeavesTailnet ==
    \A p \in Proc : exit[p] \in {"zero", "one"} => node[p] \in {"none", "closed"}

(***************************************************************************)
(* The inductive invariant behind OneLogin, ServedAsAsked, LeavesTailnet   *)
(* and CleanExitWasAsked: what each place of the main goroutine implies.   *)
(***************************************************************************)
BeforeNode == {"off", "boot", "check", "bind", "build"}
AfterStart == {"hasdns", "describe", "serve", "select"}
InStart    == {"build", "join", "attach", "prefs", "abort"}

\* Two processes never hold the same socket.
SocketsExclusive ==
    \A p, q \in Proc : p # q =>
        \A k \in OpenSockets(p), j \in OpenSockets(q) :
            EndpointOf(conf[p], k) # EndpointOf(conf[q], j)

\* Where a node is live, and that Run owns it exactly while its Close is deferred.
NodePlace(p) ==
    /\ pc[p] \in BeforeNode => node[p] = "none"
    /\ pc[p] = "join" => node[p] = "built"
    /\ pc[p] \in {"attach", "prefs"} => node[p] = "up"
    /\ pc[p] = "abort" => node[p] \in {"none", "built", "up"}
    /\ pc[p] \in AfterStart => node[p] = "up" /\ "node" \in defers[p]
    /\ pc[p] = "unwind" => IF "node" \in defers[p] THEN node[p] = "up"
                                                   ELSE node[p] \in {"none", "closed"}
    /\ pc[p] = "exited" => ~NodeLive(p)
    /\ ~NodeLive(p) => live[p] = NoPrefs

\* Which calls are deferred: those of every listener before the node is built.
SocketPlace(p) ==
    /\ defers[p] \cap Listener \subseteq Enabled(conf[p])
    /\ pc[p] \in {"off", "boot", "check", "exited"} => defers[p] = {}
    /\ "node" \in defers[p] => pc[p] \in AfterStart \cup {"unwind"}
    /\ cmd[p] = "run" =>
         /\ pc[p] \in InStart \cup AfterStart => Enabled(conf[p]) \subseteq defers[p]
         /\ "node" \in defers[p] => Enabled(conf[p]) \subseteq defers[p]

\* Which preferences the node runs with, and what was checked on the way.
ServingPlace(p) ==
    /\ pc[p] \in {"check", "bind", "prefs", "hasdns", "serve", "select"} => cmd[p] = "run"
    /\ pc[p] \notin {"select", "unwind"} => \A k \in Listener : srv[p][k] = "off"
    /\ \A k \in Listener : srv[p][k] # "off" => cmd[p] = "run" /\ k \in Enabled(conf[p])
    /\ cmd[p] = "run" /\ pc[p] \notin {"off", "boot", "check", "unwind", "exited"} =>
         ~Refused(conf[p])
    /\ cmd[p] = "run" /\ pc[p] \in AfterStart => live[p] = conf[p].prefs
    /\ cmd[p] = "run" /\ pc[p] \in AfterStart \ {"hasdns"} /\ conf[p].dns # NoAddr => hasDNS[p]
    /\ pc[p] = "unwind" /\ "node" \in defers[p] =>
         \A k \in Listener : srv[p][k] # "off" =>
             /\ ~Refused(conf[p])
             /\ live[p] = conf[p].prefs
             /\ conf[p].dns # NoAddr => hasDNS[p]

\* What a result stands for.
ResultPlace(p) ==
    /\ pc[p] = "abort" => result[p] # "nil"
    /\ pc[p] \in {"abort", "unwind"} /\ cmd[p] = "run" /\ result[p] \in {"nil", "canceled"} =>
         signalled[p]
    /\ exit[p] # "none" => pc[p] = "exited"
    /\ exit[p] \in {"zero", "one"} => node[p] \in {"none", "closed"}
    /\ exit[p] = "zero" /\ cmd[p] = "run" => signalled[p]

\* While main waits, the errors that were sent are still in the channel.
ErrcPlace(p) ==
    pc[p] = "select" /\ (\E k \in Listener : srv[p][k] = "done") => errc[p] > 0

Place(p) ==
    /\ NodePlace(p)
    /\ SocketPlace(p)
    /\ ServingPlace(p)
    /\ ResultPlace(p)
    /\ ErrcPlace(p)

LifecycleInv == SocketsExclusive /\ \A p \in Proc : Place(p)

\* Behind NoServerBlocked: every error in the channel is that of another server.
Reported(p) == {k \in Listener : srv[p][k] = "done"}
ErrcCounts  == \A p \in Proc : errc[p] <= Cardinality(Reported(p))

\* The abstract promise about the shared login, under this mapping.
StateOf(p) == IF ~NodeLive(p) THEN "out"
              ELSE IF \E k \in Listener : srv[p][k] # "off" THEN "open" ELSE "joined"
Held(p)    == {EndpointOf(conf[p], k) : k \in OpenSockets(p)}
ClaimOf(p) == IF NodeLive(p) /\ cmd[p] = "run" THEN Held(p) ELSE {}
WantOf(p)  == IF NodeLive(p) THEN conf[p].prefs ELSE NoPrefs

Session == INSTANCE TailnetSession WITH
    state <- [p \in Proc |-> StateOf(p)],
    claim <- [p \in Proc |-> ClaimOf(p)],
    want  <- [p \in Proc |-> WantOf(p)]

\* The processes implement TailnetSession: who may join beside whom, which
\* preferences are stored by whom, when clients are let in, and that a listener is
\* given up early only by who was open (run.go, status.go:11-14, node.go).
RefinesSession == Session!Spec

\* What a service manager may expect of each process that serves, under this
\* mapping; a `status' is no process of a service.
ProcessOf(p) == INSTANCE ProcessLife WITH
    phase  <- IF cmd[p] # "run" THEN "off"
              ELSE IF pc[p] \in {"off", "boot", "exited"} THEN pc[p] ELSE "main",
    asked  <- cmd[p] = "run" /\ pc[p] # "off" /\ signalled[p],
    status <- IF cmd[p] = "run" THEN exit[p] ELSE "none"

\* Every `run' lives the life of ProcessLife (main.go:32-64, run.go): the contract
\* the restart policies of contrib/platform are written against.
RefinesProcess ==
    /\ \A p \in Proc : ProcessOf(p)!Init
    /\ [][\A p \in Proc : [ProcessOf(p)!Next]_(ProcessOf(p)!vars)]_vars

\* A signal ends the process wherever the main goroutine is, while it waits for
\* a login and while it serves (main.go:46, run.go:107): with every call of the
\* way out returning, nothing but exit can follow.
SignalEnds ==
    \A p \in Proc : signalled[p] /\ Running(p) ~> ~Running(p)

\* One server that fails takes the whole run down, instead of leaving a process
\* that serves only some of its listeners (run.go:84-112).
ServerErrorEnds ==
    \A p \in Proc, k \in Listener : srv[p][k] = "sending" ~> ~Running(p)
=============================================================================
