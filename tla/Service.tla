------------------------------- MODULE Service -------------------------------
(***************************************************************************)
(* The service functions of contrib/tailscale-socks.zsh over the three     *)
(* backends of contrib/platform: what a user asks for, the calls a backend *)
(* makes, the manager that restarts what failed, and the process, which is *)
(* ProcessLife.  launchd, systemd and the Task Scheduler are modelled from *)
(* the properties the backends write into plist, unit and task.            *)
(***************************************************************************)
EXTENDS Naturals, Sequences

CONSTANTS
    Backends,     \* the platforms looked at: subset of Backend
    MaxCommands,  \* bound: commands and logins
    MaxFailures   \* bound: processes that fail by themselves

Backend == {"launchd", "systemd", "task"}
Command == {"install", "up", "down", "restart", "uninstall"}

ASSUME ServiceAssumption ==
    /\ Backends \subseteq Backend /\ Backends # {}
    /\ MaxCommands \in Nat /\ MaxFailures \in Nat

VARIABLES
    backend,    \* $OSTYPE picks one
    written,    \* plist, unit or task exists: _ts_installed
    loaded,     \* launchd has the service, systemd starts it at login
    job,        \* idle, due (to be started), active, stopping, leaving, lost
    todo,       \* calls to the manager the command has yet to make
    last,       \* the command they belong to
    goal,       \* what the last command asked for, once it returned 0: none, up, down
    phase, asked, status,   \* the process, see ProcessLife
    commands, failures

Node == INSTANCE ProcessLife

userVars == <<todo, last, goal, commands>>
nodeVars == <<phase, asked, status>>
fileVars == <<backend, written, loaded>>
vars == <<fileVars, job, userVars, nodeVars, failures>>

Job  == {"idle", "due", "active", "stopping", "leaving", "lost"}
Call == {"write", "enable", "bootout", "bootstrap", "start", "term", "stop", "wait", "end",
         "killname", "remove"}

TypeOK ==
    /\ backend \in Backends /\ written \in BOOLEAN /\ loaded \in BOOLEAN
    /\ job \in Job /\ todo \in Seq(Call) /\ last \in Command
    /\ goal \in {"none", "up", "down"}
    /\ phase \in Node!Phase /\ asked \in BOOLEAN /\ status \in Node!Status
    /\ commands \in 0 .. MaxCommands /\ failures \in 0 .. MaxFailures

Init ==
    /\ backend \in Backends /\ written = FALSE /\ loaded = FALSE
    /\ job = "idle" /\ todo = <<>> /\ last = "uninstall" /\ goal = "none"
    /\ Node!Init
    /\ commands = 0 /\ failures = 0
----------------------------------------------------------------------------
(* The commands.                                                           *)
DownCalls ==
    CASE backend = "launchd" -> <<"term">>
      [] backend = "systemd" -> <<"stop">>
      [] backend = "task"    -> <<"end", "killname">>

StopCalls == IF backend = "launchd" THEN <<"bootout">> ELSE DownCalls

LoadCalls ==
    CASE backend = "launchd" -> <<"write", "bootout", "bootstrap">>
      [] backend = "systemd" -> <<"write", "enable">>
      [] backend = "task"    -> <<"enable">>

Calls(c) ==
    CASE c = "install"   -> Append(LoadCalls, "start")
      [] c = "up"        -> <<"start">>
      [] c = "down"      -> DownCalls
      [] c = "restart"   -> Append(DownCalls, "start")
      [] c = "uninstall" -> Append(StopCalls, "remove")

\* All but ts_install look for the service first, and stop without it.
Begin(c) ==
    /\ todo = <<>> /\ commands < MaxCommands
    /\ commands' = commands + 1 /\ last' = c
    /\ IF c = "install" \/ written
         THEN todo' = Calls(c) /\ goal' = "none"
         ELSE UNCHANGED <<todo, goal>>
    /\ UNCHANGED <<fileVars, job, nodeVars, failures>>

\* A call returns 0: the next one follows, or the command reports what it did.
\* ts_uninstall reports it whatever happened.
Proceed ==
    /\ todo' = Tail(todo)
    /\ goal' = IF Tail(todo) # <<>> \/ last = "uninstall" THEN goal
               ELSE IF last = "down" THEN "down" ELSE "up"
    /\ UNCHANGED <<last, commands>>

Calling(call) == todo # <<>> /\ Head(todo) = call

\* The manager refuses, there is nothing to act on, or the user interrupts it:
\* `|| return 1', except where nobody looks at the result.
CallFails ==
    /\ todo # <<>> /\ Head(todo) # "killname"
    /\ IF Head(todo) \in {"write", "bootout"}
         THEN Proceed
         ELSE /\ todo' = IF last = "uninstall" /\ Head(todo) # "remove" THEN <<"remove">> ELSE <<>>
              /\ UNCHANGED <<last, goal, commands>>
    /\ UNCHANGED <<fileVars, job, nodeVars, failures>>
----------------------------------------------------------------------------
(* The managers.  What becomes of a job whose process ended with s, while  *)
(* the manager had it in state j.                                          *)

\* Mutant: a process that was killed is not restarted.
AfterEndExitsOnly(j, s) ==
    IF j # "active" \/ s # "one" THEN {"idle"}
    ELSE IF backend = "task" THEN {"idle", "due"} ELSE {"due"}

\* Mutant: Restart=always.
AfterEndAlways(j, s) ==
    IF j # "active" THEN {"idle"}
    ELSE IF backend = "task" THEN {"idle", "due"} ELSE {"due"}

\* KeepAlive / SuccessfulExit = false, Restart=on-failure; RestartCount runs out.
AfterEnd(j, s) ==
    IF j # "active" \/ s = "zero" THEN {"idle"}
    ELSE IF backend = "task" THEN {"idle", "due"} ELSE {"due"}

Settle(j) ==
    /\ IF phase' = "exited" THEN job' \in AfterEnd(j, status') ELSE job' = j
    /\ loaded' = (loaded /\ ~(j = "leaving" /\ phase' = "exited"))

Launch == Node!Launch /\ job' = "active"

\* SIGTERM to the process of a job that is in state j from now on.
Term(j) == Node!Signal /\ Settle(j)

\* ThrottleInterval, RestartSec or RestartInterval is over, or the login came.
StartDue ==
    /\ job = "due" /\ Launch
    /\ UNCHANGED <<fileVars, userVars, failures>>

\* cat > plist | cat > unit.
Write ==
    /\ Calling("write") /\ Proceed
    /\ written' = TRUE
    /\ UNCHANGED <<backend, loaded, job, nodeVars, failures>>

\* daemon-reload and enable | Register-ScheduledTask.  A running process stays.
Enable ==
    /\ Calling("enable") /\ (written \/ backend = "task") /\ Proceed
    /\ written' = TRUE /\ loaded' = TRUE
    /\ UNCHANGED <<backend, job, nodeVars, failures>>

\* launchctl bootout does not wait: the service is gone when its process is.
Bootout ==
    /\ Calling("bootout") /\ Proceed
    /\ IF Node!Alive
         THEN Term("leaving")
         ELSE loaded' = FALSE /\ job' = "idle" /\ UNCHANGED nodeVars
    /\ UNCHANGED <<backend, written, failures>>

\* launchctl bootstrap needs the plist, and the old service gone; RunAtLoad.
Bootstrap ==
    /\ Calling("bootstrap") /\ written /\ ~loaded /\ Proceed
    /\ loaded' = TRUE /\ job' = "due"
    /\ UNCHANGED <<backend, written, nodeVars, failures>>

\* kickstart | systemctl start | Start-ScheduledTask: nothing for a service that
\* runs already; systemd waits for one that is stopping.
StartCall ==
    /\ Calling("start") /\ (loaded \/ backend # "launchd") /\ job \in {"idle", "due", "active"}
    /\ Proceed
    /\ IF job = "active" THEN UNCHANGED <<job, nodeVars>> ELSE Launch
    /\ UNCHANGED <<fileVars, failures>>

\* launchctl kill TERM: returns at once, fails without a process.
TermCall ==
    /\ Calling("term") /\ job = "active" /\ Proceed
    /\ Term("active")
    /\ UNCHANGED <<backend, written, failures>>

\* systemctl stop, disable --now: forgets a restart that is due.
StopJob ==
    \/ job = "active" /\ Term("stopping")
    \/ job = "due" /\ job' = "idle" /\ UNCHANGED <<loaded, nodeVars>>
    \/ job \in {"idle", "stopping"} /\ UNCHANGED <<job, loaded, nodeVars>>

\* Mutant: systemctl --no-block stop.
StopCallNoWait ==
    /\ Calling("stop") /\ Proceed
    /\ StopJob
    /\ UNCHANGED <<backend, written, failures>>

\* ... and waits for the process.
StopCall ==
    /\ Calling("stop")
    /\ todo' = [todo EXCEPT ![1] = "wait"]
    /\ StopJob
    /\ UNCHANGED <<backend, written, last, goal, commands, failures>>

Wait ==
    /\ Calling("wait") /\ job = "idle" /\ Proceed
    /\ UNCHANGED <<fileVars, job, nodeVars, failures>>

\* Stop-ScheduledTask ends the cmd.exe wrapper, and the node with it or not.
EndCall ==
    /\ Calling("end") /\ Proceed
    /\ \/ Node!Kill /\ job' = "idle"
       \/ Node!Alive /\ job' = "lost" /\ UNCHANGED nodeVars
       \/ ~Node!Alive /\ job' = "idle" /\ UNCHANGED nodeVars
    /\ UNCHANGED <<fileVars, failures>>

\* Stop-Process of the first process with the image name of the binary: the node,
\* or another one, and then nobody looks after the node any more.
KillName ==
    /\ Calling("killname") /\ Proceed
    /\ job' = "idle"
    /\ IF job = "lost" /\ Node!Alive
         THEN \/ Node!Kill
              \/ phase' = "off" /\ asked' = FALSE /\ status' = "none"
         ELSE UNCHANGED nodeVars
    /\ UNCHANGED <<fileVars, failures>>

\* rm, daemon-reload | Unregister-ScheduledTask.  Without its plist launchd keeps
\* what it has loaded.
Remove ==
    /\ Calling("remove") /\ Proceed
    /\ written' = FALSE /\ loaded' = (loaded /\ backend = "launchd")
    /\ UNCHANGED <<backend, job, nodeVars, failures>>
----------------------------------------------------------------------------
(* The process and its surroundings.                                       *)
Ready == Node!Ready /\ UNCHANGED <<fileVars, job, userVars, failures>>

Exits ==
    /\ \/ Node!Exit("zero") /\ UNCHANGED failures
       \/ Node!Exit("one") /\ failures < MaxFailures /\ failures' = failures + 1
    /\ Settle(job)
    /\ UNCHANGED <<backend, written, userVars>>

Killed ==
    /\ Node!Kill /\ failures < MaxFailures /\ failures' = failures + 1
    /\ Settle(job)
    /\ UNCHANGED <<backend, written, userVars>>

\* The session ends and the user logs in: all three start at login.
Login ==
    /\ todo = <<>> /\ commands < MaxCommands /\ commands' = commands + 1
    /\ phase' = "off" /\ asked' = FALSE /\ status' = "none"
    /\ loaded' = IF backend = "launchd" THEN written ELSE loaded
    /\ job' = IF loaded' THEN "due" ELSE "idle"
    /\ goal' = IF loaded' THEN "up" ELSE "none"
    /\ UNCHANGED <<backend, written, todo, last, failures>>

ManagerCall == \/ CallFails \/ Write \/ Enable \/ Bootout \/ Bootstrap \/ StartCall \/ TermCall \/ StopCall
               \/ Wait \/ EndCall \/ KillName \/ Remove

Next == (\E c \in Command : Begin(c)) \/ ManagerCall \/ StartDue \/ Ready \/ Exits \/ Killed
        \/ Login

Spec == Init /\ [][Next]_vars

\* Managers answer and start what is due; a process gets through its start-up, and
\* ends once it was asked to (Lifecycle!SignalEnds).  It need not fail, and nobody
\* has to ask for anything.
FairSpec == /\ Spec
            /\ WF_vars(ManagerCall) /\ WF_vars(StartDue) /\ WF_vars(Ready)
            /\ WF_vars(asked /\ Exits)
----------------------------------------------------------------------------
\* "Only a crash restarts the node" (docs/service.md:32): after a ts_down that
\* returned 0 no process starts again on systemd, and elsewhere none but for one
\* that failed or was killed on its way out.  That one does: it may have been asked
\* to stop before main.go:46, or its servers have failed at the same moment
\* (run.go:106), and KeepAlive takes either for a crash.
Restarted == goal = "down" /\ goal' = "down" /\ ~Node!Alive /\ Node!Alive'
OnlyFailuresRestart ==
    [][Restarted => backend # "systemd" /\ status \in {"one", "killed"}]_vars

\* What the manager is left with after a command that returned 0 (docs/service.md:
\* 11-17, linux.zsh:28-46, darwin.zsh:40-64).  systemd: a service that was started
\* runs, or its restart is due; one that was stopped has no process and none due.
\* launchd: one that was started is neither running nor due only when its process
\* was asked to stop and exited 0; what it does after a ts_down is
\* OnlyFailuresRestart.  Of the Task Scheduler, whose restarts run out, nothing is
\* said.
GoalKept ==
    /\ backend = "systemd" =>
         /\ goal = "up" => job \in {"due", "active"}
         /\ goal = "down" => job = "idle" /\ ~Node!Alive
    /\ backend = "launchd" =>
         (goal = "up" /\ job \notin {"due", "active"} => asked /\ status = "zero")

(***************************************************************************)
(* The inductive invariant behind GoalKept and OnlyFailuresRestart.        *)
(***************************************************************************)
\* The calls each manager takes.
CallsOf(b) ==
    CASE b = "launchd" -> {"write", "bootout", "bootstrap", "start", "term", "remove"}
      [] b = "systemd" -> {"write", "enable", "start", "stop", "wait", "remove"}
      [] b = "task"    -> {"enable", "start", "end", "killname", "remove"}

\* A command that is to start the service does so last; a goal is set with no call
\* left.
CommandPlace ==
    /\ todo \in Seq(CallsOf(backend))
    /\ goal # "none" => todo = <<>>
    /\ last \in {"install", "up", "restart"} /\ todo # <<>> => todo[Len(todo)] = "start"
    /\ last = "down" => todo \in {<<>>, <<"term">>, <<"stop">>, <<"wait">>, <<"end", "killname">>,
                                  <<"killname">>}

\* systemd knows of every process, and has asked one to stop only where it waits.
SystemdPlace ==
    /\ job \in {"idle", "due", "active", "stopping"}
    /\ Node!Alive <=> job \in {"active", "stopping"}
    /\ job = "active" => ~asked
    /\ goal = "up" => job \in {"due", "active"}
    /\ goal = "down" => job = "idle"

\* launchd knows of every process too; the one it is booting out is not started.
LaunchdPlace ==
    /\ job \in {"idle", "due", "active", "leaving"}
    /\ Node!Alive <=> job \in {"active", "leaving"}
    /\ job \in {"due", "active", "leaving"} => loaded
    /\ goal = "up" => job # "leaving" /\ (job = "idle" => asked /\ status = "zero")

\* What is to be started after a ts_down has failed on its way out.
DuePlace ==
    job = "due" => ~Node!Alive /\ (goal = "down" => status \in {"one", "killed"})

ServiceInv ==
    /\ CommandPlace /\ DuePlace
    /\ backend = "systemd" => SystemdPlace
    /\ backend = "launchd" => LaunchdPlace

\* "`ts_restart` | stop, start" (docs/service.md:14): what a command started is
\* running or about to be.
UpStaysUp == goal = "up" => job # "idle"

\* "Only a crash restarts the node - `ts_down` stays down" (docs/service.md:32): after
\* a ts_down that returned 0 no start is due.
DownStaysDown == goal = "down" => job # "due"

\* A service that is to be up and has lost its process gets another one, that nobody
\* has asked to stop, each time it fails and however often (darwin.zsh:40-44,
\* linux.zsh:29-30).  Whether that process comes as far as serving is up to its
\* settings and the login; the Task Scheduler's restarts run out, and the process
\* that exits 0 on macOS is not replaced (UpStaysUp).
LostByFailure ==
    /\ goal = "up" /\ ~Node!Alive
    /\ backend = "systemd" \/ (backend = "launchd" /\ status # "zero")
StartedAgain == LostByFailure ~> goal # "up" \/ (Node!Alive /\ ~asked)
=============================================================================
