--------------------------- MODULE Service_proofs ---------------------------
(***************************************************************************)
(* Theorems about Service, for every choice of backends and any number of  *)
(* commands and failures.                                                  *)
(***************************************************************************)
EXTENDS Service, SequenceTheorems, TLAPS

LEMMA CallsTyped ==
    ASSUME backend \in Backend PROVE CallsOf(backend) \subseteq Call
BY DEF CallsOf, Call, Backend

LEMMA AppendEnds ==
    ASSUME NEW S, NEW s \in Seq(S), NEW e \in S
    PROVE  /\ Append(s, e) \in Seq(S) /\ Append(s, e) # <<>>
           /\ Append(s, e)[Len(Append(s, e))] = e
OBVIOUS

\* What each backend does is made of the calls of its manager.
LEMMA BackendCalls ==
    ASSUME backend \in Backend
    PROVE  /\ {"start", "remove"} \subseteq CallsOf(backend)
           /\ LoadCalls \in Seq(CallsOf(backend)) /\ StopCalls \in Seq(CallsOf(backend))
           /\ DownCalls \in Seq(CallsOf(backend))
           /\ DownCalls \in {<<"term">>, <<"stop">>, <<"end", "killname">>}
<1>1. CASE backend = "launchd"
  BY <1>1 DEF CallsOf, LoadCalls, StopCalls, DownCalls
<1>2. CASE backend = "systemd"
  BY <1>2 DEF CallsOf, LoadCalls, StopCalls, DownCalls
<1>3. CASE backend = "task"
  BY <1>3 DEF CallsOf, LoadCalls, StopCalls, DownCalls
<1> QED  BY <1>1, <1>2, <1>3 DEF Backend

\* A command's calls are its manager's, and one that starts the service does it last.
LEMMA CallsPlace ==
    ASSUME backend \in Backend, NEW c \in Command
    PROVE  /\ Calls(c) \in Seq(CallsOf(backend)) /\ Calls(c) # <<>>
           /\ c \in {"install", "up", "restart"} => Calls(c)[Len(Calls(c))] = "start"
           /\ c = "down" => Calls(c) \in {<<"term">>, <<"stop">>, <<"end", "killname">>}
<1>1. CASE c = "install"
  <2>1. Calls(c) = Append(LoadCalls, "start")  BY <1>1 DEF Calls
  <2>2. LoadCalls \in Seq(CallsOf(backend)) /\ "start" \in CallsOf(backend)  BY BackendCalls
  <2>3. /\ Calls(c) \in Seq(CallsOf(backend)) /\ Calls(c) # <<>>
        /\ Calls(c)[Len(Calls(c))] = "start"
    BY <2>1, <2>2, AppendEnds, Zenon
  <2> QED  BY <1>1, <2>3
<1>2. CASE c = "up"
  <2>1. Calls(c) = <<"start">>  BY <1>2 DEF Calls
  <2>2. "start" \in CallsOf(backend)  BY BackendCalls
  <2>3. <<"start">> # <<>> /\ Len(<<"start">>) = 1 /\ <<"start">>[1] = "start"
    OBVIOUS
  <2>4. ASSUME NEW S, "start" \in S PROVE <<"start">> \in Seq(S)
    BY <2>4
  <2>5. Calls(c) \in Seq(CallsOf(backend))  BY <2>1, <2>2, <2>4, Zenon
  <2> QED  BY <1>2, <2>1, <2>3, <2>5
<1>3. CASE c = "down"
  <2>1. Calls(c) = DownCalls  BY <1>3 DEF Calls
  <2>2. <<"term">> # <<>> /\ <<"stop">> # <<>> /\ <<"end", "killname">> # <<>>
    OBVIOUS
  <2>3. DownCalls \in Seq(CallsOf(backend)) /\ DownCalls \in {<<"term">>, <<"stop">>, <<"end", "killname">>}
    BY BackendCalls
  <2> QED  BY <1>3, <2>1, <2>2, <2>3, Zenon
<1>4. CASE c = "restart"
  <2>1. Calls(c) = Append(DownCalls, "start")  BY <1>4 DEF Calls
  <2>2. DownCalls \in Seq(CallsOf(backend)) /\ "start" \in CallsOf(backend)  BY BackendCalls
  <2>3. /\ Calls(c) \in Seq(CallsOf(backend)) /\ Calls(c) # <<>>
        /\ Calls(c)[Len(Calls(c))] = "start"
    BY <2>1, <2>2, AppendEnds, Zenon
  <2> QED  BY <1>4, <2>3
<1>5. CASE c = "uninstall"
  <2>1. Calls(c) = Append(StopCalls, "remove")  BY <1>5 DEF Calls
  <2>2. StopCalls \in Seq(CallsOf(backend)) /\ "remove" \in CallsOf(backend)  BY BackendCalls
  <2>3. Calls(c) \in Seq(CallsOf(backend)) /\ Calls(c) # <<>>
    BY <2>1, <2>2, AppendEnds, Zenon
  <2> QED  BY <1>5, <2>3
<1> QED  BY <1>1, <1>2, <1>3, <1>4, <1>5 DEF Command

LEMMA TailKeeps ==
    ASSUME NEW S, NEW s \in Seq(S), s # <<>>
    PROVE  /\ Head(s) \in S /\ Tail(s) \in Seq(S)
           /\ Tail(s) # <<>> => Tail(s)[Len(Tail(s))] = s[Len(s)]
           /\ Tail(s) = <<>> => s[Len(s)] = Head(s)
<1>1. /\ Head(s) \in S /\ Tail(s) \in Seq(S) /\ Len(Tail(s)) = Len(s) - 1
      /\ \A i \in 1 .. Len(Tail(s)) : Tail(s)[i] = s[i + 1]
  BY HeadTailProperties
<1>2. Len(s) \in Nat \ {0} /\ Len(<<>>) = 0 /\ Head(s) = s[1]
  BY EmptySeq
<1>3. Tail(s) # <<>> => Len(Tail(s)) \in Nat \ {0}
  BY <1>1, EmptySeq
<1>4. Tail(s) # <<>> => Tail(s)[Len(Tail(s))] = s[Len(s)]
  <2>1. HAVE Tail(s) # <<>>
  <2>2. Len(Tail(s)) \in 1 .. Len(Tail(s)) /\ Len(Tail(s)) + 1 = Len(s)
    BY <1>1, <1>2, <1>3, <2>1
  <2>3. Tail(s)[Len(Tail(s))] = s[Len(Tail(s)) + 1]
    BY <1>1, <2>2
  <2> QED  BY <2>2, <2>3
<1>5. Tail(s) = <<>> => s[Len(s)] = Head(s)
  <2>1. HAVE Tail(s) = <<>>
  <2>2. Len(Tail(s)) = 0
    BY <1>2, <2>1, Zenon
  <2>3. Len(s) - 1 = 0
    BY <1>1, <2>2, Zenon
  <2>4. Len(s) \in Nat
    BY LenProperties
  <2>5. Len(s) = 1
    BY <2>3, <2>4
  <2> QED  BY <1>2, <2>5
<1> QED  BY <1>1, <1>4, <1>5

\* A call that returned 0: what is left of the command, and what it may promise.
LEMMA ProceedPlace ==
    ASSUME TypeOK, CommandPlace, todo # <<>>, Proceed, UNCHANGED backend
    PROVE  /\ todo' \in Seq(Call) /\ goal' \in {"none", "up", "down"} /\ last' \in Command
           /\ CommandPlace'
           /\ goal' = "up" => Head(todo) = "start"
           /\ goal' = "down" => Head(todo) \in {"term", "stop", "wait", "killname"}
<1>1. backend \in Backend
  BY ServiceAssumption DEF TypeOK
<1>2. /\ todo \in Seq(CallsOf(backend)) /\ todo \in Seq(Call) /\ goal = "none"
      /\ last \in Command
  BY DEF TypeOK, CommandPlace
<1>3. /\ Tail(todo) \in Seq(CallsOf(backend)) /\ Tail(todo) \in Seq(Call)
      /\ Tail(todo) # <<>> => Tail(todo)[Len(Tail(todo))] = todo[Len(todo)]
      /\ Tail(todo) = <<>> => todo[Len(todo)] = Head(todo)
  BY <1>2, TailKeeps
<1>4. todo' = Tail(todo) /\ last' = last /\ backend' = backend
  BY DEF Proceed
<1>5. goal' \in {"none", "up", "down"} /\ (goal' # "none" => Tail(todo) = <<>> /\ last # "uninstall")
  BY <1>2 DEF Proceed
<1>6. goal' = "up" => last \in {"install", "up", "restart"}
  BY <1>2, <1>5 DEF Proceed, Command
<1>7. goal' = "up" => Head(todo) = "start"
  BY <1>3, <1>5, <1>6 DEF CommandPlace
<1>8. goal' = "down" => last = "down"
  BY <1>2 DEF Proceed
<1>9. last = "down" => todo \in {<<"term">>, <<"stop">>, <<"wait">>, <<"end", "killname">>, <<"killname">>}
  BY DEF CommandPlace
<1>10. last = "down" => Tail(todo) \in {<<>>, <<"killname">>}
  <2>1. /\ Tail(<<"term">>) = <<>> /\ Tail(<<"stop">>) = <<>> /\ Tail(<<"wait">>) = <<>>
        /\ Tail(<<"killname">>) = <<>> /\ Tail(<<"end", "killname">>) = <<"killname">>
    OBVIOUS
  <2> QED  BY <1>9, <2>1
<1>11. goal' = "down" => Head(todo) \in {"term", "stop", "wait", "killname"}
  <2>1. /\ Head(<<"term">>) = "term" /\ Head(<<"stop">>) = "stop" /\ Head(<<"wait">>) = "wait"
        /\ Head(<<"killname">>) = "killname" /\ Tail(<<"end", "killname">>) # <<>>
    OBVIOUS
  <2> QED  BY <1>5, <1>8, <1>9, <2>1
<1>12. CommandPlace'
  <2>1. todo' \in Seq(CallsOf(backend'))
    BY <1>3, <1>4
  <2>2. goal' # "none" => todo' = <<>>
    BY <1>4, <1>5
  <2>3. last' \in {"install", "up", "restart"} /\ todo' # <<>> => todo'[Len(todo')] = "start"
    BY <1>3, <1>4 DEF CommandPlace
  <2>4. last' = "down" => todo' \in {<<>>, <<"killname">>}
    BY <1>4, <1>10
  <2> QED  BY <2>1, <2>2, <2>3, <2>4 DEF CommandPlace
<1> QED  BY <1>2, <1>3, <1>4, <1>5, <1>7, <1>11, <1>12

\* Which manager a call goes to.
LEMMA CallTo ==
    ASSUME TypeOK, CommandPlace, todo # <<>>
    PROVE  /\ Head(todo) \in {"bootout", "bootstrap", "term"} => backend = "launchd"
           /\ Head(todo) \in {"stop", "wait"} => backend = "systemd"
           /\ Head(todo) \in {"end", "killname"} => backend = "task"
           /\ goal = "none"
<1>1. backend \in Backend
  BY ServiceAssumption DEF TypeOK
<1>2. Head(todo) \in CallsOf(backend)
  BY TailKeeps DEF CommandPlace
<1>3. goal = "none"
  BY DEF TypeOK, CommandPlace
<1> QED  BY <1>1, <1>2, <1>3 DEF CallsOf, Backend

----------------------------------------------------------------------------
(* Calls to the manager.                                                   *)
LEMMA CallFailsKeeps ==
    ASSUME TypeOK, ServiceInv, CallFails PROVE TypeOK' /\ ServiceInv'
<1>1. todo # <<>> /\ CommandPlace /\ UNCHANGED <<fileVars, job, nodeVars, failures>>
  BY DEF CallFails, ServiceInv
<1>2. CASE Head(todo) \in {"write", "bootout"}
  <2>1. Proceed /\ UNCHANGED backend
    BY <1>1, <1>2 DEF CallFails, fileVars
  <2>2. /\ todo' \in Seq(Call) /\ goal' \in {"none", "up", "down"} /\ last' \in Command
        /\ CommandPlace' /\ goal' \notin {"up", "down"}
    BY <1>1, <1>2, <2>1, ProceedPlace
  <2>3. TypeOK'
    BY <1>1, <2>1, <2>2 DEF TypeOK, Proceed, fileVars, nodeVars
  <2> QED  BY <1>1, <2>2, <2>3 DEF ServiceInv, DuePlace, SystemdPlace, LaunchdPlace, Node!Alive,
              fileVars, nodeVars
<1>3. CASE Head(todo) \notin {"write", "bootout"}
  <2>1. /\ todo' \in {<<>>, <<"remove">>} /\ (last # "uninstall" => todo' = <<>>)
        /\ UNCHANGED <<last, goal, commands>>
    BY <1>3 DEF CallFails
  <2>2. backend \in Backend /\ goal = "none"
    BY <1>1, CallTo, ServiceAssumption DEF TypeOK
  <2>3. "remove" \in CallsOf(backend) /\ "remove" \in Call
    BY <2>2, BackendCalls DEF Call
  <2>4. ASSUME NEW S, "remove" \in S PROVE <<"remove">> \in Seq(S) /\ <<>> \in Seq(S)
    BY <2>4
  <2>5. todo' \in Seq(CallsOf(backend)) /\ todo' \in Seq(Call)
    BY <2>1, <2>3, <2>4, Zenon
  <2>6. CommandPlace'
    BY <1>1, <2>1, <2>2, <2>5 DEF CommandPlace, fileVars
  <2>7. TypeOK'
    BY <1>1, <2>1, <2>5 DEF TypeOK, fileVars, nodeVars
  <2> QED  BY <1>1, <2>1, <2>6, <2>7 DEF ServiceInv, DuePlace, SystemdPlace, LaunchdPlace,
              Node!Alive, fileVars, nodeVars
<1> QED  BY <1>2, <1>3

\* Calls that touch no process.
LEMMA FileCallKeeps ==
    ASSUME TypeOK, ServiceInv, Write \/ Enable \/ Remove PROVE TypeOK' /\ ServiceInv'
<1>1. /\ todo # <<>> /\ CommandPlace /\ Proceed /\ Head(todo) \in {"write", "enable", "remove"}
      /\ UNCHANGED <<backend, job, nodeVars, failures>>
  BY DEF Write, Enable, Remove, Calling, ServiceInv
<1>2. written' \in BOOLEAN /\ loaded' \in BOOLEAN /\ (backend = "launchd" /\ loaded => loaded')
  BY CallTo, <1>1, Zenon DEF Write, Enable, Remove, TypeOK, Calling
<1>3. /\ todo' \in Seq(Call) /\ goal' \in {"none", "up", "down"} /\ last' \in Command
      /\ CommandPlace' /\ goal' \notin {"up", "down"}
  BY <1>1, ProceedPlace
<1>4. TypeOK'
  BY <1>1, <1>2, <1>3 DEF TypeOK, Proceed, nodeVars
<1> QED  BY <1>1, <1>2, <1>3, <1>4 DEF ServiceInv, DuePlace, SystemdPlace, LaunchdPlace,
            Node!Alive, nodeVars

\* A call of launchd or of systemd ends the process of the job, or asks it to stop.
LEMMA TermKeeps ==
    ASSUME TypeOK, NEW j \in {"active", "stopping", "leaving"}, Term(j)
    PROVE  /\ phase' \in Node!Phase /\ asked' \in BOOLEAN /\ status' \in Node!Status
           /\ job' \in Job /\ loaded' \in BOOLEAN /\ Node!Alive
           /\ IF phase' = "exited"
                THEN /\ ~Node!Alive' /\ status' \in {"zero", "one", "killed"}
                     /\ job' \in {"idle", "due"}
                     /\ job' = "due" => j = "active" /\ status' \in {"one", "killed"}
                     /\ job' = "idle" => j # "active" \/ status' = "zero" \/ backend = "task"
                     /\ loaded' = (loaded /\ j # "leaving")
                ELSE Node!Alive' /\ asked' /\ job' = j /\ loaded' = loaded
BY DEF TypeOK, Term, Settle, AfterEnd, Job, Node!Signal, Node!End, Node!Alive, Node!Phase,
       Node!Status

LEMMA BootoutKeeps ==
    ASSUME TypeOK, ServiceInv, Bootout PROVE TypeOK' /\ ServiceInv'
<1>1. /\ todo # <<>> /\ CommandPlace /\ Proceed /\ Head(todo) = "bootout"
      /\ UNCHANGED <<backend, written, failures>>
  BY DEF Bootout, Calling, ServiceInv
<1>2. backend = "launchd"
  BY <1>1, CallTo, Zenon
<1>3. /\ todo' \in Seq(Call) /\ goal' = "none" /\ last' \in Command /\ CommandPlace'
  BY <1>1, ProceedPlace
<1>4. CASE Node!Alive
  <2>1. Term("leaving")
    BY <1>4 DEF Bootout
  <2>2. TypeOK'
    BY <1>1, <1>3, <2>1, TermKeeps DEF TypeOK, Proceed
  <2>3. /\ job' \in {"idle", "leaving"} /\ (Node!Alive' <=> job' = "leaving")
        /\ job' = "leaving" => loaded'
    BY <1>2, <1>4, <2>1, TermKeeps DEF ServiceInv, LaunchdPlace, Node!Alive
  <2> QED  BY <1>1, <1>2, <1>3, <2>2, <2>3 DEF ServiceInv, DuePlace, LaunchdPlace
<1>5. CASE ~Node!Alive
  <2>1. loaded' = FALSE /\ job' = "idle" /\ UNCHANGED nodeVars
    BY <1>5 DEF Bootout
  <2>2. TypeOK'
    BY <1>1, <1>3, <2>1 DEF TypeOK, Proceed, Job, nodeVars
  <2> QED  BY <1>1, <1>2, <1>3, <1>5, <2>1, <2>2 DEF ServiceInv, DuePlace, LaunchdPlace,
              Node!Alive, nodeVars
<1> QED  BY <1>4, <1>5

LEMMA BootstrapKeeps ==
    ASSUME TypeOK, ServiceInv, Bootstrap PROVE TypeOK' /\ ServiceInv'
<1>1. /\ todo # <<>> /\ CommandPlace /\ Proceed /\ Head(todo) = "bootstrap"
      /\ loaded' = TRUE /\ job' = "due" /\ ~loaded
      /\ UNCHANGED <<backend, written, nodeVars, failures>>
  BY DEF Bootstrap, Calling, ServiceInv
<1>2. backend = "launchd" /\ ~Node!Alive
  BY <1>1, CallTo, Zenon DEF ServiceInv, LaunchdPlace
<1>3. /\ todo' \in Seq(Call) /\ goal' = "none" /\ last' \in Command /\ CommandPlace'
  BY <1>1, ProceedPlace
<1>4. TypeOK'
  BY <1>1, <1>3 DEF TypeOK, Proceed, Job, nodeVars
<1> QED  BY <1>1, <1>2, <1>3, <1>4 DEF ServiceInv, DuePlace, LaunchdPlace, Node!Alive, nodeVars

LEMMA StartCallKeeps ==
    ASSUME TypeOK, ServiceInv, StartCall PROVE TypeOK' /\ ServiceInv'
<1>1. /\ todo # <<>> /\ CommandPlace /\ Proceed /\ Head(todo) = "start"
      /\ UNCHANGED <<fileVars, failures>>
  BY DEF StartCall, Calling, ServiceInv
<1>2. /\ todo' \in Seq(Call) /\ goal' \in {"none", "up", "down"} /\ last' \in Command
      /\ CommandPlace' /\ goal' # "down"
  BY <1>1, ProceedPlace DEF fileVars
<1>3. CASE job = "active"
  <2>1. UNCHANGED <<job, nodeVars>>
    BY <1>3 DEF StartCall
  <2>2. TypeOK'
    BY <1>1, <1>2, <2>1 DEF TypeOK, Proceed, fileVars, nodeVars
  <2> QED  BY <1>1, <1>2, <1>3, <2>1, <2>2 DEF ServiceInv, DuePlace, SystemdPlace, LaunchdPlace,
              Node!Alive, fileVars, nodeVars
<1>4. CASE job # "active"
  <2>1. Launch /\ (loaded \/ backend # "launchd")
    BY <1>4 DEF StartCall
  <2>2. TypeOK'
    BY <1>1, <1>2, <2>1 DEF TypeOK, Proceed, Launch, Job, fileVars, Node!Launch, Node!Phase,
       Node!Status
  <2> QED  BY <1>1, <1>2, <2>1, <2>2 DEF ServiceInv, DuePlace, SystemdPlace, LaunchdPlace,
              Node!Alive, Launch, Node!Launch, fileVars
<1> QED  BY <1>3, <1>4

LEMMA TermCallKeeps ==
    ASSUME TypeOK, ServiceInv, TermCall PROVE TypeOK' /\ ServiceInv'
<1>1. /\ todo # <<>> /\ CommandPlace /\ Proceed /\ Head(todo) = "term" /\ Term("active")
      /\ UNCHANGED <<backend, written, failures>>
  BY DEF TermCall, Calling, ServiceInv
<1>2. backend = "launchd"
  BY <1>1, CallTo, Zenon
<1>3. /\ todo' \in Seq(Call) /\ goal' \in {"none", "up", "down"} /\ last' \in Command
      /\ CommandPlace' /\ goal' # "up"
  BY <1>1, ProceedPlace
<1>4. TypeOK'
  BY <1>1, <1>3, TermKeeps DEF TypeOK, Proceed
<1>5. /\ job' \in {"idle", "due", "active"} /\ (Node!Alive' <=> job' = "active")
      /\ job' # "idle" => loaded'
      /\ job' = "due" => status' \in {"one", "killed"}
  BY <1>1, <1>2, TermKeeps DEF TermCall, ServiceInv, LaunchdPlace
<1> QED  BY <1>1, <1>2, <1>3, <1>4, <1>5 DEF ServiceInv, DuePlace, LaunchdPlace

\* systemctl stop becomes a wait in the same place of the command.
LEMMA WaitPlace ==
    ASSUME NEW S, NEW s \in Seq(S), s # <<>>, "wait" \in S, NEW t, t = [s EXCEPT ![1] = "wait"]
    PROVE  /\ t \in Seq(S) /\ t # <<>> /\ Len(t) = Len(s)
           /\ Len(s) > 1 => t[Len(t)] = s[Len(s)]
           /\ s = <<"stop">> => t = <<"wait">>
<1>1. t \in Seq(S) /\ Len(t) = Len(s) /\ Len(s) \in Nat \ {0}
  BY EmptySeq, ExceptSeq
<1> QED  BY <1>1, EmptySeq

LEMMA StopCallKeeps ==
    ASSUME TypeOK, ServiceInv, StopCall PROVE TypeOK' /\ ServiceInv'
<1>1. /\ todo # <<>> /\ CommandPlace /\ Head(todo) = "stop"
      /\ todo' = [todo EXCEPT ![1] = "wait"]
      /\ UNCHANGED <<backend, written, last, goal, commands, failures>>
  BY DEF StopCall, Calling, ServiceInv
<1>2. backend = "systemd" /\ goal = "none" /\ SystemdPlace
  BY <1>1, CallTo, Zenon DEF ServiceInv
<1>3. "wait" \in CallsOf(backend) /\ "wait" \in Call
  BY <1>2 DEF CallsOf, Call
<1>4. todo \in Seq(CallsOf(backend)) /\ todo \in Seq(Call)
  BY DEF TypeOK, ServiceInv, CommandPlace
<1>5. /\ todo' \in Seq(CallsOf(backend)) /\ todo' # <<>> /\ Len(todo') = Len(todo)
      /\ Len(todo) > 1 => todo'[Len(todo')] = todo[Len(todo)]
      /\ todo = <<"stop">> => todo' = <<"wait">>
  BY <1>1, <1>3, <1>4, WaitPlace
<1>6. todo' \in Seq(Call)
  BY <1>1, <1>3, <1>4, WaitPlace
<1>7. last = "down" => todo = <<"stop">>
  <2>1. /\ Head(<<"term">>) # "stop" /\ Head(<<"wait">>) # "stop"
        /\ Head(<<"end", "killname">>) # "stop" /\ Head(<<"killname">>) # "stop"
    OBVIOUS
  <2> QED  BY <1>1, <2>1 DEF CommandPlace
<1>8. last \in {"install", "up", "restart"} => Len(todo) > 1 /\ todo[Len(todo)] = "start"
  <2>1. HAVE last \in {"install", "up", "restart"}
  <2>2. todo[Len(todo)] = "start"
    BY <1>1, <2>1 DEF CommandPlace
  <2>3. Head(todo) = todo[1] /\ Len(todo) \in Nat \ {0}
    BY <1>1, <1>4, EmptySeq
  <2> QED  BY <1>1, <2>2, <2>3
<1>9. CommandPlace'
  BY <1>1, <1>2, <1>5, <1>7, <1>8 DEF CommandPlace
<1>10. StopJob
  BY DEF StopCall
<1>11. CASE job = "active" /\ Term("stopping")
  <2>1. TypeOK'
    BY <1>1, <1>6, <1>11, TermKeeps DEF TypeOK
  <2>2. job' \in {"idle", "stopping"} /\ (Node!Alive' <=> job' = "stopping")
    BY <1>11, TermKeeps
  <2> QED  BY <1>1, <1>2, <1>9, <2>1, <2>2 DEF ServiceInv, DuePlace, SystemdPlace
<1>12. CASE job \in {"idle", "due", "stopping"} /\ UNCHANGED <<loaded, nodeVars>>
           /\ job' = IF job = "due" THEN "idle" ELSE job
  <2>1. TypeOK'
    BY <1>1, <1>6, <1>12 DEF TypeOK, Job, nodeVars
  <2> QED  BY <1>1, <1>2, <1>9, <1>12, <2>1 DEF ServiceInv, DuePlace, SystemdPlace, Node!Alive,
              nodeVars
<1> QED  BY <1>10, <1>11, <1>12 DEF StopJob

LEMMA WaitKeeps ==
    ASSUME TypeOK, ServiceInv, Wait PROVE TypeOK' /\ ServiceInv'
<1>1. /\ todo # <<>> /\ CommandPlace /\ Proceed /\ Head(todo) = "wait" /\ job = "idle"
      /\ UNCHANGED <<backend, written, loaded, job, nodeVars, failures>>
  BY DEF Wait, Calling, ServiceInv, fileVars
<1>2. backend = "systemd"
  BY <1>1, CallTo, Zenon
<1>3. /\ todo' \in Seq(Call) /\ goal' \in {"none", "up", "down"} /\ last' \in Command
      /\ CommandPlace' /\ goal' # "up"
  BY <1>1, ProceedPlace
<1>4. TypeOK'
  BY <1>1, <1>3 DEF TypeOK, Proceed, nodeVars
<1> QED  BY <1>1, <1>2, <1>3, <1>4 DEF ServiceInv, DuePlace, SystemdPlace, Node!Alive, nodeVars

LEMMA TaskCallKeeps ==
    ASSUME TypeOK, ServiceInv, EndCall \/ KillName PROVE TypeOK' /\ ServiceInv'
<1>1. /\ todo # <<>> /\ CommandPlace /\ Proceed /\ Head(todo) \in {"end", "killname"}
      /\ UNCHANGED <<backend, written, loaded, failures>>
  BY DEF EndCall, KillName, Calling, ServiceInv, fileVars
<1>2. backend = "task"
  BY <1>1, CallTo, Zenon
<1>3. /\ todo' \in Seq(Call) /\ goal' \in {"none", "up", "down"} /\ last' \in Command
      /\ CommandPlace'
  BY <1>1, ProceedPlace
<1>4. /\ job' \in {"idle", "lost"}
      /\ phase' \in Node!Phase /\ asked' \in BOOLEAN /\ status' \in Node!Status
  BY DEF EndCall, KillName, TypeOK, nodeVars, Node!Kill, Node!End, Node!Phase, Node!Status
<1>5. TypeOK'
  BY <1>1, <1>3, <1>4 DEF TypeOK, Proceed, Job
<1> QED  BY <1>1, <1>2, <1>3, <1>4, <1>5 DEF ServiceInv, DuePlace
----------------------------------------------------------------------------
(* The user, the process and the managers by themselves.                   *)
LEMMA BeginKeeps ==
    ASSUME TypeOK, ServiceInv, NEW c \in Command, Begin(c) PROVE TypeOK' /\ ServiceInv'
<1>1. /\ todo = <<>> /\ last' = c /\ commands < MaxCommands /\ commands' = commands + 1
      /\ UNCHANGED <<backend, written, loaded, job, nodeVars, failures>>
  BY DEF Begin, fileVars
<1>2. backend \in Backend
  BY ServiceAssumption DEF TypeOK
<1>3. \/ todo' = Calls(c) /\ goal' = "none"
      \/ todo' = <<>> /\ goal' = goal
  BY <1>1 DEF Begin
<1>4. /\ Calls(c) \in Seq(CallsOf(backend))
      /\ c \in {"install", "up", "restart"} => Calls(c)[Len(Calls(c))] = "start"
      /\ c = "down" => Calls(c) \in {<<"term">>, <<"stop">>, <<"end", "killname">>}
  BY <1>2, CallsPlace
<1>5. todo' \in Seq(CallsOf(backend)) /\ todo' \in Seq(Call)
  <2>1. \A S : <<>> \in Seq(S)
    BY EmptySeq
  <2>2. Calls(c) \in Seq(Call)
    BY <1>2, <1>4, CallsTyped
  <2> QED  BY <1>3, <1>4, <2>1, <2>2, Zenon
<1>6. CommandPlace'
  BY <1>1, <1>3, <1>4, <1>5 DEF CommandPlace
<1>7. TypeOK'
  BY <1>1, <1>3, <1>5, ServiceAssumption DEF TypeOK, nodeVars
<1> QED  BY <1>1, <1>3, <1>6, <1>7 DEF ServiceInv, DuePlace, SystemdPlace, LaunchdPlace,
            Node!Alive, nodeVars

LEMMA StartDueKeeps ==
    ASSUME TypeOK, ServiceInv, StartDue PROVE TypeOK' /\ ServiceInv'
<1>1. job = "due" /\ job' = "active" /\ Node!Launch /\ UNCHANGED <<fileVars, userVars, failures>>
  BY DEF StartDue, Launch
<1>2. TypeOK'
  BY <1>1 DEF TypeOK, Job, fileVars, userVars, Node!Launch, Node!Phase, Node!Status
<1>3. CommandPlace'
  BY <1>1 DEF ServiceInv, CommandPlace, fileVars, userVars
<1> QED  BY <1>1, <1>2, <1>3 DEF ServiceInv, DuePlace, SystemdPlace, LaunchdPlace, Node!Alive,
            Node!Launch, fileVars, userVars

\* The process becomes ready, or ends by itself.
LEMMA ProcessKeeps ==
    ASSUME TypeOK, ServiceInv, Ready \/ Exits \/ Killed PROVE TypeOK' /\ ServiceInv'
<1>1. UNCHANGED <<backend, written, userVars>> /\ Node!Alive
  BY DEF Ready, Exits, Killed, fileVars, Node!Ready, Node!Exit, Node!Kill, Node!Alive
<1>2. CommandPlace'
  BY <1>1 DEF ServiceInv, CommandPlace, userVars
<1>3. CASE Ready
  <2>1. /\ phase' = "main" /\ UNCHANGED <<asked, status, fileVars, job, failures>>
    BY <1>3 DEF Ready, Node!Ready
  <2>2. TypeOK'
    BY <1>1, <2>1 DEF TypeOK, Node!Phase, fileVars, userVars
  <2> QED  BY <1>1, <1>2, <2>1, <2>2 DEF ServiceInv, DuePlace, SystemdPlace, LaunchdPlace,
              Node!Alive, fileVars, userVars
<1>4. CASE Exits \/ Killed
  <2>1. /\ phase' = "exited" /\ status' \in {"zero", "one", "killed"} /\ UNCHANGED asked
        /\ status' = "zero" => asked
        /\ failures' \in 0 .. MaxFailures /\ Settle(job)
    BY <1>4, ServiceAssumption DEF Exits, Killed, TypeOK, Node!Exit, Node!Kill, Node!End
  <2>2. /\ job' \in {"idle", "due"}
        /\ job' = "due" => job = "active" /\ status' # "zero"
        /\ job' = "idle" => job # "active" \/ status' = "zero" \/ backend = "task"
        /\ loaded' = (loaded /\ job # "leaving")
    BY <2>1 DEF Settle, AfterEnd
  <2>3. TypeOK'
    BY <1>1, <2>1, <2>2 DEF TypeOK, Job, Node!Phase, Node!Status, userVars
  <2>4. ~Node!Alive'
    BY <2>1 DEF Node!Alive
  <2> QED  BY <1>1, <1>2, <2>1, <2>2, <2>3, <2>4 DEF ServiceInv, DuePlace, SystemdPlace,
              LaunchdPlace, userVars
<1> QED  BY <1>3, <1>4

LEMMA LoginKeeps ==
    ASSUME TypeOK, ServiceInv, Login PROVE TypeOK' /\ ServiceInv'
<1>1. /\ todo = <<>> /\ commands < MaxCommands /\ commands' = commands + 1
      /\ phase' = "off" /\ asked' = FALSE /\ status' = "none" /\ loaded' \in BOOLEAN
      /\ job' = IF loaded' THEN "due" ELSE "idle"
      /\ goal' = IF loaded' THEN "up" ELSE "none"
      /\ UNCHANGED <<backend, written, todo, last, failures>>
  BY DEF Login, TypeOK
<1>2. TypeOK'
  <2>1. commands' \in 0 .. MaxCommands
    BY <1>1, ServiceAssumption DEF TypeOK
  <2>2. job' \in {"idle", "due"} /\ goal' \in {"up", "none"}
    BY <1>1
  <2>3. phase' \in Node!Phase /\ asked' \in BOOLEAN /\ status' \in Node!Status
    BY <1>1 DEF Node!Phase, Node!Status
  <2> QED  BY <1>1, <2>1, <2>2, <2>3 DEF TypeOK, Job
<1>3. CommandPlace'
  BY <1>1 DEF ServiceInv, CommandPlace
<1> QED  BY <1>1, <1>2, <1>3 DEF ServiceInv, DuePlace, SystemdPlace, LaunchdPlace, Node!Alive
----------------------------------------------------------------------------
(* The theorems.                                                           *)
LEMMA InitInv ==
    ASSUME Init PROVE TypeOK /\ ServiceInv
<1>1. TypeOK
  <2>1. 0 \in 0 .. MaxCommands /\ 0 \in 0 .. MaxFailures
    BY ServiceAssumption
  <2>2. phase \in Node!Phase /\ asked \in BOOLEAN /\ status \in Node!Status
    BY DEF Init, Node!Init, Node!Phase, Node!Status
  <2>3. job \in Job /\ last \in Command /\ todo \in Seq(Call)
    BY EmptySeq DEF Init, Job, Command
  <2> QED  BY <2>1, <2>2, <2>3 DEF Init, TypeOK
<1>2. CommandPlace
  BY EmptySeq DEF Init, CommandPlace
<1> QED  BY <1>1, <1>2 DEF Init, ServiceInv, DuePlace, SystemdPlace, LaunchdPlace, Node!Init,
            Node!Alive

LEMMA NextInv ==
    ASSUME TypeOK, ServiceInv, [Next]_vars PROVE TypeOK' /\ ServiceInv'
<1>1. ASSUME NEW c \in Command, Begin(c) PROVE TypeOK' /\ ServiceInv'
  BY <1>1, BeginKeeps
<1>2. CASE ManagerCall
  BY <1>2, CallFailsKeeps, FileCallKeeps, BootoutKeeps, BootstrapKeeps, StartCallKeeps,
     TermCallKeeps, StopCallKeeps, WaitKeeps, TaskCallKeeps DEF ManagerCall
<1>3. CASE StartDue
  BY <1>3, StartDueKeeps
<1>4. CASE Ready \/ Exits \/ Killed
  BY <1>4, ProcessKeeps
<1>5. CASE Login
  BY <1>5, LoginKeeps
<1>6. CASE UNCHANGED vars
  BY <1>6 DEF vars, fileVars, userVars, nodeVars, TypeOK, ServiceInv, CommandPlace, DuePlace,
     SystemdPlace, LaunchdPlace, Node!Alive
<1> QED  BY <1>1, <1>2, <1>3, <1>4, <1>5, <1>6 DEF Next

\* Every call a command makes is one of its manager's, and the variables keep
\* their types, whatever the user, the manager and the process do in between.
THEOREM ServiceInvHolds == Spec => [](TypeOK /\ ServiceInv)
<1>1. Init => TypeOK /\ ServiceInv
  BY InitInv
<1>2. TypeOK /\ ServiceInv /\ [Next]_vars => TypeOK' /\ ServiceInv'
  BY NextInv
<1> QED  BY <1>1, <1>2, PTL DEF Spec

\* A service that was started stays up and one that was stopped stays down, as far
\* as the units and the plist say so.
THEOREM GoalKeptHolds == Spec => []GoalKept
<1>1. TypeOK /\ ServiceInv => GoalKept
  BY ServiceAssumption DEF TypeOK, ServiceInv, SystemdPlace, LaunchdPlace, GoalKept, Backend
<1> QED  BY <1>1, ServiceInvHolds, PTL

\* After a ts_down only a process that failed or was killed comes back, and on
\* systemd none.
THEOREM OnlyFailuresRestartHolds == Spec => OnlyFailuresRestart
<1>1. ASSUME TypeOK, ServiceInv, [Next]_vars, Restarted
      PROVE  backend # "systemd" /\ status \in {"one", "killed"}
  <2>1. goal = "down" /\ goal' = "down" /\ ~Node!Alive /\ Node!Alive'
    BY <1>1 DEF Restarted
  <2>2. todo = <<>>
    BY <1>1, <2>1 DEF ServiceInv, CommandPlace
  <2>3. ~ManagerCall
    BY <2>2 DEF ManagerCall, CallFails, Write, Enable, Bootout, Bootstrap, StartCall, TermCall,
       StopCall, Wait, EndCall, KillName, Remove, Calling
  <2>4. /\ ~UNCHANGED vars /\ ~Ready /\ ~Exits /\ ~Killed /\ ~Login
        /\ \A c \in Command : ~Begin(c)
    BY <2>1 DEF vars, nodeVars, Begin, Ready, Exits, Killed, Login, Node!Ready, Node!Exit,
       Node!Kill, Node!End, Node!Alive
  <2>5. StartDue
    BY <1>1, <2>3, <2>4 DEF Next
  <2> QED  BY <1>1, <2>1, <2>5 DEF StartDue, ServiceInv, DuePlace, SystemdPlace
<1>2. TypeOK /\ ServiceInv /\ [Next]_vars
        => [Restarted => backend # "systemd" /\ status \in {"one", "killed"}]_vars
  BY <1>1
<1> QED  BY <1>2, ServiceInvHolds, PTL DEF Spec, OnlyFailuresRestart
=============================================================================
