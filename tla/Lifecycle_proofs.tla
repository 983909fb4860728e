-------------------------- MODULE Lifecycle_proofs --------------------------
(***************************************************************************)
(* Theorems about Lifecycle for every set of processes, addresses,         *)
(* preferences and settings.                                               *)
(***************************************************************************)
EXTENDS Lifecycle, FiniteSetTheorems, TLAPS

\* Every variable keeps its type (run.go, node.go, main.go): in particular the
\* channel errc never holds more than its capacity.
THEOREM TypeCorrect == Spec => []TypeOK
<1>1. Init => TypeOK
  BY LifecycleAssumption DEF Init, TypeOK, PC, NodeState, ServerState, Result, Exit, ErrcCap
<1>2. TypeOK /\ [Next]_vars => TypeOK'
  <2> SUFFICES ASSUME TypeOK, [Next]_vars PROVE TypeOK'
    OBVIOUS
  <2> USE LifecycleAssumption
      DEF TypeOK, PC, NodeState, ServerState, Result, Exit, ErrcCap,
          Resource, Listener, procVars, nodeVars, srvVars, Goto, Return, Fail
  <2>0. ASSUME NEW p \in Proc, NEW e \in Exit, End(p, e) PROVE TypeOK'
    <3>1. /\ node' \in [Proc -> NodeState]
          /\ hasDNS' \in [Proc -> BOOLEAN]
          /\ live' \in [Proc -> Prefs \cup {NoPrefs}]
      BY <2>0 DEF End
    <3>2. /\ srv' \in [Proc -> [Listener -> ServerState]]
          /\ errc' \in [Proc -> 0 .. ErrcCap]
      BY <2>0 DEF End
    <3> QED
      BY <2>0, <3>1, <3>2 DEF End
  <2>1. ASSUME NEW p \in Proc, MainStep(p) PROVE TypeOK'
    <3>1. CASE Boot(p)
      BY <3>1 DEF Boot
    <3>2. CASE Check(p)
      BY <3>2 DEF Check
    <3>3. CASE BindFails(p)
      BY <3>3 DEF BindFails
    <3>4. CASE AllBound(p)
      BY <3>4 DEF AllBound
    <3>5. CASE Build(p)
      BY <3>5 DEF Build
    <3>6. CASE BuildFails(p)
      BY <3>6 DEF BuildFails
    <3>7. ASSUME NEW k \in Listener, Bind(p, k) PROVE TypeOK'
      BY <3>7 DEF Bind
    <3>8. CASE JoinCanceled(p)
      BY <3>8 DEF JoinCanceled
    <3>9. CASE Attach(p)
      <4>1. /\ hasDNS' \in [Proc -> BOOLEAN]
            /\ defers' \in [Proc -> SUBSET Resource]
        BY <3>9, SMTT(60) DEF Attach
      <4>2. pc' \in [Proc -> PC]
        <5>1. \E l \in PC : pc' = [pc EXCEPT ![p] = l]
          BY <3>9 DEF Attach
        <5> QED
          BY <5>1
      <4>3. result' \in [Proc -> Result]
        BY <3>9, SMTT(60) DEF Attach
      <4> QED
        BY <3>9, <4>1, <4>2, <4>3 DEF Attach
    <3>10. CASE ApplyPrefs(p)
      BY <3>10, SMTT(60) DEF ApplyPrefs, StorePrefs, Settings
    <3>11. CASE ApplyPrefsFails(p)
      <4>1. conf[p].prefs \in Prefs
        BY DEF Settings
      <4>2. /\ saved' \in Prefs
            /\ live' \in [Proc -> Prefs \cup {NoPrefs}]
        BY <3>11, <4>1 DEF ApplyPrefsFails, StorePrefs
      <4>3. /\ pc' \in [Proc -> PC]
            /\ result' \in [Proc -> Result]
        BY <3>11 DEF ApplyPrefsFails
      <4> QED
        BY <3>11, <4>2, <4>3 DEF ApplyPrefsFails
    <3>12. CASE Abort(p)
      BY <3>12 DEF Abort, CloseStarted, TsClose
    <3>13. CASE HasDNS(p)
      BY <3>13 DEF HasDNS
    <3>14. CASE Describe(p)
      BY <3>14, SMTT(60) DEF Describe
    <3>15. CASE Serve(p)
      BY <3>15 DEF Serve
    <3>16. CASE SelectDone(p)
      BY <3>16 DEF SelectDone
    <3>17. CASE SelectErr(p)
      BY <3>17 DEF SelectErr
    <3>18. ASSUME NEW r \in Resource, Unwind(p, r) PROVE TypeOK'
      BY <3>18 DEF Unwind, TsClose
    <3>19. CASE ExitProcess(p)
      BY <3>19, <2>0 DEF ExitProcess, ExitStatus
    <3>20. CASE ParseFails(p)
      BY <3>20, <2>0 DEF ParseFails
    <3> QED
      BY <2>1, <3>1, <3>2, <3>3, <3>4, <3>5, <3>6, <3>7, <3>8, <3>9, <3>10, <3>11, <3>12,
         <3>13, <3>14, <3>15, <3>16, <3>17, <3>18, <3>19, <3>20 DEF MainStep
  <2>2. ASSUME NEW p \in Proc, Join(p) PROVE TypeOK'
    BY <2>2 DEF Join, JoinUp, JoinFails
  <2>3. ASSUME NEW p \in Proc, ServerStep(p) PROVE TypeOK'
    <3>1. ASSUME NEW k \in Listener, ServerFails(p, k) PROVE TypeOK'
      BY <3>1 DEF ServerFails
    <3>2. ASSUME NEW k \in Listener, ServerSends(p, k) PROVE TypeOK'
      BY <3>2, SMTT(60) DEF ServerSends
    <3> QED
      BY <2>3, <3>1, <3>2 DEF ServerStep
  <2>4. ASSUME NEW p \in Proc, Environment(p) PROVE TypeOK'
    <3>1. ASSUME NEW command \in {"run", "status"}, NEW c \in Config, Launch(p, command, c)
          PROVE TypeOK'
      BY <3>1 DEF Launch
    <3>2. CASE Signal(p)
      BY <3>2, <2>0 DEF Signal
    <3>3. CASE Crash(p)
      BY <3>3, <2>0 DEF Crash
    <3> QED
      BY <2>4, <3>1, <3>2, <3>3 DEF Environment
  <2>5. CASE UNCHANGED vars
    BY <2>5 DEF vars
  <2> QED
    BY <2>1, <2>2, <2>3, <2>4, <2>5 DEF Next
<1> QED
  BY <1>1, <1>2, PTL DEF Spec

\* What a step of one process leaves alone: everything another process reads of
\* its own.
Same(q) ==
    /\ cmd'[q] = cmd[q]
    /\ conf'[q] = conf[q]
    /\ pc'[q] = pc[q]
    /\ signalled'[q] = signalled[q]
    /\ defers'[q] = defers[q]
    /\ node'[q] = node[q]
    /\ hasDNS'[q] = hasDNS[q]
    /\ live'[q] = live[q]
    /\ srv'[q] = srv[q]
    /\ errc'[q] = errc[q]
    /\ result'[q] = result[q]
    /\ exit'[q] = exit[q]

LEMMA SamePlace == ASSUME NEW q \in Proc, Place(q), Same(q) PROVE Place(q)'
<1> USE DEF Same, NodeLive, OpenSockets
<1>1. NodePlace(q)'
  BY DEF Place, NodePlace
<1>2. SocketPlace(q)'
  BY DEF Place, SocketPlace
<1>3. ServingPlace(q)'
  BY DEF Place, ServingPlace
<1>4. ResultPlace(q)'
  BY DEF Place, ResultPlace
<1>5. ErrcPlace(q)'
  BY DEF Place, ErrcPlace
<1> QED
  BY <1>1, <1>2, <1>3, <1>4, <1>5 DEF Place

\* node.Close is registered last, hence runs first.
LEMMA NodeClosesFirst == \A k \in Listener : ~(Rank["node"] <= Rank[k])
<1>1. Rank["node"] = 5
  BY DEF Rank, Resource, Listener
<1>2. \A k \in Listener : Rank[k] \in 1 .. 4
  BY DEF Rank, Resource, Listener
<1> QED
  BY <1>1, <1>2

\* The places of the main goroutine keep their meaning in a step of the process.
LEMMA MainStepPlace ==
    ASSUME TypeOK, NEW p \in Proc, Place(p), MainStep(p) PROVE Place(p)'
<1> USE DEF TypeOK, procVars, nodeVars, srvVars, Goto, Return, Fail
<1> USE DEF Place, NodePlace, SocketPlace, ServingPlace, ResultPlace, ErrcPlace, BeforeNode, AfterStart,
            InStart, NodeLive, OpenSockets, Listener, Resource
<1>1. CASE Boot(p)
  BY <1>1 DEF Boot
<1>2. CASE Check(p)
  BY <1>2 DEF Check
<1>3. CASE BindFails(p)
  BY <1>3 DEF BindFails
<1>4. CASE AllBound(p)
  BY <1>4 DEF AllBound
<1>5. CASE Build(p)
  BY <1>5 DEF Build
<1>6. CASE BuildFails(p)
  BY <1>6 DEF BuildFails
<1>7. ASSUME NEW k \in Listener, Bind(p, k) PROVE Place(p)'
  BY <1>7 DEF Bind, IsNextToBind, Rank
<1>8. CASE JoinCanceled(p)
  BY <1>8 DEF JoinCanceled
<1>9. CASE Attach(p)
  BY <1>9 DEF Attach
<1>10. CASE ApplyPrefs(p)
  BY <1>10 DEF ApplyPrefs, StorePrefs
<1>11. CASE ApplyPrefsFails(p)
  BY <1>11 DEF ApplyPrefsFails, StorePrefs
<1>12. CASE Abort(p)
  BY <1>12 DEF Abort, CloseStarted, TsClose
<1>13. CASE HasDNS(p)
  BY <1>13 DEF HasDNS
<1>14. CASE Describe(p)
  BY <1>14 DEF Describe
<1>15. CASE Serve(p)
  <2>1. NodePlace(p)'
    BY <1>15 DEF Serve
  <2>2. SocketPlace(p)'
    BY <1>15 DEF Serve
  <2>3. ServingPlace(p)'
    <3>1. \A k \in Listener : srv'[p][k] # "off" => k \in Enabled(conf[p])
      BY <1>15 DEF Serve
    <3>2. pc'[p] = "select" /\ UNCHANGED <<cmd, conf, live, hasDNS>>
      BY <1>15 DEF Serve
    <3>3. cmd[p] = "run" /\ pc[p] = "serve"
      BY <1>15 DEF Serve
    <3> QED
      BY <3>1, <3>2, <3>3
  <2>4. ResultPlace(p)'
    BY <1>15 DEF Serve
  <2>5. ErrcPlace(p)'
    BY <1>15 DEF Serve
  <2> QED
    BY <2>1, <2>2, <2>3, <2>4, <2>5
<1>16. CASE SelectDone(p)
  <2>1. NodePlace(p)'
    BY <1>16 DEF SelectDone
  <2>2. SocketPlace(p)'
    BY <1>16 DEF SelectDone
  <2>3. ServingPlace(p)'
    BY <1>16 DEF SelectDone
  <2>4. ResultPlace(p)'
    BY <1>16 DEF SelectDone
  <2>5. ErrcPlace(p)'
    BY <1>16 DEF SelectDone
  <2> QED
    BY <2>1, <2>2, <2>3, <2>4, <2>5
<1>17. CASE SelectErr(p)
  <2>1. NodePlace(p)'
    BY <1>17 DEF SelectErr
  <2>2. SocketPlace(p)'
    BY <1>17 DEF SelectErr
  <2>3. ServingPlace(p)'
    BY <1>17 DEF SelectErr
  <2>4. ResultPlace(p)'
    BY <1>17 DEF SelectErr
  <2>5. ErrcPlace(p)'
    BY <1>17 DEF SelectErr
  <2> QED
    BY <2>1, <2>2, <2>3, <2>4, <2>5
<1>18. ASSUME NEW r \in Resource, Unwind(p, r) PROVE Place(p)'
  <2>1. CASE r = "node"
    <3>1. node'[p] = "closed" /\ defers'[p] = defers[p] \ {"node"} /\ pc'[p] = "unwind"
      BY <1>18, <2>1 DEF Unwind, TsClose, IsNextDeferred
    <3>2. NodePlace(p)' /\ SocketPlace(p)'
      BY <1>18, <3>1 DEF Unwind
    <3>3. ServingPlace(p)'
      <4>1. srv' = srv /\ cmd' = cmd /\ conf' = conf /\ pc' = pc
        BY <1>18 DEF Unwind
      <4> QED
        BY <4>1, <3>1
    <3>4. ResultPlace(p)' /\ ErrcPlace(p)'
      BY <1>18, <3>1 DEF Unwind
    <3> QED
      BY <3>2, <3>3, <3>4
  <2>2. CASE r # "node"
    <3>1. "node" \notin defers[p]
      BY <1>18, <2>2, NodeClosesFirst DEF Unwind, IsNextDeferred
    <3> QED
      BY <1>18, <2>2, <3>1 DEF Unwind
  <2> QED
    BY <2>1, <2>2
<1>19. CASE ExitProcess(p)
  BY <1>19 DEF ExitProcess, ExitStatus, End
<1>20. CASE ParseFails(p)
  BY <1>20 DEF ParseFails, End
<1> QED
  BY <1>1, <1>2, <1>3, <1>4, <1>5, <1>6, <1>7, <1>8, <1>9, <1>10, <1>11, <1>12, <1>13, <1>14, <1>15, <1>16, <1>17, <1>18, <1>19, <1>20 DEF MainStep

\* So do the steps of its servers, of the login and of its surroundings.
LEMMA OtherStepPlace ==
    ASSUME TypeOK, NEW p \in Proc, Place(p), Join(p) \/ ServerStep(p) \/ Environment(p)
    PROVE  Place(p)'
<1> USE DEF TypeOK, procVars, nodeVars, srvVars, Goto, Return, Fail
<1> USE DEF Place, NodePlace, SocketPlace, ServingPlace, ResultPlace, ErrcPlace, BeforeNode, AfterStart,
            InStart, NodeLive, OpenSockets, Listener, Resource, Running
<1>1. CASE JoinUp(p)
  BY <1>1 DEF JoinUp
<1>2. CASE JoinFails(p)
  BY <1>2 DEF JoinFails
<1>3. ASSUME NEW k \in Listener, ServerFails(p, k) PROVE Place(p)'
  BY <1>3 DEF ServerFails
<1>4. ASSUME NEW k \in Listener, ServerSends(p, k) PROVE Place(p)'
  <2>1. NodePlace(p)' /\ SocketPlace(p)' /\ ServingPlace(p)' /\ ResultPlace(p)'
    BY <1>4 DEF ServerSends
  <2>2. errc'[p] > 0
    BY <1>4 DEF ServerSends, ErrcCap
  <2> QED
    BY <2>1, <2>2
<1>5. ASSUME NEW command \in {"run", "status"}, NEW c \in Config, Launch(p, command, c)
      PROVE  Place(p)'
  BY <1>5 DEF Launch
<1>6. ASSUME End(p, "killed") PROVE Place(p)'
  BY <1>6 DEF End
<1>7. CASE Signal(p)
  BY <1>6, <1>7 DEF Signal
<1>8. CASE Crash(p)
  BY <1>6, <1>8 DEF Crash
<1> QED
  BY <1>1, <1>2, <1>3, <1>4, <1>5, <1>7, <1>8 DEF Join, ServerStep, Environment

\* A step of one process touches no variable of another.
LEMMA StepSame ==
    ASSUME TypeOK, NEW p \in Proc, NEW q \in Proc, p # q,
           MainStep(p) \/ Join(p) \/ ServerStep(p) \/ Environment(p)
    PROVE  Same(q)
<1> USE DEF TypeOK, procVars, nodeVars, srvVars, Goto, Return, Fail, Same
<1>1. CASE MainStep(p)
  BY <1>1 DEF MainStep, Boot, Check, BindFails, AllBound, Build, BuildFails, Bind, JoinCanceled,
              Attach, ApplyPrefs, ApplyPrefsFails, StorePrefs, Abort, HasDNS, Describe, Serve,
              SelectDone, SelectErr, Unwind, ExitProcess, ParseFails, End
<1>2. CASE Join(p)
  BY <1>2 DEF Join, JoinUp, JoinFails
<1>3. CASE ServerStep(p)
  BY <1>3 DEF ServerStep, ServerFails, ServerSends
<1>4. CASE Environment(p)
  BY <1>4 DEF Environment, Launch, Signal, Crash, End
<1> QED
  BY <1>1, <1>2, <1>3, <1>4


\* Sockets stay exclusive when none is opened and the settings of a process that
\* holds one do not change.
LEMMA SocketsShrink ==
    ASSUME SocketsExclusive,
           \A q \in Proc : OpenSockets(q)' \subseteq OpenSockets(q),
           \A q \in Proc : OpenSockets(q)' # {} => conf'[q] = conf[q]
    PROVE  SocketsExclusive'
BY DEF SocketsExclusive, EndpointOf, Address

LEMMA BindExclusive ==
    ASSUME TypeOK, NEW p \in Proc, NEW k \in Listener, SocketsExclusive, Bind(p, k)
    PROVE  SocketsExclusive'
<1>1. /\ OpenSockets(p)' \subseteq OpenSockets(p) \cup {k}
      /\ \A q \in Proc \ {p} : OpenSockets(q)' = OpenSockets(q)
      /\ conf' = conf
  BY DEF Bind, OpenSockets, GaveUp, TypeOK, procVars, srvVars
<1>2. \A q \in Proc : \A j \in OpenSockets(q) : EndpointOf(conf[q], j) # EndpointOf(conf[p], k)
  BY DEF Bind, Free
<1> SUFFICES ASSUME NEW q \in Proc, NEW r \in Proc, q # r,
                    NEW i \in OpenSockets(q)', NEW j \in OpenSockets(r)'
             PROVE  EndpointOf(conf[q], i) # EndpointOf(conf[r], j)
  BY <1>1 DEF SocketsExclusive, EndpointOf, Address
<1>3. CASE q = p /\ i = k
  BY <1>1, <1>2, <1>3
<1>4. CASE r = p /\ j = k
  BY <1>1, <1>2, <1>4
<1>5. CASE i \in OpenSockets(q) /\ j \in OpenSockets(r)
  BY <1>5 DEF SocketsExclusive
<1> QED
  BY <1>1, <1>3, <1>4, <1>5

\* What a server has closed stays closed in the steps of servers.
LEMMA GaveUpGrows ==
    ASSUME TypeOK, NEW p \in Proc, NEW k \in Listener, ServerFails(p, k) \/ ServerSends(p, k),
           NEW q \in Proc
    PROVE  GaveUp(q) \subseteq GaveUp(q)'
<1> SUFFICES ASSUME NEW j \in GaveUp(q) PROVE j \in GaveUp(q)'
  OBVIOUS
<1>1. j \in ClosesItself /\ j \in Listener /\ srv[q][j] \in {"sending", "done"}
  BY DEF GaveUp, ClosesItself, Listener
<1>2. srv'[q][j] = srv[q][j] \/ srv'[q][j] \in {"sending", "done"}
  BY <1>1 DEF ServerFails, ServerSends, TypeOK
<1> QED
  BY <1>1, <1>2 DEF GaveUp

\* A step that opens no socket of p: it defers at most node.Close, and no server
\* that closed its listener is forgotten.
LEMMA NothingOpened ==
    ASSUME TypeOK, SocketsExclusive, NEW p \in Proc, conf' = conf,
           NEW s \in SUBSET (defers[p] \cup {"node"}), defers' = [defers EXCEPT ![p] = s],
           \/ srv' = srv
           \/ s = {} /\ \A q \in Proc : q # p => srv'[q] = srv[q]
    PROVE  SocketsExclusive'
<1>1. \A q \in Proc : OpenSockets(q)' \subseteq OpenSockets(q)
  BY DEF OpenSockets, GaveUp, TypeOK, Listener
<1> QED
  BY <1>1, SocketsShrink

LEMMA StepExclusive ==
    ASSUME TypeOK, LifecycleInv, NEW p \in Proc,
           MainStep(p) \/ Join(p) \/ ServerStep(p) \/ Environment(p)
    PROVE  SocketsExclusive'
<1> USE DEF LifecycleInv, procVars, srvVars
<1>1. ASSUME NEW k \in Listener, Bind(p, k) PROVE SocketsExclusive'
  BY <1>1, BindExclusive
<1>2. CASE UNCHANGED <<defers, conf, srv>>
  BY <1>2, SocketsShrink DEF OpenSockets, GaveUp
<1>3. ASSUME NEW e, End(p, e) PROVE SocketsExclusive'
  <2>1. /\ conf' = conf /\ defers' = [defers EXCEPT ![p] = {}]
        /\ \A q \in Proc : q # p => srv'[q] = srv[q]
    BY <1>3 DEF End, TypeOK
  <2> QED
    BY <2>1, NothingOpened
<1>4. ASSUME NEW command \in {"run", "status"}, NEW c \in Config, Launch(p, command, c)
      PROVE  SocketsExclusive'
  <2>1. UNCHANGED <<defers, srv>> /\ defers[p] = {}
    BY <1>4 DEF Launch, Running, Place, SocketPlace
  <2>2. \A q \in Proc : q # p => conf'[q] = conf[q]
    BY <1>4 DEF Launch, TypeOK
  <2> QED
    BY <2>1, <2>2, SocketsShrink DEF OpenSockets, GaveUp
<1>5. CASE Attach(p) \/ ApplyPrefs(p) \/ \E r \in Resource : Unwind(p, r)
  <2>1. /\ UNCHANGED <<conf, srv>>
        /\ \E s \in SUBSET (defers[p] \cup {"node"}) :
              defers' = defers \/ defers' = [defers EXCEPT ![p] = s]
    BY <1>5 DEF Attach, ApplyPrefs, Unwind
  <2> QED
    BY <1>2, <2>1, NothingOpened
<1>6. CASE Serve(p)
  <2>1. /\ UNCHANGED <<conf, defers>> /\ \A q \in Proc : q # p => srv'[q] = srv[q]
        /\ \A k \in Listener : srv[p][k] = "off"
    BY <1>6 DEF Serve, TypeOK, Place, ServingPlace
  <2>2. \A q \in Proc : OpenSockets(q)' \subseteq OpenSockets(q)
    BY <2>1 DEF OpenSockets, GaveUp, ClosesItself, Listener
  <2> QED
    BY <2>1, <2>2, SocketsShrink
<1>7. CASE ServerStep(p)
  <2>1. UNCHANGED <<conf, defers>>
    BY <1>7 DEF ServerStep, ServerFails, ServerSends
  <2>2. \A q \in Proc : GaveUp(q) \subseteq GaveUp(q)'
    BY <1>7, GaveUpGrows DEF ServerStep
  <2>3. \A q \in Proc : OpenSockets(q)' \subseteq OpenSockets(q)
    BY <2>1, <2>2 DEF OpenSockets
  <2> QED
    BY <2>1, <2>3, SocketsShrink
<1>8. CASE Join(p)
  BY <1>2, <1>8 DEF Join, JoinUp, JoinFails
<1>9. CASE Environment(p)
  BY <1>2, <1>3, <1>4, <1>9 DEF Environment, Signal, Crash
<1>10. CASE MainStep(p)
  <2>1. CASE ParseFails(p) \/ ExitProcess(p)
    BY <1>3, <2>1 DEF ParseFails, ExitProcess
  <2> QED
    BY <1>1, <1>2, <1>5, <1>6, <1>10, <2>1
       DEF MainStep, Boot, Check, BindFails, AllBound, Build, BuildFails, JoinCanceled,
           ApplyPrefsFails, Abort, HasDNS, Describe, SelectDone, SelectErr
<1> QED
  BY <1>7, <1>8, <1>9, <1>10

\* The inductive invariant of the processes (run.go, node.go, main.go).
THEOREM InvHolds == Spec => []LifecycleInv
<1>1. Init => LifecycleInv
  BY DEF Init, LifecycleInv, SocketsExclusive, OpenSockets, Place, NodePlace, SocketPlace,
         ServingPlace, ResultPlace, ErrcPlace, BeforeNode, AfterStart, InStart
<1>2. TypeOK /\ LifecycleInv /\ [Next]_vars => LifecycleInv'
  <2> SUFFICES ASSUME TypeOK, LifecycleInv, [Next]_vars PROVE LifecycleInv'
    OBVIOUS
  <2>1. ASSUME NEW p \in Proc, MainStep(p) \/ Join(p) \/ ServerStep(p) \/ Environment(p)
        PROVE  LifecycleInv'
    <3>1. Place(p)'
      BY <2>1, MainStepPlace, OtherStepPlace DEF LifecycleInv
    <3>2. \A q \in Proc : q # p => Place(q)'
      BY <2>1, StepSame, SamePlace DEF LifecycleInv
    <3>3. SocketsExclusive'
      BY <2>1, StepExclusive
    <3> QED
      BY <3>1, <3>2, <3>3 DEF LifecycleInv
  <2>2. CASE UNCHANGED vars
    <3>1. \A q \in Proc : Place(q)'
      BY <2>2, SamePlace DEF LifecycleInv, Same, vars
    <3>2. SocketsExclusive'
      BY <2>2, SocketsShrink DEF LifecycleInv, vars, OpenSockets, GaveUp
    <3> QED
      BY <3>1, <3>2 DEF LifecycleInv
  <2> QED
    BY <2>1, <2>2 DEF Next
<1> QED
  BY <1>1, <1>2, TypeCorrect, PTL DEF Spec

\* While the node of a run is live, every listener's Close is still deferred, so a
\* socket is missing only if its server closed it (run.go:30-63, 87-98); and then
\* main has an error to read, or has read one.
LEMMA Holding == TypeOK /\ LifecycleInv => HoldsListenersWhileJoined
<1> SUFFICES ASSUME TypeOK, LifecycleInv, NEW p \in Proc, cmd[p] = "run", NodeLive(p),
                    NEW k \in Enabled(conf[p]) \ OpenSockets(p)
             PROVE  k \in GaveUp(p) /\ Leaving(p)
  BY DEF HoldsListenersWhileJoined
<1>1. Enabled(conf[p]) \subseteq defers[p]
  <2>1. pc[p] \in InStart \cup AfterStart \cup {"unwind"} /\ (pc[p] = "unwind" => "node" \in defers[p])
    BY DEF TypeOK, PC, LifecycleInv, Place, NodePlace, NodeLive, AfterStart, InStart, BeforeNode
  <2> QED
    BY <2>1 DEF LifecycleInv, Place, SocketPlace
<1>2. k \in GaveUp(p)
  BY <1>1 DEF OpenSockets, Enabled
<1>3. k \in Listener /\ srv[p][k] \in {"sending", "done"}
  BY <1>2 DEF GaveUp, ClosesItself, Listener
<1>4. pc[p] \in {"select", "unwind"}
  BY <1>3 DEF LifecycleInv, Place, ServingPlace
<1>5. Leaving(p)
  BY <1>3, <1>4 DEF LifecycleInv, Place, ErrcPlace, Leaving
<1> QED
  BY <1>2, <1>5

\* Two runs that want a common listener share the login only while one of them, whose
\* server closed that listener, is on its way out (docs/service.md:53).
THEOREM OneLoginHolds == Spec => []OneLogin
<1>1. TypeOK /\ LifecycleInv => OneLogin
  <2> SUFFICES ASSUME TypeOK, LifecycleInv, NEW p \in Proc, NEW q \in Proc, p # q,
                      cmd[p] = "run", cmd[q] = "run", NodeLive(p), NodeLive(q),
                      NEW e \in Endpoints(conf[p]) \cap Endpoints(conf[q])
               PROVE  \/ e \in GivenUp(p) /\ Leaving(p)
                      \/ e \in GivenUp(q) /\ Leaving(q)
    BY DEF OneLogin
  <2>1. PICK k \in Enabled(conf[p]), j \in Enabled(conf[q]) :
            e = EndpointOf(conf[p], k) /\ e = EndpointOf(conf[q], j)
    BY DEF Endpoints
  <2>2. ~(k \in OpenSockets(p) /\ j \in OpenSockets(q))
    BY <2>1 DEF LifecycleInv, SocketsExclusive
  <2>3. CASE k \notin OpenSockets(p)
    BY <2>1, <2>3, Holding DEF HoldsListenersWhileJoined, GivenUp
  <2>4. CASE j \notin OpenSockets(q)
    BY <2>1, <2>4, Holding DEF HoldsListenersWhileJoined, GivenUp
  <2> QED
    BY <2>2, <2>3, <2>4
<1> QED
  BY <1>1, TypeCorrect, InvHolds, PTL

\* A run is on the tailnet only while it holds its sockets, but for what a failed
\* server closed on the way out (run.go:30-63, 87-112).
THEOREM HoldsListenersHolds == Spec => []HoldsListenersWhileJoined
  BY Holding, TypeCorrect, InvHolds, PTL

\* What is served goes over a node with the preferences of the command line, and
\* DNS only over one that has the tailnet's configuration (run.go:26-28, 75-77).
THEOREM ServedAsAskedHolds == Spec => []ServedAsAsked
<1>1. TypeOK /\ LifecycleInv => ServedAsAsked
  <2> SUFFICES ASSUME TypeOK, LifecycleInv, NEW p \in Proc, NEW k \in Listener,
                      srv[p][k] # "off", NodeLive(p)
               PROVE  /\ node[p] = "up"
                      /\ live[p] = conf[p].prefs
                      /\ k \in {"dnsudp", "dnstcp"} => hasDNS[p] /\ live[p] \in AcceptDNS
    BY DEF ServedAsAsked
  <2>1. pc[p] \in {"select", "unwind"} /\ cmd[p] = "run" /\ k \in Enabled(conf[p])
    BY DEF LifecycleInv, Place, ServingPlace
  <2>2. node[p] = "up" /\ "node" \in defers[p]
    BY <2>1 DEF LifecycleInv, Place, NodePlace, NodeLive, AfterStart
  <2>3. /\ ~Refused(conf[p])
        /\ live[p] = conf[p].prefs
        /\ conf[p].dns # NoAddr => hasDNS[p]
    BY <2>1, <2>2 DEF LifecycleInv, Place, ServingPlace, AfterStart
  <2>4. k \in {"dnsudp", "dnstcp"} => conf[p].dns # NoAddr
    BY <2>1 DEF Enabled, Address
  <2> QED
    BY <2>2, <2>3, <2>4 DEF Refused
<1> QED
  BY <1>1, InvHolds, TypeCorrect, PTL

\* A run that exits 0 was signalled (run.go:106-112, main.go:57-63).
THEOREM CleanExitHolds == Spec => []CleanExitWasAsked
<1>1. LifecycleInv => CleanExitWasAsked
  BY DEF LifecycleInv, Place, ResultPlace, CleanExitWasAsked
<1> QED
  BY <1>1, InvHolds, PTL

\* A process that ends by itself closed its node (node.go:97, 154-158; run.go:73).
THEOREM LeavesTailnetHolds == Spec => []LeavesTailnet
<1>1. LifecycleInv => LeavesTailnet
  BY DEF LifecycleInv, Place, ResultPlace, LeavesTailnet
<1> QED
  BY <1>1, InvHolds, PTL

\* A step inside main changes nothing a service manager sees.
LEMMA InsideMain ==
    ASSUME NEW p \in Proc, pc[p] \notin {"off", "boot", "exited"},
           pc'[p] \notin {"off", "boot", "exited"},
           cmd'[p] = cmd[p], signalled'[p] = signalled[p], exit'[p] = exit[p]
    PROVE  UNCHANGED ProcessOf(p)!vars
BY DEF ProcessOf!vars

\* The end of a process with status e.
LEMMA EndOfLife ==
    ASSUME TypeOK, NEW p \in Proc, NEW e \in {"zero", "one", "killed"}, End(p, e)
    PROVE  /\ cmd' = cmd /\ signalled' = signalled
           /\ pc'[p] = "exited" /\ exit'[p] = e
BY DEF TypeOK, End, Goto, procVars

\* A step of a process is a step of ProcessLife, or none.
LEMMA StepOfLife ==
    ASSUME TypeOK, NEW p \in Proc, Place(p),
           MainStep(p) \/ Join(p) \/ ServerStep(p) \/ Environment(p)
    PROVE  [ProcessOf(p)!Next]_(ProcessOf(p)!vars)
<1> USE DEF TypeOK, procVars, nodeVars, srvVars, Goto, Return, Fail
<1> USE DEF ProcessOf!Next, ProcessOf!vars
<1>1. CASE Boot(p)
  BY <1>1 DEF Boot, ProcessOf!Ready
<1>2. CASE ParseFails(p)
  BY <1>2, EndOfLife DEF ParseFails, ProcessOf!Exit, ProcessOf!End, ProcessOf!Alive,
                         ProcessOf!Status
<1>3. CASE \/ Check(p) \/ BindFails(p) \/ AllBound(p) \/ Build(p) \/ BuildFails(p)
           \/ (\E k \in Listener : Bind(p, k)) \/ Abort(p) \/ HasDNS(p) \/ Serve(p)
           \/ SelectDone(p) \/ SelectErr(p) \/ JoinCanceled(p) \/ Join(p)
  BY <1>3, InsideMain
     DEF Check, BindFails, AllBound, Build, BuildFails, Bind, Abort, HasDNS, Serve, SelectDone,
         SelectErr, JoinCanceled, Join, JoinUp, JoinFails
<1>4. CASE \/ Attach(p) \/ ApplyPrefs(p) \/ ApplyPrefsFails(p) \/ Describe(p)
           \/ \E r \in Resource : Unwind(p, r)
  BY <1>4, InsideMain DEF Attach, ApplyPrefs, ApplyPrefsFails, Describe, Unwind
<1>5. CASE ExitProcess(p)
  <2>1. result[p] \in {"nil", "canceled"} /\ cmd[p] = "run" => signalled[p]
    BY <1>5 DEF ExitProcess, Place, ResultPlace
  <2>2. pc[p] = "unwind" /\ End(p, ExitStatus(result[p]))
    BY <1>5 DEF ExitProcess
  <2> QED
    BY <2>1, <2>2, EndOfLife DEF ExitStatus, ProcessOf!Exit, ProcessOf!End, ProcessOf!Alive,
                                 ProcessOf!Status
<1>6. CASE ServerStep(p)
  BY <1>6 DEF ServerStep, ServerFails, ServerSends
<1>7. CASE Signal(p)
  BY <1>7, EndOfLife DEF Signal, Running, ProcessOf!Signal, ProcessOf!End
<1>8. CASE Crash(p)
  BY <1>8, EndOfLife DEF Crash, Running, ProcessOf!Kill, ProcessOf!End, ProcessOf!Alive
<1>9. ASSUME NEW command \in {"run", "status"}, NEW c \in Config, Launch(p, command, c)
      PROVE  [ProcessOf(p)!Next]_(ProcessOf(p)!vars)
  <2>1. /\ cmd'[p] = command /\ pc'[p] = "boot" /\ ~signalled'[p] /\ exit'[p] = "none"
        /\ pc[p] \in {"off", "exited"}
    BY <1>9 DEF Launch, Running
  <2>2. pc[p] = "off" => exit[p] = "none"
    BY DEF Place, ResultPlace
  <2>3. CASE command = "run"
    BY <2>1, <2>3 DEF ProcessOf!Launch, ProcessOf!Alive
  <2>4. CASE command = "status"
    BY <2>1, <2>2, <2>4 DEF ProcessOf!Forget
  <2> QED
    BY <2>3, <2>4
<1> QED
  BY <1>1, <1>2, <1>3, <1>4, <1>5, <1>6, <1>7, <1>8, <1>9 DEF MainStep, Environment

\* Every `run' lives the life of ProcessLife (main.go:32-64), for any number of
\* processes: the contract of the restart policies.
THEOREM ProcessRefined == Spec => RefinesProcess
<1>1. Init => \A p \in Proc : ProcessOf(p)!Init
  BY DEF Init, ProcessOf!Init
<1>2. /\ TypeOK /\ LifecycleInv /\ [Next]_vars
      => [\A p \in Proc : [ProcessOf(p)!Next]_(ProcessOf(p)!vars)]_vars
  <2> SUFFICES ASSUME TypeOK, LifecycleInv, [Next]_vars, NEW q \in Proc
               PROVE  [ProcessOf(q)!Next]_(ProcessOf(q)!vars)
    OBVIOUS
  <2>1. CASE UNCHANGED vars
    BY <2>1 DEF vars, ProcessOf!vars
  <2>2. ASSUME NEW p \in Proc, MainStep(p) \/ Join(p) \/ ServerStep(p) \/ Environment(p)
        PROVE  [ProcessOf(q)!Next]_(ProcessOf(q)!vars)
    <3>1. CASE p = q
      BY <2>2, <3>1, StepOfLife DEF LifecycleInv
    <3>2. CASE p # q
      BY <2>2, <3>2, StepSame DEF Same, ProcessOf!vars
    <3> QED
      BY <3>1, <3>2
  <2> QED
    BY <2>1, <2>2 DEF Next
<1> QED
  BY <1>1, <1>2, TypeCorrect, InvHolds, PTL DEF Spec, RefinesProcess

\* What a step of p changes of the session, and where it does not.
LEMMA SessionStep ==
    ASSUME NEW p \in Proc, \A q \in Proc : q # p => Same(q)
    PROVE  /\ [q \in Proc |-> StateOf(q)'] = [[q \in Proc |-> StateOf(q)] EXCEPT ![p] = StateOf(p)']
           /\ [q \in Proc |-> ClaimOf(q)'] = [[q \in Proc |-> ClaimOf(q)] EXCEPT ![p] = ClaimOf(p)']
           /\ [q \in Proc |-> WantOf(q)']  = [[q \in Proc |-> WantOf(q)]  EXCEPT ![p] = WantOf(p)']
<1>1. ASSUME NEW q \in Proc, q # p
      PROVE  StateOf(q)' = StateOf(q) /\ ClaimOf(q)' = ClaimOf(q) /\ WantOf(q)' = WantOf(q)
  <2>1. /\ node'[q] = node[q] /\ srv'[q] = srv[q] /\ cmd'[q] = cmd[q] /\ conf'[q] = conf[q]
        /\ defers'[q] = defers[q]
    BY <1>1 DEF Same
  <2>2. NodeLive(q)' <=> NodeLive(q)
    BY <2>1 DEF NodeLive
  <2>3. Held(q)' = Held(q)
    BY <2>1 DEF Held, OpenSockets, GaveUp
  <2> QED
    BY <2>1, <2>2, <2>3 DEF StateOf, ClaimOf, WantOf
<1> QED
  BY <1>1

\* A step that leaves node, preferences, settings and servers as they are to the session.
LEMMA SessionStutter ==
    ASSUME NEW p \in Proc, \A q \in Proc : q # p => Same(q),
           StateOf(p)' = StateOf(p), ClaimOf(p)' = ClaimOf(p), WantOf(p)' = WantOf(p),
           UNCHANGED <<live, saved>>
    PROVE  UNCHANGED Session!vars
BY SessionStep DEF Session!vars

LEMMA SessionLeave ==
    ASSUME TypeOK, NEW p \in Proc, \A q \in Proc : q # p => Same(q), Place(p),
           ~NodeLive(p)', live' = [live EXCEPT ![p] = NoPrefs], saved' = saved
    PROVE  [Session!Next]_(Session!vars)
<1>1. StateOf(p)' = "out" /\ ClaimOf(p)' = {} /\ WantOf(p)' = NoPrefs
  BY DEF StateOf, ClaimOf, WantOf
<1>2. CASE NodeLive(p)
  <2>1. StateOf(p) # "out"
    BY <1>2 DEF StateOf
  <2>2. Session!Leave(p)
    BY <1>1, <2>1, SessionStep DEF Session!Leave
  <2> QED
    BY <2>2 DEF Session!Next
<1>3. CASE ~NodeLive(p)
  <2>1. live' = live
    BY <1>3 DEF TypeOK, Place, NodePlace
  <2>2. StateOf(p) = "out" /\ ClaimOf(p) = {} /\ WantOf(p) = NoPrefs
    BY <1>3 DEF StateOf, ClaimOf, WantOf
  <2> QED
    BY <1>1, <2>1, <2>2, SessionStutter
<1> QED
  BY <1>2, <1>3

\* While tsnode.Start builds the node the run holds its sockets: no rival is in.
LEMMA BuildJoins ==
    ASSUME TypeOK, LifecycleInv, NEW p \in Proc, Build(p)
    PROVE  Session!Join(p)
<1>1. \A q \in Proc : q # p => Same(q)
  BY StepSame DEF MainStep
<1>2. /\ pc[p] = "build" /\ node' = [node EXCEPT ![p] = "built"]
      /\ live' = [live EXCEPT ![p] = saved] /\ UNCHANGED <<cmd, conf, srv, saved, defers>>
  BY DEF Build, procVars, srvVars
<1>3. ~NodeLive(p) /\ NodeLive(p)' /\ \A k \in Listener : srv[p][k] = "off"
  BY <1>2 DEF TypeOK, LifecycleInv, Place, NodePlace, ServingPlace, BeforeNode, NodeLive
<1>4. StateOf(p) = "out" /\ StateOf(p)' = "joined" /\ WantOf(p)' = conf[p].prefs
  BY <1>2, <1>3 DEF StateOf, WantOf
<1>5. ClaimOf(p)' = IF cmd[p] = "run" THEN Held(p) ELSE {}
  BY <1>2, <1>3 DEF ClaimOf, Held, OpenSockets, GaveUp
<1>6. conf[p].prefs \in Prefs /\ ClaimOf(p)' \in SUBSET Endpoint
  <2>1. conf[p] \in Settings
    BY LifecycleAssumption DEF TypeOK
  <2>2. \A k \in Enabled(conf[p]) : EndpointOf(conf[p], k) \in Endpoint
    BY <2>1 DEF Settings, Enabled, EndpointOf, Endpoint, Address
  <2>3. OpenSockets(p) \subseteq Enabled(conf[p])
    BY DEF LifecycleInv, Place, SocketPlace, OpenSockets
  <2> QED
    BY <1>5, <2>1, <2>2, <2>3 DEF Settings, Held
<1>7. ASSUME NEW q \in Proc, StateOf(q) # "out" PROVE ClaimOf(q) \cap ClaimOf(p)' = {}
  <2>1. q # p
    BY <1>4, <1>7
  <2> QED
    BY <1>5, <2>1 DEF ClaimOf, Held, LifecycleInv, SocketsExclusive
<1>8. /\ [q \in Proc |-> StateOf(q)][p] = "out"
      /\ \A q \in Proc : /\ [r \in Proc |-> StateOf(r)][q] = StateOf(q)
                         /\ [r \in Proc |-> ClaimOf(r)][q] = ClaimOf(q)
  BY <1>4
<1>9. \E endpoints \in SUBSET Endpoint, prefs \in Prefs :
          /\ \A q \in Proc : [r \in Proc |-> StateOf(r)][q] # "out" =>
                                [r \in Proc |-> ClaimOf(r)][q] \cap endpoints = {}
          /\ [q \in Proc |-> ClaimOf(q)'] = [[q \in Proc |-> ClaimOf(q)] EXCEPT ![p] = endpoints]
          /\ [q \in Proc |-> WantOf(q)']  = [[q \in Proc |-> WantOf(q)]  EXCEPT ![p] = prefs]
  <2>1. /\ [q \in Proc |-> ClaimOf(q)'] = [[q \in Proc |-> ClaimOf(q)] EXCEPT ![p] = ClaimOf(p)']
        /\ [q \in Proc |-> WantOf(q)']  = [[q \in Proc |-> WantOf(q)]  EXCEPT ![p] = WantOf(p)']
    BY <1>1, SessionStep
  <2>2. \A q \in Proc : [r \in Proc |-> StateOf(r)][q] # "out" =>
                           [r \in Proc |-> ClaimOf(r)][q] \cap ClaimOf(p)' = {}
    BY <1>7, <1>8
  <2> QED
    BY <1>4, <1>6, <2>1, <2>2
<1>10. [q \in Proc |-> StateOf(q)'] = [[q \in Proc |-> StateOf(q)] EXCEPT ![p] = "joined"]
  BY <1>1, <1>4, SessionStep
<1> QED
  BY <1>2, <1>8, <1>9, <1>10, Zenon DEF Session!Join

\* Whoever stores preferences, or lets clients in, serves some listener.
LEMMA RunClaims ==
    ASSUME LifecycleInv, NEW p \in Proc, pc[p] \in {"prefs", "serve"}
    PROVE  NodeLive(p) /\ cmd[p] = "run" /\ ClaimOf(p) # {} /\ Enabled(conf[p]) # {}
           /\ StateOf(p) = "joined"
<1>1. cmd[p] = "run" /\ node[p] = "up" /\ ~Refused(conf[p])
      /\ \A k \in Listener : srv[p][k] = "off"
  BY DEF LifecycleInv, Place, NodePlace, ServingPlace, AfterStart
<1>2. Enabled(conf[p]) # {} /\ Enabled(conf[p]) \subseteq OpenSockets(p)
  BY <1>1 DEF Refused, LifecycleInv, Place, SocketPlace, AfterStart, InStart, OpenSockets, GaveUp,
              ClosesItself, Enabled, Listener
<1> QED
  BY <1>1, <1>2 DEF NodeLive, ClaimOf, Held, StateOf

LEMMA PrefsStored ==
    ASSUME TypeOK, LifecycleInv, NEW p \in Proc, \A q \in Proc : q # p => Same(q),
           pc[p] = "prefs", StorePrefs(p), UNCHANGED <<node, cmd, conf, srv>>,
           OpenSockets(p)' = OpenSockets(p)
    PROVE  Session!StorePrefs(p)
<1>1. NodeLive(p) /\ ClaimOf(p) # {} /\ StateOf(p) = "joined"
  BY RunClaims
<1>2. StateOf(p)' = StateOf(p) /\ ClaimOf(p)' = ClaimOf(p) /\ WantOf(p)' = WantOf(p)
      /\ WantOf(p) = conf[p].prefs
  BY <1>1 DEF StateOf, ClaimOf, Held, WantOf, NodeLive
<1> QED
  BY <1>1, <1>2, SessionStep DEF StorePrefs, Session!StorePrefs

LEMMA ServeOpens ==
    ASSUME TypeOK, LifecycleInv, NEW p \in Proc, Serve(p)
    PROVE  Session!Open(p)
<1>1. \A q \in Proc : q # p => Same(q)
  BY StepSame DEF MainStep
<1>2. /\ pc[p] = "serve" /\ UNCHANGED <<node, cmd, conf, live, saved, defers>>
      /\ \A k \in Listener : srv'[p][k] = IF k \in Enabled(conf[p]) THEN "serving" ELSE "off"
  BY DEF Serve, procVars, nodeVars, TypeOK
<1>3. /\ NodeLive(p) /\ cmd[p] = "run" /\ ClaimOf(p) # {} /\ Enabled(conf[p]) # {}
      /\ StateOf(p) = "joined"
  BY <1>2, RunClaims
<1>4. live[p] = conf[p].prefs /\ WantOf(p) = conf[p].prefs
  BY <1>2, <1>3 DEF LifecycleInv, Place, ServingPlace, AfterStart, WantOf
<1>5. NodeLive(p)' /\ \E k \in Listener : srv'[p][k] # "off"
  BY <1>2, <1>3 DEF NodeLive, Enabled
<1>6. StateOf(p)' = "open"
  BY <1>5 DEF StateOf
<1>7. ClaimOf(p)' = ClaimOf(p) /\ WantOf(p)' = WantOf(p)
  <2>1. \A k \in Listener : srv[p][k] = "off"
    BY <1>2 DEF LifecycleInv, Place, ServingPlace
  <2>2. OpenSockets(p)' = OpenSockets(p)
    BY <1>2, <2>1 DEF OpenSockets, GaveUp, ClosesItself, Listener
  <2> QED
    BY <1>2, <1>3, <1>5, <2>2 DEF ClaimOf, Held, WantOf
<1> QED
  BY <1>1, <1>2, <1>3, <1>4, <1>6, <1>7, SessionStep DEF Session!Open

\* Steps the session does not see.
LEMMA SessionQuiet ==
    ASSUME NEW p \in Proc, \A q \in Proc : q # p => Same(q),
           NodeLive(p)' <=> NodeLive(p), UNCHANGED <<live, saved>>,
           NodeLive(p) => /\ cmd'[p] = cmd[p] /\ conf'[p] = conf[p]
                          /\ OpenSockets(p)' = OpenSockets(p)
                          /\ (\E k \in Listener : srv'[p][k] # "off")
                               <=> (\E k \in Listener : srv[p][k] # "off")
    PROVE  [Session!Next]_(Session!vars)
<1>1. StateOf(p)' = StateOf(p)
  BY DEF StateOf
<1>2. WantOf(p)' = WantOf(p)
  BY DEF WantOf
<1>3. ClaimOf(p)' = ClaimOf(p)
  BY DEF ClaimOf, Held
<1> QED
  BY <1>1, <1>2, <1>3, SessionStutter

\* A step of a process is a step of the session, or none.
LEMMA StepOfSession ==
    ASSUME TypeOK, LifecycleInv, NEW p \in Proc,
           MainStep(p) \/ Join(p) \/ ServerStep(p) \/ Environment(p)
    PROVE  [Session!Next]_(Session!vars)
<1>1. \A q \in Proc : q # p => Same(q)
  BY StepSame
<1> USE DEF procVars, nodeVars, srvVars, Goto, Return, Fail
<1>2. Place(p)
  BY DEF LifecycleInv
<1>3. CASE Build(p)
  BY <1>3, BuildJoins DEF Session!Next
<1>4. CASE Serve(p)
  BY <1>4, ServeOpens DEF Session!Next
<1>5. CASE /\ UNCHANGED <<node, live, saved, cmd, conf, srv>>
           /\ NodeLive(p) => OpenSockets(p)' = OpenSockets(p)
  <2>1. NodeLive(p)' <=> NodeLive(p)
    BY <1>5 DEF NodeLive
  <2> QED
    BY <1>1, <1>5, <2>1, SessionQuiet
<1>6. \/ Boot(p) \/ Check(p) \/ BindFails(p) \/ AllBound(p) \/ BuildFails(p)
      \/ (\E k \in Listener : Bind(p, k)) \/ JoinCanceled(p) \/ JoinFails(p) \/ Attach(p)
      \/ HasDNS(p) \/ Describe(p) \/ SelectDone(p) \/ SelectErr(p)
      => /\ UNCHANGED <<node, live, saved, cmd, conf, srv>>
         /\ NodeLive(p) => OpenSockets(p)' = OpenSockets(p)
  <2>1. Boot(p) \/ Check(p) \/ BindFails(p) \/ AllBound(p) \/ BuildFails(p) \/ JoinCanceled(p)
        \/ JoinFails(p) \/ HasDNS(p) \/ Describe(p) \/ SelectDone(p) \/ SelectErr(p)
        => UNCHANGED <<node, live, saved, cmd, conf, srv, defers>>
    BY DEF Boot, Check, BindFails, AllBound, BuildFails, JoinCanceled, JoinFails, HasDNS, Describe,
           SelectDone, SelectErr
  <2>2. ASSUME NEW k \in Listener, Bind(p, k)
        PROVE  UNCHANGED <<node, live, saved, cmd, conf, srv>> /\ ~NodeLive(p)
    BY <1>2, <2>2 DEF Bind, Place, NodePlace, BeforeNode, NodeLive
  <2>3. CASE Attach(p)
    BY <2>3 DEF Attach, OpenSockets, GaveUp, Listener, TypeOK
  <2> QED
    BY <2>1, <2>2, <2>3 DEF OpenSockets, GaveUp
<1>7. CASE JoinUp(p)
  <2>1. NodeLive(p)' /\ NodeLive(p) /\ UNCHANGED <<live, saved, cmd, conf, srv, defers>>
    BY <1>2, <1>7 DEF JoinUp, NodeLive, TypeOK, Place, NodePlace
  <2> QED
    BY <1>1, <2>1, SessionQuiet DEF OpenSockets, GaveUp
<1>8. CASE ApplyPrefs(p)
  <2>1. pc[p] = "prefs" /\ StorePrefs(p) /\ UNCHANGED <<node, cmd, conf, srv>>
    BY <1>8 DEF ApplyPrefs
  <2>2. OpenSockets(p)' = OpenSockets(p)
    BY <1>8 DEF ApplyPrefs, OpenSockets, GaveUp, Listener, TypeOK
  <2> QED
    BY <1>1, <2>1, <2>2, PrefsStored DEF Session!Next
<1>9. CASE ApplyPrefsFails(p)
  <2>1. pc[p] = "prefs" /\ (StorePrefs(p) \/ UNCHANGED <<live, saved>>)
        /\ UNCHANGED <<node, cmd, conf, srv>> /\ OpenSockets(p)' = OpenSockets(p)
    BY <1>9 DEF ApplyPrefsFails, OpenSockets, GaveUp
  <2>2. CASE StorePrefs(p)
    BY <1>1, <2>1, <2>2, PrefsStored DEF Session!Next
  <2>3. CASE UNCHANGED <<live, saved>>
    BY <1>5, <2>1, <2>3
  <2> QED
    BY <2>1, <2>2, <2>3
<1>10. CASE Abort(p)
  <2>1. ~NodeLive(p)' /\ live' = [live EXCEPT ![p] = NoPrefs] /\ saved' = saved
    BY <1>2, <1>10 DEF Abort, CloseStarted, TsClose, NodeLive, TypeOK
  <2> QED
    BY <1>1, <1>2, <2>1, SessionLeave
<1>11. ASSUME NEW r \in Resource, Unwind(p, r) PROVE [Session!Next]_(Session!vars)
  <2>1. CASE r = "node"
    <3>1. ~NodeLive(p)' /\ live' = [live EXCEPT ![p] = NoPrefs] /\ saved' = saved
      BY <1>11, <2>1 DEF Unwind, TsClose, NodeLive, TypeOK
    <3> QED
      BY <1>1, <1>2, <3>1, SessionLeave
  <2>2. CASE r # "node"
    <3>1. "node" \notin defers[p]
      BY <1>11, <2>2, NodeClosesFirst DEF Unwind, IsNextDeferred, Resource
    <3>2. ~NodeLive(p)
      BY <1>2, <1>11, <3>1 DEF Unwind, Place, NodePlace, NodeLive
    <3> QED
      BY <1>5, <1>11, <2>2, <3>2 DEF Unwind
  <2> QED
    BY <2>1, <2>2
<1>12. ASSUME NEW e, End(p, e) PROVE [Session!Next]_(Session!vars)
  <2>1. ~NodeLive(p)' /\ live' = [live EXCEPT ![p] = NoPrefs] /\ saved' = saved
    BY <1>12 DEF End, NodeLive, TypeOK
  <2> QED
    BY <1>1, <1>2, <2>1, SessionLeave
<1>13. CASE ParseFails(p) \/ ExitProcess(p) \/ Crash(p)
  BY <1>12, <1>13 DEF ParseFails, ExitProcess, Crash
<1>14. CASE Signal(p)
  BY <1>5, <1>12, <1>14 DEF Signal, OpenSockets, GaveUp
<1>15. CASE ServerStep(p)
  <2>1. PICK k \in Listener : ServerFails(p, k) \/ ServerSends(p, k)
    BY <1>15 DEF ServerStep
  <2>2. UNCHANGED <<node, live, saved, cmd, conf, defers>>
    BY <2>1 DEF ServerFails, ServerSends
  <2>3. srv[p][k] # "off" /\ srv'[p][k] # "off"
    BY <2>1 DEF ServerFails, ServerSends, TypeOK
  <2>4. NodeLive(p)' <=> NodeLive(p)
    BY <2>2 DEF NodeLive
  <2>5. GaveUp(p) \subseteq GaveUp(p)'
    BY <2>1, GaveUpGrows
  <2>6. CASE OpenSockets(p)' = OpenSockets(p) \/ ~NodeLive(p)
    BY <1>1, <2>2, <2>3, <2>4, <2>6, SessionQuiet
  <2>7. CASE NodeLive(p)
    <3>1. StateOf(p) = "open" /\ StateOf(p)' = "open" /\ WantOf(p)' = WantOf(p)
      BY <2>2, <2>3, <2>4, <2>7 DEF StateOf, WantOf
    <3>2. ClaimOf(p)' \subseteq ClaimOf(p)
      BY <2>2, <2>4, <2>5, <2>7 DEF ClaimOf, Held, OpenSockets
    <3>3. Session!Yield(p)
      BY <1>1, <2>2, <3>1, <3>2, SessionStep DEF Session!Yield
    <3> QED
      BY <3>3 DEF Session!Next
  <2> QED
    BY <2>6, <2>7
<1>16. ASSUME NEW command \in {"run", "status"}, NEW c \in Config, Launch(p, command, c)
       PROVE  [Session!Next]_(Session!vars)
  <2>1. ~NodeLive(p) /\ ~NodeLive(p)' /\ UNCHANGED <<live, saved>>
    BY <1>2, <1>16 DEF Launch, Running, Place, NodePlace, BeforeNode, NodeLive, TypeOK
  <2> QED
    BY <1>1, <2>1, SessionQuiet
<1> QED
  BY <1>3, <1>4, <1>5, <1>6, <1>7, <1>8, <1>9, <1>10, <1>11, <1>13, <1>14, <1>15, <1>16
     DEF MainStep, Join, Environment

\* The processes implement TailnetSession (run.go, status.go:11-14, node.go): however
\* many there are, a node joins only without a rival, only runs store preferences,
\* and clients are let in only under those that were asked for.
THEOREM SessionRefined == Spec => RefinesSession
<1>1. Init => Session!Init
  <2> SUFFICES ASSUME Init PROVE Session!Init
    OBVIOUS
  <2>1. \A p \in Proc : StateOf(p) = "out" /\ ClaimOf(p) = {} /\ WantOf(p) = NoPrefs
    BY DEF Init, StateOf, ClaimOf, WantOf, NodeLive
  <2> QED
    BY <2>1 DEF Init, Session!Init
<1>2. TypeOK /\ LifecycleInv /\ [Next]_vars => [Session!Next]_(Session!vars)
  <2> SUFFICES ASSUME TypeOK, LifecycleInv, [Next]_vars PROVE [Session!Next]_(Session!vars)
    OBVIOUS
  <2>1. CASE UNCHANGED vars
    <3>1. \A q \in Proc : Same(q)
      BY <2>1 DEF vars, Same
    <3>2. \A q \in Proc : StateOf(q)' = StateOf(q) /\ ClaimOf(q)' = ClaimOf(q)
                          /\ WantOf(q)' = WantOf(q)
      BY <2>1 DEF vars, StateOf, ClaimOf, Held, OpenSockets, GaveUp, WantOf, NodeLive
    <3> QED
      BY <2>1, <3>2 DEF vars, Session!vars
  <2>2. CASE Next
    BY <2>2, StepOfSession DEF Next
  <2> QED
    BY <2>1, <2>2
<1> QED
  BY <1>1, <1>2, TypeCorrect, InvHolds, PTL DEF Spec, RefinesSession, Session!Spec

LEMMA FourListeners == IsFiniteSet(Listener) /\ Cardinality(Listener) = 4
<1>1. IsFiniteSet({}) /\ Cardinality({}) = 0
  BY FS_EmptySet
<1>2. IsFiniteSet({} \cup {"socks5"}) /\ Cardinality({} \cup {"socks5"}) = 1
  BY <1>1, FS_AddElement
<1>3. /\ IsFiniteSet(({} \cup {"socks5"}) \cup {"http"})
      /\ Cardinality(({} \cup {"socks5"}) \cup {"http"}) = 2
  BY <1>2, FS_AddElement
<1>4. /\ IsFiniteSet((({} \cup {"socks5"}) \cup {"http"}) \cup {"dnsudp"})
      /\ Cardinality((({} \cup {"socks5"}) \cup {"http"}) \cup {"dnsudp"}) = 3
  BY <1>3, FS_AddElement
<1>5. Listener = ((({} \cup {"socks5"}) \cup {"http"}) \cup {"dnsudp"}) \cup {"dnstcp"}
  BY DEF Listener
<1> QED
  BY <1>4, <1>5, FS_AddElement

LEMMA ReportedFinite ==
    ASSUME NEW p PROVE /\ IsFiniteSet(Reported(p)) /\ Cardinality(Reported(p)) \in Nat
                       /\ Cardinality(Reported(p)') \in Nat
<1>1. Reported(p) \in SUBSET Listener /\ Reported(p)' \in SUBSET Listener
  BY DEF Reported
<1> QED
  BY <1>1, FourListeners, FS_Subset, FS_CardinalityType

\* Nothing is in the channel before the servers exist, and each sends once.
LEMMA ErrcKept ==
    ASSUME TypeOK, LifecycleInv, ErrcCounts, [Next]_vars, NEW q \in Proc
    PROVE  (errc[q] <= Cardinality(Reported(q)))'
<1> USE DEF procVars, nodeVars, srvVars
<1>1. /\ errc[q] \in Nat /\ Cardinality(Reported(q)) \in Nat /\ Cardinality(Reported(q)') \in Nat
      /\ errc[q] <= Cardinality(Reported(q))
  <2>1. errc[q] \in 0 .. ErrcCap /\ errc[q] <= Cardinality(Reported(q))
    BY DEF TypeOK, ErrcCounts
  <2>2. errc[q] \in Nat
    BY <2>1 DEF ErrcCap
  <2> QED
    BY <2>1, <2>2, ReportedFinite
<1>2. CASE errc'[q] <= errc[q] /\ errc'[q] \in Nat /\ srv'[q] = srv[q]
  <2>1. Reported(q)' = Reported(q)
    BY <1>2 DEF Reported
  <2> QED
    BY <1>1, <1>2, <2>1
<1>3. ASSUME NEW p \in Proc, Serve(p) PROVE (errc[q] <= Cardinality(Reported(q)))'
  <2>1. CASE p = q
    <3>1. Reported(q) = {}
      BY <1>3, <2>1 DEF Serve, Reported, LifecycleInv, Place, ServingPlace
    <3>2. errc'[q] = 0
      BY <1>1, <1>3, <3>1, FS_EmptySet DEF Serve
    <3> QED
      BY <1>1, <3>2
  <2>2. CASE p # q
    BY <1>1, <1>2, <1>3, <2>2 DEF Serve, TypeOK
  <2> QED
    BY <2>1, <2>2
<1>4. ASSUME NEW p \in Proc, NEW e, End(p, e) PROVE (errc[q] <= Cardinality(Reported(q)))'
  <2>1. CASE p = q
    BY <1>1, <1>4, <2>1 DEF End, TypeOK
  <2>2. CASE p # q
    BY <1>1, <1>2, <1>4, <2>2 DEF End, TypeOK
  <2> QED
    BY <2>1, <2>2
<1>5. ASSUME NEW p \in Proc, SelectErr(p) PROVE (errc[q] <= Cardinality(Reported(q)))'
  <2>1. errc'[q] <= errc[q] /\ errc'[q] \in Nat /\ srv'[q] = srv[q]
    BY <1>1, <1>5 DEF SelectErr, TypeOK, ErrcCap
  <2> QED
    BY <1>2, <2>1
<1>6. ASSUME NEW p \in Proc, NEW k \in Listener, ServerFails(p, k)
      PROVE  (errc[q] <= Cardinality(Reported(q)))'
  <2>1. Reported(q)' = Reported(q) /\ errc' = errc
    BY <1>6 DEF ServerFails, Reported, TypeOK
  <2> QED
    BY <1>1, <2>1
<1>7. ASSUME NEW p \in Proc, NEW k \in Listener, ServerSends(p, k)
      PROVE  (errc[q] <= Cardinality(Reported(q)))'
  <2>1. CASE p = q
    <3>1. k \notin Reported(q) /\ Reported(q)' = Reported(q) \cup {k}
      BY <1>7, <2>1 DEF ServerSends, Reported, TypeOK
    <3>2. Cardinality(Reported(q)') = Cardinality(Reported(q)) + 1
      BY <3>1, ReportedFinite, FS_AddElement
    <3>3. errc'[q] = errc[q] + 1
      BY <1>7, <2>1 DEF ServerSends, TypeOK
    <3> QED
      BY <1>1, <3>2, <3>3
  <2>2. CASE p # q
    BY <1>1, <1>2, <1>7, <2>2 DEF ServerSends, TypeOK
  <2> QED
    BY <2>1, <2>2
<1>8. CASE UNCHANGED srvVars
  BY <1>1, <1>2, <1>8
<1>9. ASSUME NEW p \in Proc, MainStep(p) PROVE (errc[q] <= Cardinality(Reported(q)))'
  <2>1. CASE Serve(p) \/ ParseFails(p) \/ ExitProcess(p) \/ SelectErr(p)
    BY <1>3, <1>4, <1>5, <2>1 DEF ParseFails, ExitProcess
  <2> QED
    BY <1>8, <1>9, <2>1 DEF MainStep, Boot, Check, BindFails, AllBound, Build, BuildFails, Bind,
       JoinCanceled, Attach, ApplyPrefs, ApplyPrefsFails, Abort, HasDNS, Describe, SelectDone, Unwind
<1>10. ASSUME NEW p \in Proc, Environment(p) PROVE (errc[q] <= Cardinality(Reported(q)))'
  BY <1>4, <1>8, <1>10 DEF Environment, Launch, Signal, Crash
<1>11. ASSUME NEW p \in Proc, Join(p) PROVE (errc[q] <= Cardinality(Reported(q)))'
  BY <1>8, <1>11 DEF Join, JoinUp, JoinFails
<1> QED
  BY <1>6, <1>7, <1>8, <1>9, <1>10, <1>11 DEF Next, ServerStep, vars

\* No server waits to report its error (run.go:84-86): of four, those that have
\* reported are at most three when another has something to say.
THEOREM NoServerBlockedHolds == Spec => []NoServerBlocked
<1>1. Init => ErrcCounts
  <2> SUFFICES ASSUME Init, NEW p \in Proc PROVE errc[p] <= Cardinality(Reported(p))
    BY DEF ErrcCounts
  <2> QED
    BY ReportedFinite DEF Init
<1>2. TypeOK /\ LifecycleInv /\ ErrcCounts /\ [Next]_vars => ErrcCounts'
  BY ErrcKept DEF ErrcCounts
<1>3. TypeOK /\ ErrcCounts => NoServerBlocked
  <2> SUFFICES ASSUME TypeOK, ErrcCounts, NEW p \in Proc, NEW k \in Listener,
                      srv[p][k] = "sending"
               PROVE  errc[p] < ErrcCap
    BY DEF NoServerBlocked
  <2>1. Reported(p) \in SUBSET (Listener \ {k})
    BY DEF Reported
  <2>2. IsFiniteSet(Listener \ {k}) /\ Cardinality(Listener \ {k}) = 3
    BY FourListeners, FS_RemoveElement
  <2>3. Cardinality(Reported(p)) <= 3 /\ Cardinality(Reported(p)) \in Nat
    BY <2>1, <2>2, FS_Subset, ReportedFinite
  <2> QED
    BY <2>3 DEF TypeOK, ErrcCounts, ErrcCap
<1> QED
  BY <1>1, <1>2, <1>3, TypeCorrect, InvHolds, PTL DEF Spec
=============================================================================
