--------------------------- MODULE Upgrade_proofs ---------------------------
(***************************************************************************)
(* Theorems about Upgrade for every set of upgrades, files, releases and   *)
(* orders of their members.                                                *)
(***************************************************************************)
EXTENDS Upgrade, TLAPS

\* What can be read of a file, apart from a version, is not one.
LEMMA Contents ==
    /\ Version \subseteq Content /\ Absent \in Content /\ Torn \in Content
    /\ Absent \notin Version
    /\ 0 \in Version
    /\ \A v \in Version : v + 1 \in Version \/ v = MaxVersion
BY UpgradeAssumption DEF Version, Content, Absent, Torn

\* The members still to be visited are files.
LEMMA Members ==
    ASSUME NEW s \in Seq(File), s # <<>> PROVE Head(s) \in File /\ Tail(s) \in Seq(File)
OBVIOUS

LEMMA TypeInit == Init => TypeOK
BY UpgradeAssumption, Contents DEF Init, TypeOK, PC

LEMMA TypeStep == ASSUME TypeOK, [Next]_vars PROVE TypeOK'
<1> USE UpgradeAssumption, Contents DEF TypeOK, PC, Goto, sysVars, runVars
<1>0. ASSUME NEW u \in Upgrader, NEW r \in {"ok", "error", "crashed"}, Return(u, r)
      PROVE  TypeOK'
  BY <1>0 DEF Return
<1>1. ASSUME NEW u \in Upgrader, Step(u) PROVE TypeOK'
  <2>1. CASE Start(u)
    BY <2>1 DEF Start
  <2>2. CASE Ask(u)
    BY <2>2 DEF Ask
  <2>3. CASE Download(u)
    BY <2>3 DEF Download
  <2>4. CASE Verify(u)
    BY <2>4 DEF Verify
  <2>5. CASE VerifyFails(u) \/ Finish(u) \/ MoveAsideFails(u) \/ Fail(u) \/ Crash(u)
    BY <1>0, <2>5 DEF VerifyFails, Finish, MoveAsideFails, Fail, Crash
  <2>6. CASE Skip(u)
    <3>1. Tail(todo[u]) \in Seq(File)
      BY <2>6, Members DEF Skip
    <3> QED
      BY <2>6, <3>1 DEF Skip
  <2>7. CASE CreateTemp(u)
    BY <2>7 DEF CreateTemp
  <2>8. CASE Fill(u)
    BY <2>8 DEF Fill
  <2>9. CASE RemoveOld(u)
    BY <2>9 DEF RemoveOld
  <2>10. CASE MoveAside(u)
    BY <2>10 DEF MoveAside
  <2>11. CASE Replace(u)
    <3>1. Head(todo[u]) \in File /\ Tail(todo[u]) \in Seq(File)
      BY <2>11, Members DEF Replace
    <3> QED
      BY <2>11, <3>1 DEF Replace
  <2> QED
    BY <1>1, <2>1, <2>2, <2>3, <2>4, <2>5, <2>6, <2>7, <2>8, <2>9, <2>10, <2>11 DEF Step
<1>2. CASE Publish
  BY <1>2 DEF Publish, Version
<1>3. CASE StartService \/ StopService
  BY <1>3 DEF StartService, StopService
<1>4. CASE UNCHANGED vars
  BY <1>4 DEF vars
<1> QED
  BY <1>1, <1>2, <1>3, <1>4 DEF Next

\* Every variable keeps its type (upgrade.go).
THEOREM UpgradeTypeCorrect == Spec => []TypeOK
BY TypeInit, TypeStep, PTL DEF Spec

LEMMA UpgradeInvInit == Init => UpgradeInv
BY UpgradeAssumption, Contents DEF Init, UpgradeInv, BinaryNotLost, WritePlace, Whole

LEMMA UpgradeInvStep == ASSUME TypeOK, UpgradeInv, [Next]_vars PROVE UpgradeInv'
<1> USE UpgradeAssumption, Contents
<1> USE DEF TypeOK, Goto, sysVars, runVars, UpgradeInv, BinaryNotLost, WritePlace, Whole
<1>0. ASSUME NEW u \in Upgrader, NEW r \in {"ok", "error", "crashed"}, Return(u, r)
      PROVE  UpgradeInv'
  BY <1>0 DEF Return
<1>1. ASSUME NEW u \in Upgrader, Step(u) PROVE UpgradeInv'
  <2>1. CASE Start(u)
    BY <2>1 DEF Start
  <2>2. CASE Ask(u)
    BY <2>2 DEF Ask
  <2>3. CASE Download(u)
    BY <2>3 DEF Download
  <2>4. CASE Verify(u)
    BY <2>4 DEF Verify
  <2>5. CASE VerifyFails(u) \/ Finish(u) \/ MoveAsideFails(u) \/ Fail(u) \/ Crash(u)
    BY <1>0, <2>5 DEF VerifyFails, Finish, MoveAsideFails, Fail, Crash
  <2>6. CASE Skip(u)
    BY <2>6 DEF Skip
  <2>7. CASE CreateTemp(u)
    BY <2>7 DEF CreateTemp
  <2>8. CASE Fill(u)
    BY <2>8 DEF Fill
  <2>9. CASE RemoveOld(u)
    <3>1. disk[Bin] = Absent => Locked("old")
      BY <2>9 DEF RemoveOld, Locked
    <3> QED
      BY <2>9, <3>1 DEF RemoveOld
  <2>10. CASE MoveAside(u)
    <3>1. Windows /\ disk[Bin] \in Version
      BY <2>10 DEF MoveAside
    <3>2. /\ disk'[Bin] = Absent /\ old' \in Version
          /\ \A f \in File \ {Bin} : disk'[f] = disk[f]
      BY <2>10, <3>1 DEF MoveAside
    <3>3. \A v \in Upgrader : image'[v] # "bin" /\ (image[v] # "none" => image'[v] # "none")
      BY <2>10 DEF MoveAside
    <3>4. \A v \in Upgrader :
            /\ pc'[v] = pc[v] \/ (v = u /\ pc[v] = "aside" /\ pc'[v] = "replace")
            /\ sound'[v] = sound[v] /\ todo'[v] = todo[v]
            /\ tmp'[v] = tmp[v] /\ tag'[v] = tag[v]
      BY <2>10 DEF MoveAside
    <3> QED
      BY <2>10, <3>1, <3>2, <3>3, <3>4 DEF MoveAside
  <2>11. CASE Replace(u)
    <3>1. Head(todo[u]) \in File /\ tmp[u] \in Version
      BY <2>11 DEF Replace
    <3> QED
      BY <2>11, <3>1 DEF Replace
  <2> QED
    BY <1>1, <2>1, <2>2, <2>3, <2>4, <2>5, <2>6, <2>7, <2>8, <2>9, <2>10, <2>11 DEF Step
<1>2. CASE Publish
  BY <1>2 DEF Publish
<1>3. CASE StartService \/ StopService
  BY <1>3 DEF StartService, StopService
<1>4. CASE UNCHANGED vars
  BY <1>4 DEF vars
<1> QED
  BY <1>1, <1>2, <1>3, <1>4 DEF Next

\* The inductive invariant (upgrade.go:239-352).
THEOREM UpgradeInvHolds == Spec => []UpgradeInv
BY UpgradeInvInit, UpgradeInvStep, UpgradeTypeCorrect, PTL DEF Spec

\* The binary is in its place or, whole, beside it, whatever failed, was killed or
\* overlapped (upgrade.go:315-352).
THEOREM BinaryNotLostHolds == Spec => []BinaryNotLost
<1>1. UpgradeInv => BinaryNotLost
  BY DEF UpgradeInv
<1> QED
  BY <1>1, UpgradeInvHolds, PTL

\* Except on Windows, "replaces dst atomically" (upgrade.go:315) holds of every file,
\* with any number of upgrades that overlap.
THEOREM FilesWholeHolds == ASSUME ~Windows PROVE Spec => []FilesWhole
<1>1. UpgradeInv => FilesWhole
  BY UpgradeAssumption DEF UpgradeInv, BinaryNotLost, FilesWhole, Whole
<1> QED
  BY <1>1, UpgradeInvHolds, PTL
=============================================================================
