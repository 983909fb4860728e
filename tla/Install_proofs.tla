--------------------------- MODULE Install_proofs ---------------------------
(***************************************************************************)
(* Theorems about Install: upgrades and installs, in any number, of any    *)
(* releases, stopped anywhere.  Windows, where install.sh is not looked    *)
(* at, is excluded by a hypothesis.                                        *)
(***************************************************************************)
EXTENDS Install, Upgrade_proofs

Working == {"walk", "fill", "remove", "aside", "replace"}

\* What is remembered of the past is there to be relied on.
Alone == "overlap" \notin past => ~Overlap

\* What an upgrade that has its download no longer wants is in place.
Written(u) ==
    pc[u] \in {"verify"} \cup Working => \A f \in File \ want[u] : disk[f] = tag[u]

InstallInv ==
    /\ TypeOK /\ UpgradeInv
    /\ archive \in Version
    /\ Alone
    /\ "overlap" \notin past => \A u \in Upgrader : Written(u)

(***************************************************************************)
(* How the releases are packed (.goreleaser.yaml): one that has the binary *)
(* has everything else that install.sh puts in place, in front of it.      *)
(***************************************************************************)
Behind(members, open) ==
    \A i \in DOMAIN members : members[i] = Bin =>
        \A f \in Shipped \ {Bin} : f \in open => \E j \in 1 .. i - 1 : members[j] = f

BinaryBehind == \A members \in Archives : Behind(members, File)

\* Nothing is newer than the latest release, and the binary is the oldest of the
\* programs, but for the moment in which an install is behind it.
Ordered ==
    /\ \A f \in Shipped : disk[f] <= latest
    /\ archive <= latest
    /\ IF step = "zsh" THEN disk[Bin] = archive
                       ELSE \A f \in Shipped : disk[Bin] <= disk[f]
    /\ \A u \in Upgrader :
         /\ tag[u] <= latest
         /\ pc[u] = "ask" => me[u] = disk[Bin]
         /\ pc[u] \notin {"idle", "ask"} => disk[Bin] <= tag[u]

ProgramsInv ==
    /\ \A u \in Upgrader : Behind(todo[u], want[u])
    /\ past = {} => Ordered
----------------------------------------------------------------------------
\* An upgrade's step leaves what the others keep for themselves.
LEMMA StepFrame ==
    ASSUME TypeOK, NEW u \in Upgrader, Step(u)
    PROVE  /\ pc[u] # "idle" \/ pc'[u] # "idle"
           /\ UNCHANGED <<latest, release>>
           /\ \A v \in Upgrader \ {u} :
                /\ pc'[v] = pc[v] /\ me'[v] = me[v] /\ tag'[v] = tag[v]
                /\ todo'[v] = todo[v] /\ want'[v] = want[v] /\ result'[v] = result[v]
<1> USE DEF TypeOK, Goto, Return, sysVars, runVars
<1>1. CASE Start(u) \/ Ask(u) \/ Download(u) \/ Verify(u)
  BY <1>1 DEF Start, Ask, Download, Verify
<1>2. CASE VerifyFails(u) \/ Finish(u) \/ MoveAsideFails(u) \/ Fail(u) \/ Crash(u)
  BY <1>2 DEF VerifyFails, Finish, MoveAsideFails, Fail, Crash
<1>3. CASE Skip(u) \/ CreateTemp(u) \/ Fill(u)
  BY <1>3 DEF Skip, CreateTemp, Fill
<1>4. CASE RemoveOld(u) \/ MoveAside(u)
  BY <1>4 DEF RemoveOld, MoveAside
<1>5. CASE Replace(u)
  BY <1>5 DEF Replace
<1> QED
  BY <1>1, <1>2, <1>3, <1>4, <1>5 DEF Step

\* Who answers, and when.
LEMMA StepAnswers ==
    ASSUME TypeOK, NEW u \in Upgrader, Step(u)
    PROVE  /\ Answers(u, "ok") => pc[u] = "walk" /\ want[u] = {} /\ UNCHANGED <<disk, tag>>
           /\ Answers(u, "latest") => pc[u] = "ask" /\ latest = me[u] /\ tag'[u] = latest
<1> USE DEF TypeOK, Goto, Return, Answers
<1>1. CASE Start(u) \/ Ask(u) \/ Download(u) \/ Verify(u)
  BY <1>1 DEF Start, Ask, Download, Verify
<1>2. CASE VerifyFails(u) \/ Finish(u) \/ MoveAsideFails(u) \/ Fail(u) \/ Crash(u)
  BY <1>2 DEF VerifyFails, Finish, MoveAsideFails, Fail, Crash
<1>3. CASE Skip(u) \/ CreateTemp(u) \/ Fill(u)
  BY <1>3 DEF Skip, CreateTemp, Fill
<1>4. CASE RemoveOld(u) \/ MoveAside(u)
  BY <1>4 DEF RemoveOld, MoveAside
<1>5. CASE Replace(u)
  BY <1>5 DEF Replace
<1> QED
  BY <1>1, <1>2, <1>3, <1>4, <1>5 DEF Step

\* While nothing has overlapped, an upgrade that is under way is alone.
LEMMA Exclusive ==
    ASSUME TypeOK, Alone, InstallNext, "overlap" \notin past',
           NEW u \in Upgrader, pc[u] # "idle", pc'[u] # "idle"
    PROVE  step = "idle" /\ UNCHANGED instVars /\ (Step(u) \/ Publish)
<1>1. ~Overlap' /\ "overlap" \notin past
  BY DEF InstallNext, Remember
<1>2. step' = "idle" /\ \A v \in Upgrader \ {u} : pc'[v] = "idle"
  BY <1>1 DEF Overlap
<1>3. step = "idle" /\ \A v \in Upgrader \ {u} : pc[v] = "idle"
  BY <1>1 DEF Overlap, Alone
<1>4. ~Installer
  BY <1>2, <1>3 DEF Installer, Fetch, InstallBin, InstallZsh, InstallFile, InstallEnv,
                    AppendLine, InstallStops
<1>5. ASSUME NEW v \in Upgrader, Step(v) PROVE v = u
  BY <1>2, <1>3, <1>5, StepFrame
<1> QED
  BY <1>3, <1>4, <1>5 DEF InstallNext, Upgrades

LEMMA InstallInvInit == InstallInit => InstallInv
<1> SUFFICES ASSUME InstallInit PROVE InstallInv
  OBVIOUS
<1>1. TypeOK /\ UpgradeInv
  BY TypeInit, UpgradeInvInit DEF InstallInit
<1>2. \A u \in Upgrader : pc[u] = "idle"
  BY DEF InstallInit, Init
<1>3. archive \in Version
  BY Contents DEF InstallInit
<1> QED
  BY <1>1, <1>2, <1>3 DEF InstallInit, InstallInv, Alone, Overlap, Written, Working

\* install.sh puts whole files in place: what it writes is one release's.
LEMMA InstallerKeeps ==
    ASSUME TypeOK, UpgradeInv, archive \in Version, Installer
    PROVE  TypeOK' /\ UpgradeInv' /\ archive' \in Version
<1> USE UpgradeAssumption, InstallAssumption, Contents
<1>1. UNCHANGED <<sysVars, old, starts, pc, runVars, todo, want, tmp, result>>
  BY DEF Installer
<1>2. /\ disk' = disk \/ \E f \in File : disk' = [disk EXCEPT ![f] = archive]
      /\ archive' = archive \/ archive' = latest
  BY DEF Installer, Fetch, InstallBin, InstallZsh, InstallFile, InstallEnv, AppendLine,
         InstallStops
<1>3. archive' \in Version
  BY <1>2 DEF TypeOK
<1>4. TypeOK'
  BY <1>1, <1>2 DEF TypeOK, sysVars, runVars
<1>5. UpgradeInv'
  BY <1>1, <1>2 DEF TypeOK, UpgradeInv, BinaryNotLost, WritePlace, Whole, sysVars, runVars
<1> QED
  BY <1>3, <1>4, <1>5

\* What is written and no longer wanted is in place, whichever step comes next.
LEMMA WrittenStep ==
    ASSUME ~Windows, TypeOK, UpgradeInv, NEW u \in Upgrader, Written(u), Step(u) \/ Publish
    PROVE  Written(u)'
<1> USE DEF TypeOK, Written, Working, Goto, Return, sysVars, runVars
<1>1. CASE Publish
  BY <1>1 DEF Publish
<1>2. CASE Start(u) \/ Ask(u) \/ Verify(u)
  BY <1>2 DEF Start, Ask, Verify
<1>3. CASE Download(u)
  BY <1>3 DEF Download
<1>4. CASE VerifyFails(u) \/ Finish(u) \/ MoveAsideFails(u) \/ Fail(u) \/ Crash(u)
  BY <1>4 DEF VerifyFails, Finish, MoveAsideFails, Fail, Crash
<1>5. CASE Skip(u) \/ CreateTemp(u) \/ Fill(u)
  BY <1>5 DEF Skip, CreateTemp, Fill
<1>6. CASE RemoveOld(u) \/ MoveAside(u)
  BY <1>6 DEF RemoveOld, MoveAside, UpgradeInv, WritePlace
<1>7. CASE Replace(u)
  <2>1. tmp[u] = tag[u] /\ tag'[u] = tag[u]
    BY <1>7 DEF Replace, UpgradeInv, WritePlace
  <2>2. /\ disk' = [disk EXCEPT ![Head(todo[u])] = tag[u]]
        /\ want'[u] = want[u] \ {Head(todo[u])}
    BY <1>7, <2>1 DEF Replace
  <2>3. \A f \in File \ want[u] : disk[f] = tag[u]
    BY <1>7 DEF Replace
  <2> QED
    BY <2>1, <2>2, <2>3
<1> QED
  BY <1>1, <1>2, <1>3, <1>4, <1>5, <1>6, <1>7 DEF Step

\* An upgrade is not at work before it has asked.
LEMMA StartsIdle ==
    ASSUME TypeOK, InstallNext, NEW u \in Upgrader, pc[u] = "idle"
    PROVE  pc'[u] \in {"idle", "ask"}
<1>1. CASE UNCHANGED pc
  BY <1>1
<1>2. ASSUME NEW v \in Upgrader, Step(v) PROVE pc'[u] \in {"idle", "ask"}
  <2>1. CASE v = u
    BY <1>2, <2>1 DEF Step, TypeOK, Goto, Return, Start, Ask, Download, Verify, VerifyFails, Skip,
       CreateTemp, Fill, RemoveOld, MoveAside, MoveAsideFails, Replace, Finish, Fail, Crash
  <2> QED
    BY <1>2, <2>1, StepFrame
<1> QED
  BY <1>1, <1>2 DEF InstallNext, Installer, Upgrades, Publish

LEMMA InstallInvStep ==
    ASSUME ~Windows, InstallInv, [InstallNext]_allVars PROVE InstallInv'
<1> USE DEF InstallInv
<1>1. CASE UNCHANGED allVars
  BY <1>1 DEF allVars, vars, instVars, sysVars, runVars, TypeOK, UpgradeInv, BinaryNotLost,
              WritePlace, Whole, Locked, Alone, Overlap, Written
<1>2. CASE InstallNext
  <2>1. TypeOK' /\ UpgradeInv' /\ archive' \in Version
    <3>1. CASE Installer
      BY <3>1, InstallerKeeps
    <3>2. CASE Upgrades /\ UNCHANGED instVars
      BY <3>2, TypeStep, UpgradeInvStep DEF Upgrades, Next, instVars
    <3> QED
      BY <1>2, <3>1, <3>2 DEF InstallNext
  <2>2. Alone'
    BY <1>2 DEF InstallNext, Remember, Alone
  <2>3. ASSUME "overlap" \notin past', NEW u \in Upgrader PROVE Written(u)'
    <3>1. CASE pc'[u] = "idle"
      BY <3>1 DEF Written, Working
    <3>2. CASE pc[u] = "idle"
      BY <1>2, <3>2, StartsIdle DEF Written, Working
    <3>3. CASE pc[u] # "idle" /\ pc'[u] # "idle"
      <4>1. Step(u) \/ Publish
        BY <1>2, <2>3, <3>3, Exclusive
      <4>2. "overlap" \notin past
        BY <1>2, <2>3 DEF InstallNext, Remember
      <4> QED
        BY <4>1, <4>2, WrittenStep
    <3> QED
      BY <3>1, <3>2, <3>3
  <2> QED
    BY <2>1, <2>2, <2>3
<1> QED
  BY <1>1, <1>2

\* The inductive invariant of upgrades and installs (upgrade.go:239-352, install.sh:100-115).
THEOREM InstallInvHolds == ASSUME ~Windows PROVE InstallSpec => []InstallInv
BY InstallInvInit, InstallInvStep, PTL DEF InstallSpec

\* Every installed file is one whole file of one release, with any number of upgrades
\* and installs that overlap, fail and stop (upgrade.go:315, install.sh:26-35).
THEOREM InstalledFilesWhole == ASSUME ~Windows PROVE InstallSpec => []FilesWhole
<1>1. InstallInv => FilesWhole
  BY UpgradeAssumption DEF InstallInv, UpgradeInv, BinaryNotLost, FilesWhole, Whole
<1> QED
  BY <1>1, InstallInvHolds, PTL

\* An upgrade that reports success has replaced every file, if nothing ran beside it
\* (upgrade.go:101-104, 260-262).
THEOREM SuccessIsCompleteHolds == ASSUME ~Windows PROVE InstallSpec => SuccessIsComplete
<1>1. ASSUME InstallInv, [InstallNext]_allVars
      PROVE  [\A u \in Upgrader : Answers(u, "ok") /\ "overlap" \notin past
                => \A f \in File : disk'[f] = tag[u]]_allVars
  <2> SUFFICES ASSUME InstallNext, NEW u \in Upgrader, Answers(u, "ok"),
                      "overlap" \notin past, NEW f \in File
               PROVE  disk'[f] = tag[u]
    BY <1>1
  <2>1. TypeOK
    BY <1>1 DEF InstallInv
  <2>2. Step(u)
    BY <2>1, StepFrame DEF InstallNext, Installer, Upgrades, Publish, Answers
  <2>3. pc[u] = "walk" /\ want[u] = {} /\ disk' = disk
    BY <2>1, <2>2, StepAnswers
  <2> QED
    BY <1>1, <2>3 DEF InstallInv, Written, Working
<1> QED
  BY <1>1, InstallInvHolds, PTL DEF InstallSpec, SuccessIsComplete

\* The user's settings and the lines of .zshrc that name the helpers, disabled ones
\* included, stay as they are, whatever stopped before (install.sh:116-146).
THEOREM KeepsTheUsersHolds == InstallSpec => KeepsTheUsers
<1>1. ASSUME [InstallNext]_allVars
      PROVE  [/\ envFile = "user's" => envFile' # "template"
              /\ zshrc # <<>> /\ step # "idle" => zshrc' = zshrc]_allVars
  BY <1>1 DEF InstallNext, Installer, Fetch, InstallBin, InstallZsh, InstallFile,
              InstallEnv, AppendLine, InstallStops, instVars
<1> QED
  BY <1>1, PTL DEF InstallSpec, KeepsTheUsers
----------------------------------------------------------------------------
LEMMA ProgramsInvInit == InstallInit => ProgramsInv
<1> SUFFICES ASSUME InstallInit PROVE ProgramsInv
  OBVIOUS
<1>1. \A u \in Upgrader : todo[u] = <<>> /\ pc[u] = "idle" /\ tag[u] = 0
  BY DEF InstallInit, Init
<1>2. latest = 0 /\ archive = 0 /\ step = "idle" /\ \A f \in Shipped : disk[f] = 0
  BY UpgradeAssumption DEF InstallInit, Init
<1> QED
  BY <1>1, <1>2, UpgradeAssumption DEF ProgramsInv, Behind, Ordered

\* The walk keeps the programs that are still missing in front of the binary.
LEMMA BehindTail ==
    ASSUME NEW members \in Seq(File), members # <<>>, NEW open \in SUBSET File,
           Behind(members, open), NEW less \in SUBSET open, Head(members) \notin less
    PROVE  Behind(Tail(members), less)
<1> SUFFICES ASSUME NEW i \in DOMAIN Tail(members), Tail(members)[i] = Bin,
                    NEW f \in Shipped \ {Bin}, f \in less
             PROVE  \E j \in 1 .. i - 1 : Tail(members)[j] = f
  BY DEF Behind
<1>1. /\ i + 1 \in DOMAIN members /\ i \in Nat /\ i >= 1
      /\ \A k \in DOMAIN Tail(members) : Tail(members)[k] = members[k + 1]
      /\ DOMAIN Tail(members) = 1 .. Len(members) - 1
      /\ DOMAIN members = 1 .. Len(members) /\ Len(members) \in Nat
  OBVIOUS
<1>2. PICK j \in 1 .. i : members[j] = f
  BY <1>1 DEF Behind
<1>3. j # 1
  BY <1>2
<1>4. j - 1 \in 1 .. i - 1 /\ Tail(members)[j - 1] = f
  BY <1>1, <1>2, <1>3
<1> QED
  BY <1>4

\* What is in front of the binary is there when the binary comes.
LEMMA BehindHead ==
    ASSUME NEW members \in Seq(File), members # <<>>, NEW open, Behind(members, open),
           Head(members) = Bin
    PROVE  Shipped \cap open \subseteq {Bin}
<1>1. 1 \in DOMAIN members /\ members[1] = Bin
  OBVIOUS
<1> QED
  BY <1>1 DEF Behind

LEMMA BehindStep ==
    ASSUME BinaryBehind, TypeOK, NEW u \in Upgrader, Step(u), Behind(todo[u], want[u])
    PROVE  Behind(todo'[u], want'[u])
<1>1. CASE Download(u)
  BY <1>1 DEF TypeOK, Download, BinaryBehind
<1>2. CASE Skip(u)
  <2>1. /\ todo[u] \in Seq(File) /\ todo[u] # <<>> /\ Head(todo[u]) \notin want[u]
        /\ want[u] \in SUBSET File /\ want[u] \in SUBSET want[u]
    BY <1>2 DEF TypeOK, Skip
  <2>2. todo'[u] = Tail(todo[u]) /\ want'[u] = want[u]
    BY <1>2 DEF TypeOK, Skip
  <2>3. Behind(Tail(todo[u]), want[u])
    BY <2>1, BehindTail
  <2> QED
    BY <2>2, <2>3, Zenon
<1>3. CASE Replace(u)
  <2> DEFINE less == want[u] \ {Head(todo[u])}
  <2>1. /\ todo[u] \in Seq(File) /\ todo[u] # <<>> /\ Head(todo[u]) \notin less
        /\ want[u] \in SUBSET File /\ less \in SUBSET want[u]
    BY <1>3 DEF TypeOK, Replace
  <2>2. todo'[u] = Tail(todo[u]) /\ want'[u] = less
    BY <1>3 DEF TypeOK, Replace
  <2> HIDE DEF less
  <2>3. Behind(Tail(todo[u]), less)
    BY <2>1, BehindTail
  <2> QED
    BY <2>2, <2>3, Zenon
<1>4. CASE Start(u) \/ Ask(u) \/ Verify(u) \/ CreateTemp(u) \/ Fill(u) \/ RemoveOld(u) \/ MoveAside(u)
  BY <1>4 DEF TypeOK, runVars, Start, Ask, Verify, CreateTemp, Fill, RemoveOld, MoveAside
<1>5. CASE VerifyFails(u) \/ Finish(u) \/ MoveAsideFails(u) \/ Fail(u) \/ Crash(u)
  BY <1>5 DEF TypeOK, Return, VerifyFails, Finish, MoveAsideFails, Fail, Crash
<1> QED
  BY <1>1, <1>2, <1>3, <1>4, <1>5 DEF Step

\* Except on Windows the programs are always there, and versions are numbers.
LEMMA ProgramVersions ==
    ASSUME ~Windows, InstallInv
    PROVE  /\ latest \in Int /\ archive \in Int
           /\ \A f \in Shipped : f \in File /\ disk[f] \in Int
           /\ \A u \in Upgrader : tag[u] \in Int
           /\ Bin \in Shipped
<1>1. Version \subseteq Int
  BY DEF Version
<1>2. \A f \in Shipped : f \in File /\ disk[f] \in Version
  BY UpgradeAssumption DEF InstallInv, UpgradeInv, BinaryNotLost, Whole
<1>3. latest \in Version /\ archive \in Version /\ \A u \in Upgrader : tag[u] \in Version
  BY DEF InstallInv, TypeOK
<1> QED
  BY <1>1, <1>2, <1>3, UpgradeAssumption

\* The installer puts the latest release in place, the binary first.
LEMMA OrderedInstaller ==
    ASSUME ~Windows, InstallInv, Ordered, past = {}, Installer, Remember, past' = {}
    PROVE  Ordered'
<1> USE ProgramVersions
<1>1. UNCHANGED <<latest, pc, me, tag>>
  BY DEF Installer, sysVars, runVars
<1>2. step # "idle" => \A u \in Upgrader : pc[u] = "idle"
  BY DEF InstallInv, Alone, Overlap
<1>3. CASE UNCHANGED disk /\ step' # "zsh" /\ step # "zsh" /\ archive' \in {archive, latest}
  BY <1>1, <1>3 DEF Ordered
<1>4. CASE InstallBin
  <2>1. disk' = [disk EXCEPT ![Bin] = archive] /\ step' = "zsh" /\ archive' = archive /\ step = "bin"
    BY <1>4, InstallAssumption DEF InstallBin, InstallFile
  <2> QED
    BY <1>1, <1>2, <2>1 DEF Ordered, InstallInv, TypeOK
<1>5. CASE InstallZsh
  <2>1. disk' = [disk EXCEPT ![zsh] = archive] /\ step' = "env" /\ archive' = archive /\ step = "zsh"
    BY <1>5 DEF InstallZsh, InstallFile
  <2>2. disk[Bin] = archive /\ \A f \in Shipped : disk'[f] = archive
    BY <2>1, InstallAssumption DEF Ordered, InstallInv, TypeOK
  <2> QED
    BY <1>1, <1>2, <2>1, <2>2 DEF Ordered
<1>6. ~(InstallStops /\ step = "zsh")
  BY DEF InstallStops, Remember
<1> QED
  BY <1>3, <1>4, <1>5, <1>6
     DEF Installer, Fetch, InstallEnv, AppendLine, InstallStops

\* An upgrade, alone, replaces the binary behind the other programs.
LEMMA OrderedUpgrade ==
    ASSUME ~Windows, InstallInv, Ordered, NEW u \in Upgrader, Step(u),
           step = "idle", UNCHANGED instVars,
           \A v \in Upgrader \ {u} : pc[v] = "idle",
           Behind(todo[u], want[u]), Written(u)
    PROVE  Ordered'
<1> USE ProgramVersions
<1>1. UNCHANGED <<latest, archive, step>>
  BY StepFrame DEF InstallInv, instVars
<1>2. \A v \in Upgrader \ {u} : pc'[v] = "idle" /\ tag'[v] = tag[v]
  BY StepFrame DEF InstallInv
<1>3. TypeOK
  BY DEF InstallInv
<1>4. CASE Start(u)
  <2>1. UNCHANGED <<disk, tag>> /\ me'[u] = disk[Bin] /\ pc'[u] = "ask"
    BY <1>3, <1>4 DEF TypeOK, Start, Goto
  <2> QED
    BY <1>1, <1>2, <2>1 DEF Ordered
<1>5. CASE Ask(u)
  <2>1. /\ UNCHANGED disk /\ tag'[u] = latest /\ pc'[u] # "ask"
    BY <1>3, <1>5 DEF TypeOK, Ask, Goto
  <2> QED
    BY <1>1, <1>2, <2>1 DEF Ordered
<1>6. CASE Replace(u)
  <2>1. /\ disk' = [disk EXCEPT ![Head(todo[u])] = tag[u]] /\ UNCHANGED tag
        /\ pc[u] = "replace" /\ pc'[u] = "walk" /\ todo[u] \in Seq(File) /\ todo[u] # <<>>
    BY <1>3, <1>6 DEF TypeOK, Replace, Goto, runVars, InstallInv, UpgradeInv, WritePlace
  <2>2. disk[Bin] <= tag[u] /\ tag[u] <= latest /\ \A f \in Shipped : disk[Bin] <= disk[f]
    BY <2>1 DEF Ordered
  <2>3. Head(todo[u]) = Bin => \A f \in Shipped \ {Bin} : disk[f] = tag[u]
    BY <2>1, BehindHead DEF Written, Working
  <2>4. \A f \in Shipped : disk'[f] <= latest /\ disk'[Bin] <= disk'[f] /\ disk'[Bin] <= tag[u]
    BY <1>3, <2>1, <2>2, <2>3 DEF TypeOK, Ordered
  <2> QED
    BY <1>1, <1>2, <2>1, <2>2, <2>4 DEF Ordered
<1>7. CASE UNCHANGED <<disk, tag>> /\ pc[u] \notin {"idle", "ask"} /\ pc'[u] # "ask"
  BY <1>1, <1>2, <1>7 DEF Ordered
<1>8. CASE UNCHANGED <<disk, tag>> /\ pc'[u] = "idle"
  BY <1>1, <1>2, <1>8 DEF Ordered
<1>9. CASE Verify(u) \/ Download(u) \/ Skip(u) \/ CreateTemp(u) \/ Fill(u) \/ RemoveOld(u) \/ MoveAside(u)
  BY <1>3, <1>7, <1>9 DEF TypeOK, Goto, runVars, Verify, Download, Skip, CreateTemp, Fill,
       RemoveOld, MoveAside, InstallInv, UpgradeInv, WritePlace
<1>10. CASE VerifyFails(u) \/ Finish(u) \/ MoveAsideFails(u) \/ Fail(u) \/ Crash(u)
  BY <1>3, <1>8, <1>10 DEF TypeOK, Goto, Return, VerifyFails, Finish, MoveAsideFails, Fail, Crash
<1> QED
  BY <1>4, <1>5, <1>6, <1>9, <1>10 DEF Step

LEMMA ProgramsInvStep ==
    ASSUME ~Windows, BinaryBehind, InstallInv, ProgramsInv, [InstallNext]_allVars
    PROVE  ProgramsInv'
<1>1. CASE UNCHANGED allVars
  BY <1>1 DEF allVars, vars, instVars, sysVars, runVars, ProgramsInv, Ordered
<1>2. CASE InstallNext
  <2>0. TypeOK
    BY DEF InstallInv
  <2>1. ASSUME NEW v \in Upgrader PROVE Behind(todo'[v], want'[v])
    <3>1. CASE UNCHANGED <<todo, want>>
      BY <3>1 DEF ProgramsInv
    <3>2. ASSUME NEW u \in Upgrader, Step(u) PROVE Behind(todo'[v], want'[v])
      <4>1. CASE v = u
        BY <2>0, <3>2, <4>1, BehindStep DEF ProgramsInv
      <4>2. CASE v # u
        <5>1. todo'[v] = todo[v] /\ want'[v] = want[v]
          BY <2>0, <3>2, <4>2, StepFrame
        <5> QED
          BY <5>1 DEF ProgramsInv
      <4> QED
        BY <4>1, <4>2
    <3> QED
      BY <1>2, <3>1, <3>2 DEF InstallNext, Installer, Upgrades, Publish
  <2>2. ASSUME past' = {} PROVE Ordered'
    <3>1. past = {} /\ "overlap" \notin past' /\ ~Overlap' /\ ~Overlap
      BY <1>2, <2>2 DEF InstallNext, Remember, InstallInv, Alone
    <3>2. Ordered
      BY <3>1 DEF ProgramsInv
    <3>3. CASE Installer
      BY <1>2, <2>2, <3>1, <3>2, <3>3, OrderedInstaller DEF InstallNext
    <3>4. CASE Publish /\ UNCHANGED instVars
      BY <3>2, <3>4, ProgramVersions DEF Publish, instVars, runVars, Ordered
    <3>5. ASSUME NEW u \in Upgrader, Step(u), UNCHANGED instVars PROVE Ordered'
      <4>1. pc[u] # "idle" \/ pc'[u] # "idle"
        BY <2>0, <3>5, StepFrame
      <4>2. \A v \in Upgrader \ {u} : pc'[v] = pc[v]
        BY <2>0, <3>5, StepFrame
      <4>3. step = "idle" /\ \A v \in Upgrader \ {u} : pc[v] = "idle"
        BY <3>1, <3>5, <4>1, <4>2 DEF Overlap, instVars
      <4>4. Behind(todo[u], want[u]) /\ Written(u)
        BY <3>1 DEF ProgramsInv, InstallInv
      <4> QED
        BY <3>2, <3>5, <4>3, <4>4, OrderedUpgrade
    <3> QED
      BY <1>2, <3>3, <3>4, <3>5 DEF InstallNext, Upgrades
  <2> QED
    BY <2>1, <2>2 DEF ProgramsInv
<1> QED
  BY <1>1, <1>2

\* Nothing installed is newer than the latest release, and the binary is the oldest of
\* the programs, unless an install stopped behind it or something ran beside
\* (upgrade.go:80-84, install.sh:100-115).
THEOREM ProgramsInvHolds == ASSUME ~Windows, BinaryBehind PROVE InstallSpec => []ProgramsInv
BY ProgramsInvInit, ProgramsInvStep, InstallInvHolds, PTL DEF InstallSpec

\* Where every release that has the binary has the helpers in front of it, "already the
\* latest" is true of both, whatever failed and whatever the installer did between
\* (upgrade.go:80-84, README.md:57).
THEOREM LatestMeansProgramsHolds ==
    ASSUME ~Windows, BinaryBehind PROVE InstallSpec => LatestMeansPrograms
<1>1. ASSUME InstallInv, ProgramsInv, [InstallNext]_allVars
      PROVE  [\A u \in Upgrader : Answers(u, "latest") /\ past = {}
                => \A f \in Shipped : disk[f] = tag'[u]]_allVars
  <2> SUFFICES ASSUME InstallNext, NEW u \in Upgrader, Answers(u, "latest"),
                      past = {}, NEW f \in Shipped
               PROVE  disk[f] = tag'[u]
    BY <1>1
  <2>1. TypeOK
    BY <1>1 DEF InstallInv
  <2>2. Step(u)
    BY <2>1, StepFrame DEF InstallNext, Installer, Upgrades, Publish, Answers
  <2>3. pc[u] = "ask" /\ latest = me[u] /\ tag'[u] = latest
    BY <2>1, <2>2, StepAnswers
  <2>4. step # "zsh"
    BY <1>1, <2>3 DEF InstallInv, Alone, Overlap
  <2>5. disk[Bin] = latest /\ disk[Bin] <= disk[f] /\ disk[f] <= latest
    BY <1>1, <2>3, <2>4 DEF ProgramsInv, Ordered
  <2> QED
    BY <1>1, <2>3, <2>5, ProgramVersions
<1> QED
  BY <1>1, InstallInvHolds, ProgramsInvHolds, PTL DEF InstallSpec, LatestMeansPrograms
=============================================================================
