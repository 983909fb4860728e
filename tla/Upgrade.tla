------------------------------ MODULE Upgrade ------------------------------
(***************************************************************************)
(* `tailscale-socks upgrade' (cmd/tailscale-socks/upgrade.go): replacing   *)
(* the binary, the zsh helpers and the configuration template with those   *)
(* of the latest release, for several upgrades that may overlap, with      *)
(* failures of every call and crashes between any two steps.               *)
(***************************************************************************)
EXTENDS Naturals, Sequences

CONSTANTS
    Upgrader,     \* processes that run the command
    File,         \* what an upgrade installs: releaseTargets.install's `want'
    Bin,          \* the one of them that is this executable
    Shipped,      \* those that contrib/install.sh puts in place
    MaxVersion,   \* bound: releases that are published
    Archives,     \* the orders in which a release may carry its members
    Windows,      \* runtime.GOOS = "windows"
    MaxStarts     \* bound: upgrades started in a behaviour

ASSUME UpgradeAssumption ==
    /\ Bin \in Shipped /\ Shipped \subseteq File
    /\ MaxVersion \in Nat
    /\ MaxStarts \in Nat
    /\ Windows \in BOOLEAN
    /\ Archives \subseteq Seq(File) /\ Archives # {}

Version == 0 .. MaxVersion
Absent  == MaxVersion + 1      \* no file there
Torn    == MaxVersion + 2      \* a file with half of its contents, or a wrong download
Content == 0 .. MaxVersion + 2

VARIABLES
    latest,     \* the version GitHub names
    release,    \* [Version -> Archives]: the members of a release, in order
    disk,       \* [File -> Content]: what is installed
    old,        \* Content: the binary that was moved aside (dst.old)
    service,    \* where the running service's executable is: none, bin, old
    starts,     \* upgrades started so far
    pc,         \* [Upgrader -> PC]
    image,      \* [Upgrader -> {"none", "bin", "old"}]: its own executable
    me,         \* [Upgrader -> Version]: the version compiled into it
    tag,        \* [Upgrader -> Version]: the release it found
    sound,      \* [Upgrader -> BOOLEAN]: the download is what was published
    todo,       \* [Upgrader -> Seq(File)]: members not visited yet
    want,       \* [Upgrader -> SUBSET File]: files not written yet
    tmp,        \* [Upgrader -> Content]: its temporary file
    result      \* [Upgrader -> {"none", "latest", "ok", "error", "crashed"}]

sysVars == <<latest, release, service>>
runVars == <<image, me, tag, sound>>
vars == <<sysVars, disk, old, starts, pc, runVars, todo, want, tmp, result>>

PC == {"idle", "ask", "download", "verify", "walk", "fill", "remove", "aside", "replace"}

TypeOK ==
    /\ latest \in Version /\ release \in [Version -> Archives]
    /\ disk \in [File -> Content] /\ old \in Content
    /\ service \in {"none", "bin", "old"}
    /\ starts \in 0 .. MaxStarts
    /\ pc \in [Upgrader -> PC]
    /\ image \in [Upgrader -> {"none", "bin", "old"}]
    /\ me \in [Upgrader -> Version] /\ tag \in [Upgrader -> Version]
    /\ sound \in [Upgrader -> BOOLEAN]
    /\ todo \in [Upgrader -> Seq(File)]
    /\ \A u \in Upgrader : pc[u] \in {"fill", "remove", "aside", "replace"} => todo[u] # <<>>
    /\ want \in [Upgrader -> SUBSET File]
    /\ tmp \in [Upgrader -> Content]
    /\ result \in [Upgrader -> {"none", "latest", "ok", "error", "crashed"}]

\* contrib/install.sh put the binary and the helpers of one release in place.
Init ==
    /\ latest = 0 /\ release \in [Version -> Archives]
    /\ disk = [f \in File |-> IF f \in Shipped THEN 0 ELSE Absent] /\ old = Absent
    /\ service = "none"
    /\ starts = 0
    /\ pc = [u \in Upgrader |-> "idle"]
    /\ image = [u \in Upgrader |-> "none"]
    /\ me = [u \in Upgrader |-> 0] /\ tag = [u \in Upgrader |-> 0]
    /\ sound = [u \in Upgrader |-> TRUE]
    /\ todo = [u \in Upgrader |-> <<>>] /\ want = [u \in Upgrader |-> {}]
    /\ tmp = [u \in Upgrader |-> Absent]
    /\ result = [u \in Upgrader |-> "none"]
----------------------------------------------------------------------------
Goto(u, l) == pc' = [pc EXCEPT ![u] = l]

\* Run returns: the deferred os.Remove takes the temporary file away.
Return(u, r) ==
    /\ Goto(u, "idle")
    /\ result' = [result EXCEPT ![u] = r]
    /\ tmp' = [tmp EXCEPT ![u] = Absent]
    /\ image' = [image EXCEPT ![u] = "none"]
    /\ UNCHANGED <<sysVars, disk, old, starts, me, tag, sound, todo, want>>

\* Windows: the executable of a running process cannot be removed or overwritten.
Locked(place) ==
    Windows /\ (service = place \/ \E u \in Upgrader : image[u] = place)

Start(u) ==
    /\ pc[u] = "idle"
    /\ starts < MaxStarts /\ starts' = starts + 1
    /\ disk[Bin] \in Version
    /\ me' = [me EXCEPT ![u] = disk[Bin]]
    /\ image' = [image EXCEPT ![u] = "bin"]
    /\ result' = [result EXCEPT ![u] = "none"]
    /\ Goto(u, "ask")
    /\ UNCHANGED <<sysVars, disk, old, tag, sound, todo, want, tmp>>

\* latestTag, and the comparison with version().
Ask(u) ==
    /\ pc[u] = "ask"
    /\ IF latest = me[u]
         THEN /\ Goto(u, "idle")
              /\ result' = [result EXCEPT ![u] = "latest"]
              /\ image' = [image EXCEPT ![u] = "none"]
         ELSE Goto(u, "download") /\ UNCHANGED <<result, image>>
    /\ tag' = [tag EXCEPT ![u] = latest]
    /\ UNCHANGED <<sysVars, disk, old, starts, me, sound, todo, want, tmp>>

\* The archive and SHA256SUMS.txt; a transfer may be cut short or go wrong.
Download(u) ==
    /\ pc[u] = "download"
    /\ \E whole \in BOOLEAN : sound' = [sound EXCEPT ![u] = whole]
    /\ todo' = [todo EXCEPT ![u] = release[tag[u]]]
    /\ want' = [want EXCEPT ![u] = File]
    /\ Goto(u, "verify")
    /\ UNCHANGED <<sysVars, disk, old, starts, image, me, tag, tmp, result>>

\* Mutant: the checksum is not looked at.
VerifyAll(u) ==
    /\ pc[u] = "verify"
    /\ Goto(u, "walk")
    /\ UNCHANGED <<sysVars, disk, old, starts, runVars, todo, want, tmp, result>>

\* verifyChecksum lets through only what was published.
Verify(u) ==
    /\ pc[u] = "verify"
    /\ sound[u]
    /\ Goto(u, "walk")
    /\ UNCHANGED <<sysVars, disk, old, starts, runVars, todo, want, tmp, result>>

VerifyFails(u) == pc[u] = "verify" /\ ~sound[u] /\ Return(u, "error")

\* walkTarGz / walkZip: a member nobody wants any more is passed over.
Skip(u) ==
    /\ pc[u] = "walk" /\ todo[u] # <<>>
    /\ Head(todo[u]) \notin want[u]
    /\ todo' = [todo EXCEPT ![u] = Tail(@)]
    /\ UNCHANGED <<sysVars, disk, old, starts, pc, runVars, want, tmp, result>>

\* Mutant: the walk moves on before the file is written.
CreateTempEarly(u) ==
    /\ pc[u] = "walk" /\ todo[u] # <<>>
    /\ Head(todo[u]) \in want[u]
    /\ tmp' = [tmp EXCEPT ![u] = Torn]
    /\ todo' = [todo EXCEPT ![u] = Tail(@)]
    /\ Goto(u, "fill")
    /\ UNCHANGED <<sysVars, disk, old, starts, runVars, want, result>>

\* writeFile: a temporary file beside the target ...
CreateTemp(u) ==
    /\ pc[u] = "walk" /\ todo[u] # <<>>
    /\ Head(todo[u]) \in want[u]
    /\ tmp' = [tmp EXCEPT ![u] = Torn]
    /\ Goto(u, "fill")
    /\ UNCHANGED <<sysVars, disk, old, starts, runVars, todo, want, result>>

\* Mutant: a copy that stopped half-way is taken for a whole one.
FillShort(u) ==
    /\ pc[u] = "fill"
    /\ \E content \in {tag[u], Torn} : tmp' = [tmp EXCEPT ![u] = content]
    /\ Goto(u, IF Windows /\ Head(todo[u]) = Bin THEN "remove" ELSE "replace")
    /\ UNCHANGED <<sysVars, disk, old, starts, runVars, todo, want, result>>

\* ... is filled, closed and given its mode ...
Fill(u) ==
    /\ pc[u] = "fill"
    /\ tmp' = [tmp EXCEPT ![u] = IF sound[u] THEN tag[u] ELSE Torn]
    /\ Goto(u, IF Windows /\ Head(todo[u]) = Bin THEN "remove" ELSE "replace")
    /\ UNCHANGED <<sysVars, disk, old, starts, runVars, todo, want, result>>

\* ... on Windows the binary that an earlier upgrade left is removed, unless it is
\* in use: the error is ignored ...
RemoveOld(u) ==
    /\ pc[u] = "remove"
    /\ old' = IF Locked("old") THEN old ELSE Absent
    /\ Goto(u, "aside")
    /\ UNCHANGED <<sysVars, disk, starts, runVars, todo, want, tmp, result>>

\* Mutant: this program is deleted instead of moved aside.
MoveAsideDeletes(u) ==
    /\ pc[u] = "aside"
    /\ disk[Bin] # Absent
    /\ disk' = [disk EXCEPT ![Bin] = Absent]
    /\ Goto(u, "replace")
    /\ UNCHANGED <<sysVars, old, starts, runVars, todo, want, tmp, result>>

\* ... this program is moved aside, with the images that run from it ...
MoveAside(u) ==
    /\ pc[u] = "aside"
    /\ disk[Bin] # Absent /\ ~Locked("old")
    /\ old' = disk[Bin]
    /\ disk' = [disk EXCEPT ![Bin] = Absent]
    /\ image' = [v \in Upgrader |-> IF image[v] = "bin" THEN "old" ELSE image[v]]
    /\ service' = IF service = "bin" THEN "old" ELSE service
    /\ Goto(u, "replace")
    /\ UNCHANGED <<latest, release, starts, me, tag, sound, todo, want, tmp, result>>

MoveAsideFails(u) ==
    /\ pc[u] = "aside"
    /\ disk[Bin] = Absent \/ Locked("old")
    /\ Return(u, "error")

\* ... and the temporary file is renamed onto the target.
Replace(u) ==
    /\ pc[u] = "replace"
    /\ LET f == Head(todo[u]) IN
         /\ f = Bin => ~Locked("bin")
         /\ disk' = [disk EXCEPT ![f] = tmp[u]]
         /\ want' = [want EXCEPT ![u] = @ \ {f}]
    /\ todo' = [todo EXCEPT ![u] = Tail(@)]
    /\ tmp' = [tmp EXCEPT ![u] = Absent]
    /\ Goto(u, "walk")
    /\ UNCHANGED <<sysVars, old, starts, runVars, result>>

\* Mutant: nobody looks for members that are missing.
FinishAnyway(u) ==
    /\ pc[u] = "walk" /\ todo[u] = <<>>
    /\ Return(u, "ok")

\* The archive is at its end: with a member missing the upgrade failed.
Finish(u) ==
    /\ pc[u] = "walk" /\ todo[u] = <<>>
    /\ Return(u, IF want[u] = {} THEN "ok" ELSE "error")

\* Mutant: a file that cannot be written is left out and the walk goes on.
FailGoesOn(u) ==
    \/ pc[u] \notin {"idle", "verify", "fill"} /\ Return(u, "error")
    \/ /\ pc[u] = "fill"
       /\ Goto(u, "walk")
       /\ todo' = [todo EXCEPT ![u] = Tail(@)]
       /\ tmp' = [tmp EXCEPT ![u] = Absent]
       /\ UNCHANGED <<sysVars, disk, old, starts, runVars, want, result>>

\* Any call fails: the network, a full disk, a directory that is not ours.
Fail(u) == pc[u] \notin {"idle", "verify"} /\ Return(u, "error")

\* Killed, or crashed: the temporary file stays behind and matters to nobody.
Crash(u) == pc[u] # "idle" /\ Return(u, "crashed")

\* Around the command: releases come out, the service starts and stops.
Publish ==
    /\ latest < MaxVersion /\ latest' = latest + 1
    /\ UNCHANGED <<release, service, disk, old, starts, pc, runVars, todo, want, tmp, result>>

StartService ==
    /\ service = "none" /\ disk[Bin] \in Version /\ service' = "bin"
    /\ UNCHANGED <<latest, release, disk, old, starts, pc, runVars, todo, want, tmp, result>>

StopService ==
    /\ service # "none" /\ service' = "none"
    /\ UNCHANGED <<latest, release, disk, old, starts, pc, runVars, todo, want, tmp, result>>
----------------------------------------------------------------------------
Step(u) ==
    \/ Start(u) \/ Ask(u) \/ Download(u) \/ Verify(u) \/ VerifyFails(u) \/ Skip(u)
    \/ CreateTemp(u) \/ Fill(u) \/ RemoveOld(u) \/ MoveAside(u) \/ MoveAsideFails(u) \/ Replace(u)
    \/ Finish(u) \/ Fail(u) \/ Crash(u)

Next == (\E u \in Upgrader : Step(u)) \/ Publish \/ StartService \/ StopService

Spec == Init /\ [][Next]_vars
----------------------------------------------------------------------------
\* What may be where f is installed: one whole file of one release, or nothing yet.
Whole(f) == Version \cup IF f \in Shipped THEN {} ELSE {Absent}

\* "writeFile replaces dst atomically" (upgrade.go:315, 216): whatever fails, stops
\* or overlaps, every installed file is one whole file of one release.
FilesWhole == \A f \in File : disk[f] \in Whole(f)

\* Where the binary has to be moved aside first (upgrade.go:341-347) it is never
\* gone: when its place is empty, the one moved aside is whole and still there.
BinaryNotLost ==
    /\ disk[Bin] \in Version \cup {Absent}
    /\ disk[Bin] = Absent => old \in Version
    /\ \A f \in File \ {Bin} : disk[f] \in Whole(f)

(***************************************************************************)
(* The inductive invariant behind BinaryNotLost and, where nothing has to  *)
(* be moved aside, FilesWhole.  While the binary's place is empty every    *)
(* upgrade still under way runs from the one that was moved aside, and     *)
(* that is what keeps the next one from removing it.                       *)
(***************************************************************************)
WritePlace(u) ==
    /\ pc[u] \in {"walk", "fill", "remove", "aside", "replace"} => sound[u]
    /\ pc[u] \in {"remove", "aside"} => Windows
    /\ pc[u] \in {"remove", "aside", "replace"} => tmp[u] = tag[u]
    /\ pc[u] # "idle" => image[u] # "none"
    /\ disk[Bin] = Absent => image[u] # "bin"

UpgradeInv ==
    /\ BinaryNotLost
    /\ disk[Bin] = Absent => Windows
    /\ \A u \in Upgrader : WritePlace(u)
=============================================================================
