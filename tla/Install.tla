------------------------------ MODULE Install ------------------------------
(***************************************************************************)
(* contrib/install.sh, run again and again beside upgrades: it writes the  *)
(* same binary and helpers from a release of its own choosing, does not    *)
(* write the template, and touches two files that are the user's.          *)
(***************************************************************************)
EXTENDS MCUpgrade

CONSTANT MaxInstalls    \* bound: runs of the installer

\* install.sh knows the files it writes by name.
ASSUME InstallAssumption ==
    /\ Bin = bin /\ Shipped = {bin, zsh} /\ bin # zsh
    /\ MaxInstalls \in Nat

VARIABLES
    step,       \* of the installer: idle, or what it writes next
    archive,    \* Version: the release it downloaded
    installs,   \* runs of the installer so far
    envFile,    \* ~/.tailscale/.env: absent, template, user's
    zshrc,      \* lines of .zshrc that name the helpers, in order: ours, user's
    past        \* cut: an install stopped behind the binary; overlap: two ran at once

instVars == <<step, archive, installs, envFile, zshrc>>
allVars  == <<vars, instVars, past>>

\* Whatever the user has written or taken away since the first install.
InstallInit ==
    /\ Init /\ release[0] = release[1]      \* bound: two kinds of archives
    /\ step = "idle" /\ archive = 0 /\ installs = 0
    /\ envFile \in {"absent", "user's"}
    /\ zshrc = IF envFile = "absent" THEN <<>> ELSE <<"user's">>
    /\ past = {}
----------------------------------------------------------------------------
Carries(f) == f \in Range(release[archive])

\* curl, tar, mkdir: the latest release, whole or not at all.
Fetch ==
    /\ step = "idle" /\ installs < MaxInstalls
    /\ installs' = installs + 1
    /\ archive' = latest /\ step' = "bin"
    /\ UNCHANGED <<disk, envFile, zshrc>>

\* install_file: a temporary file, renamed onto the target.
InstallFile(s, f, next) ==
    /\ step = s /\ Carries(f)
    /\ disk' = [disk EXCEPT ![f] = archive]
    /\ step' = next
    /\ UNCHANGED <<archive, installs, envFile, zshrc>>

InstallBin == InstallFile("bin", bin, "zsh")
InstallZsh == InstallFile("zsh", zsh, "env")

\* Mutant: the template is copied over whatever is there.
InstallEnvAlways ==
    /\ step = "env" /\ step' = "zshrc"
    /\ Carries(env) /\ envFile' = "template"
    /\ UNCHANGED <<disk, archive, installs, zshrc>>

\* [ ! -e "$env_file" ]: only for a user who has none.
InstallEnv ==
    /\ step = "env" /\ step' = "zshrc"
    /\ \/ envFile # "absent" /\ UNCHANGED envFile
       \/ envFile = "absent" /\ Carries(env) /\ envFile' = "template"
    /\ UNCHANGED <<disk, archive, installs, zshrc>>

\* grep -qF: a line that names the helpers, whoever wrote it, is left alone.
AppendLine ==
    /\ step = "zshrc" /\ step' = "idle"
    /\ zshrc' = IF zshrc = <<>> THEN <<"ours">> ELSE zshrc
    /\ UNCHANGED <<disk, archive, installs, envFile>>

\* Any call fails, a file is missing from the archive, or somebody presses ^C.
InstallStops ==
    /\ step # "idle" /\ step' = "idle"
    /\ UNCHANGED <<disk, archive, installs, envFile, zshrc>>
----------------------------------------------------------------------------
Installer ==
    /\ \/ Fetch \/ InstallBin \/ InstallZsh \/ InstallEnv \/ AppendLine \/ InstallStops
    /\ UNCHANGED <<sysVars, old, starts, pc, runVars, todo, want, tmp, result>>

\* More than one runs: two upgrades, or one beside the installer.
Overlap ==
    \E u \in Upgrader :
        /\ pc[u] # "idle"
        /\ step # "idle" \/ \E v \in Upgrader \ {u} : pc[v] # "idle"

\* The installer stopped between the binary and the helpers; more than one ran.
Remember ==
    past' = past \cup (IF step = "zsh" /\ step' = "idle" THEN {"cut"} ELSE {})
                 \cup (IF Overlap' THEN {"overlap"} ELSE {})

\* A service makes no difference except on Windows, where install.sh is not looked at.
Upgrades == Publish \/ \E u \in Upgrader : Step(u)

InstallNext == /\ Installer \/ (Upgrades /\ UNCHANGED instVars)
               /\ Remember

InstallSpec == InstallInit /\ [][InstallNext]_allVars
----------------------------------------------------------------------------
Answers(u, r) == result[u] # r /\ result'[u] = r

\* `upgrade' that reports success has replaced every file (upgrade.go:101-104,
\* 260-262), whatever stopped before: none was passed over and none came from
\* another release.  Only what runs at the same time can spoil it.
SuccessIsComplete ==
    [][\A u \in Upgrader : Answers(u, "ok") /\ "overlap" \notin past
         => \A f \in File : disk'[f] = tag[u]]_allVars

\* "already the latest" (upgrade.go:80-84) speaks of the binary; README.md:57 says
\* the helpers are refreshed along with it.  They are, after any number of upgrades
\* that failed or were killed and of installs in between, unless an install stopped
\* behind the binary, which it writes first (install.sh:100).
LatestMeansPrograms ==
    [][\A u \in Upgrader : Answers(u, "latest") /\ past = {}
         => \A f \in Shipped : disk[f] = tag'[u]]_allVars

\* "Your ~/.tailscale/.env is never touched", "a line you disabled stays disabled, and
\* running the installer twice does not add it twice" (README.md:53-57): neither a
\* second run nor one that completes a first that stopped.
KeepsTheUsers ==
    [][/\ envFile = "user's" => envFile' # "template"
       /\ zshrc # <<>> /\ step # "idle" => zshrc' = zshrc]_allVars
=============================================================================
