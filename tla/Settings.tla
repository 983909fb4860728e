------------------------------ MODULE Settings ------------------------------
(***************************************************************************)
(* Where a setting comes from and where it goes: the command line, the     *)
(* environment and two .env files (cmd/tailscale-socks: env.go, flags.go,  *)
(* config.go), the preferences a run stores (internal/tsnode: prefsFor,    *)
(* setExitNode), and the variables ts_proxy derives from                   *)
(* `tailscale-socks config' (contrib/tailscale-socks.zsh), while files and *)
(* environment are edited under a node that runs.                          *)
(***************************************************************************)
EXTENDS Naturals, Sequences, Functions

CONSTANTS
    Peer,       \* exit nodes, as peer name or IP: neither "" nor auto
    MaxEdits,   \* bound: edits of files and environment
    MaxRuns     \* bound: runs

Unset == "unset"
Blank == ""

ASSUME SettingsAssumption == /\ Peer \cap {Blank, "auto", Unset} = {}
                             /\ MaxEdits \in Nat /\ MaxRuns \in Nat

Key == {"socks5", "http", "exitNode", "acceptRoutes"}

\* "" disables a listener or the exit node; "bad" is no boolean.
Values == [socks5 |-> {Blank, "custom"}, http |-> {Blank},
           exitNode |-> {Blank, "auto"} \cup Peer, acceptRoutes |-> {"false", "bad"}]
Default == [socks5 |-> "default", http |-> "default", exitNode |-> Blank, acceptRoutes |-> "true"]
NoneSet == [k \in Key |-> Unset]
OneSet  == {[NoneSet EXCEPT ![s[1]] = s[2]] : s \in UNION {{k} \X Values[k] : k \in Key}}

Path == <<"beside", "home">>    \* .env beside the executable, ~/.tailscale/.env

VARIABLES
    file,       \* [path -> [state : absent, broken, good; set : key -> value]]
    shell,      \* TSPROXY_ variables the user's shell exports
    edits,
    node,       \* the run: off, starting, up
    by,         \* who started it: none, service, shell; "flags" for a shell with flags
    run,        \* its settings
    wanted,     \* what its sources name, read by rank
    since,      \* edits when it started
    runs,
    prefs,      \* stored in the state directory: auto, id, ip, routes
    stored,     \* wanted of the last run that stored them
    proxy,      \* the shell's variables: http_proxy and the like, ALL_PROXY, NO_PROXY
    proxyAt     \* edits when ts_proxy last set them

editVars == <<file, shell, edits>>
runVars  == <<node, by, run, wanted, since, runs>>
prefVars == <<prefs, stored>>
vars == <<editVars, runVars, prefVars, proxy, proxyAt>>

NoProxy == [http |-> Unset, socks5 |-> Unset, bypass |-> FALSE]

\* What a setting can be, and all the settings at once.
Setting == {Unset} \cup {Default[k] : k \in Key} \cup UNION {Values[k] : k \in Key}
Asked   == [Key -> Setting]

TypeOK ==
    /\ file \in [Range(Path) -> [state : {"absent", "broken", "good"}, set : Asked]]
    /\ shell \in Asked /\ edits \in 0 .. MaxEdits
    /\ node \in {"off", "starting", "up"} /\ by \in {"none", "service", "shell", "flags"}
    /\ run \in Asked /\ wanted \in Asked /\ since \in 0 .. edits /\ runs \in 0 .. MaxRuns
    /\ prefs \in [auto : {Blank, "any"}, id : {Blank} \cup Peer, ip : {Blank} \cup Peer, routes : BOOLEAN]
    /\ stored \in Seq(Asked) /\ Len(stored) <= 1
    /\ proxy \in [http : Setting, socks5 : Setting, bypass : BOOLEAN] /\ proxyAt \in 0 .. edits

Init ==
    /\ file = [p \in Range(Path) |-> [state |-> "absent", set |-> NoneSet]]
    /\ shell = NoneSet /\ edits = 0
    /\ node = "off" /\ by = "none" /\ run = Default /\ wanted = Default /\ since = 0 /\ runs = 0
    /\ prefs = [auto |-> Blank, id |-> Blank, ip |-> Blank, routes |-> FALSE] /\ stored = <<>>
    /\ proxy = NoProxy /\ proxyAt = 0
----------------------------------------------------------------------------
(* Reading the settings.                                                   *)

\* Mutant: what a file says replaces what is there.
LoadOver(env, f) ==
    IF file[f].state # "good" THEN env
    ELSE [k \in Key |-> IF file[f].set[k] # Unset THEN file[f].set[k] ELSE env[k]]

\* godotenv.Load: a file that does not parse sets nothing, and none sets what is
\* set already, be it to nothing.
Load(env, f) ==
    IF file[f].state # "good" THEN env
    ELSE [k \in Key |-> IF env[k] = Unset THEN file[f].set[k] ELSE env[k]]

LoadDotEnvs(env) == Load(Load(env, Path[1]), Path[2])

\* kong gives every flag its variable's value before it looks at the command line,
\* so that one bad value fails every command.
Parses(env) == env["acceptRoutes"] # "bad"
Parse(flags, env) ==
    [k \in Key |-> IF flags[k] # Unset THEN flags[k]
                   ELSE IF env[k] # Unset THEN env[k] ELSE Default[k]]

\* Mutant: `config' does not read the files.
ConfigShellOnly(k) == IF Parses(shell) THEN Parse(NoneSet, shell)[k] ELSE Blank

\* `config KEY' in the user's shell, and `_ts_cfg': nothing where it fails.
Config(k) ==
    LET env == LoadDotEnvs(shell) IN IF Parses(env) THEN Parse(NoneSet, env)[k] ELSE Blank

\* The reference (docs/configuration.md:9-14): by rank, each source on its own.
Says(f) == IF file[f].state = "good" THEN file[f].set ELSE NoneSet
Sources(flags, env) == <<flags, env, Says(Path[1]), Says(Path[2]), Default>>
Named(flags, env) ==
    [k \in Key |-> LET all == Sources(flags, env)
                       first == CHOOSE i \in DOMAIN all :
                                    all[i][k] # Unset /\ \A j \in 1 .. i - 1 : all[j][k] = Unset
                   IN  all[first][k]]
----------------------------------------------------------------------------
(* The preferences.                                                        *)

\* Mutant: AutoExitNodeSet is left out.
MaskNoAuto == {"id", "ip", "routes"}

\* Every field this program owns, or EditPrefs keeps the last run's.
Mask == {"auto", "id", "ip", "routes"}

PrefsFor(s) ==
    [auto |-> IF s["exitNode"] = "auto" THEN "any" ELSE Blank,
     id |-> Blank,
     ip |-> IF s["exitNode"] \in Peer THEN s["exitNode"] ELSE Blank,
     routes |-> s["acceptRoutes"] = "true"]

EditPrefs(old, new) == [f \in DOMAIN old |-> IF f \in Mask THEN new[f] ELSE old[f]]
----------------------------------------------------------------------------
(* The program.                                                            *)
Over == /\ node' = "off" /\ by' = "none" /\ since' = 0
        /\ run' = Default /\ wanted' = Default

Start(who, flags, env) ==
    /\ node = "off" /\ runs < MaxRuns /\ runs' = runs + 1
    /\ LET loaded == LoadDotEnvs(env) IN
         \/ /\ Parses(loaded)
            /\ node' = "starting" /\ by' = who /\ since' = edits
            /\ run' = Parse(flags, loaded) /\ wanted' = Named(flags, env)
         \/ ~Parses(loaded) /\ Over
    /\ UNCHANGED <<editVars, prefVars, proxy, proxyAt>>

\* A service gets neither the shell's variables nor a flag; kong takes no bad flag.
StartService == Start("service", NoneSet, NoneSet)
StartShell   == Start("shell", NoneSet, shell)
StartFlags   == \E flags \in OneSet : flags["acceptRoutes"] # "bad" /\ Start("flags", flags, shell)

ApplyPrefs ==
    /\ node = "starting" /\ node' = "up"
    /\ prefs' = EditPrefs(prefs, PrefsFor(run))
    /\ stored' = <<wanted>>
    /\ UNCHANGED <<editVars, by, run, wanted, since, runs, proxy, proxyAt>>

\* A peer nobody knows, or anything else before that; the end of a run.
Stop ==
    /\ node # "off" /\ Over
    /\ UNCHANGED <<editVars, runs, prefVars, proxy, proxyAt>>

\* tsnet turns an address into a node, and suggests one where that is automatic.
ExitNodeFound ==
    /\ node = "up"
    /\ \/ prefs.ip # Blank /\ prefs' = [prefs EXCEPT !.id = prefs.ip, !.ip = Blank]
       \/ prefs.auto # Blank /\ \E p \in Peer : prefs' = [prefs EXCEPT !.id = p]
    /\ UNCHANGED <<editVars, runVars, stored, proxy, proxyAt>>
----------------------------------------------------------------------------
(* The user.                                                               *)
Edited == edits < MaxEdits /\ edits' = edits + 1

EditFile ==
    /\ Edited
    /\ \E p \in Range(Path) :
         \/ \E s \in OneSet, k \in Key : s[k] # Unset /\
              file' = [file EXCEPT ![p] = [state |-> "good", set |-> [@.set EXCEPT ![k] = s[k]]]]
         \/ file[p].state = "good" /\ file' = [file EXCEPT ![p].state = "broken"]
         \/ file' = [file EXCEPT ![p] = [state |-> "absent", set |-> NoneSet]]
    /\ UNCHANGED <<shell, runVars, prefVars, proxy, proxyAt>>

Export ==
    /\ Edited
    /\ \E k \in Key : \E v \in Values[k] \cup {Unset} : shell' = [shell EXCEPT ![k] = v]
    /\ UNCHANGED <<file, runVars, prefVars, proxy, proxyAt>>

Enabled(addr) == IF addr = Blank THEN Unset ELSE addr

\* Mutant: what is not enabled keeps its variable.
ProxyOnKeeping ==
    /\ Config("socks5") # Blank \/ Config("http") # Blank
    /\ proxy' = [http |-> IF Config("http") = Blank THEN proxy.http ELSE Config("http"),
                 socks5 |-> IF Config("socks5") = Blank THEN proxy.socks5 ELSE Config("socks5"),
                 bypass |-> TRUE]
    /\ proxyAt' = edits
    /\ UNCHANGED <<editVars, runVars, prefVars>>

\* ts_proxy on: with no listener at all it returns before it touches a variable.
ProxyOn ==
    /\ Config("socks5") # Blank \/ Config("http") # Blank
    /\ proxy' = [http |-> Enabled(Config("http")), socks5 |-> Enabled(Config("socks5")),
                 bypass |-> TRUE]
    /\ proxyAt' = edits
    /\ UNCHANGED <<editVars, runVars, prefVars>>

ProxyOff ==
    /\ proxy # NoProxy /\ proxy' = NoProxy
    /\ proxyAt' = 0
    /\ UNCHANGED <<editVars, runVars, prefVars>>
----------------------------------------------------------------------------
Next == \/ StartService \/ StartShell \/ StartFlags \/ ApplyPrefs \/ Stop
        \/ ExitNodeFound \/ EditFile \/ Export \/ ProxyOn \/ ProxyOff

Spec == Init /\ [][Next]_vars
----------------------------------------------------------------------------
\* The last run that got that far decides what is stored (node.go:160-190,
\* exitnode.go:19-40): the preferences are those the strongest source named when it
\* started, and nothing of an earlier run or of what tsnet chose meanwhile is left.
StoredAsAsked ==
    stored # <<>> =>
        LET exit == stored[1]["exitNode"] IN
        /\ prefs.routes = (stored[1]["acceptRoutes"] = "true")
        /\ exit = Blank     => prefs.auto = Blank /\ prefs.id = Blank /\ prefs.ip = Blank
        /\ exit = "auto" => prefs.auto = "any" /\ prefs.ip = Blank
        /\ exit \in Peer => prefs.auto = Blank /\ {prefs.id, prefs.ip} = {Blank, exit}

\* "a listener disabled since the last call must not leave its variable behind"
\* (tailscale-socks.zsh:187-188): ts_proxy on that succeeds, whether it changes a
\* variable or follows an edit and changes none, leaves a variable for every
\* listener the strongest source enables, and no other.
ProxyAsConfigured ==
    [][<<proxy, proxyAt>>' # <<proxy, proxyAt>> /\ proxy' # NoProxy =>
         LET now == Named(NoneSet, shell) IN
         proxy' = [http |-> Enabled(now["http"]), socks5 |-> Enabled(now["socks5"]),
                   bypass |-> TRUE]]_vars

\* The variables point at what the node serves (tailscale-socks.zsh:79-87): if it was
\* started as a service and the shell exports nothing, or started from that shell
\* without flags, and nothing was edited since it started and since ts_proxy on.
ProxyReachesNode ==
    /\ node = "up" /\ since = edits
    /\ proxy # NoProxy /\ proxyAt = edits
    /\ by = "shell" \/ (by = "service" /\ shell = NoneSet)
    => proxy.http = Enabled(run["http"]) /\ proxy.socks5 = Enabled(run["socks5"])
=============================================================================
