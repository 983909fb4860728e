--------------------------- MODULE Settings_proofs ---------------------------
(***************************************************************************)
(* Theorems about Settings, for any exit nodes and any number of edits.    *)
(***************************************************************************)
EXTENDS Settings, TLAPS

\* A run has the settings its sources name by rank, whatever is edited later.
RunInv == node # "off" => run = wanted

\* What is stored is what the last run asked for: an address until tsnet knows the
\* node, an automatic exit node until tsnet chooses another.
StoredInv ==
    stored # <<>> =>
        LET exit == stored[1]["exitNode"] IN
        /\ prefs.routes = (stored[1]["acceptRoutes"] = "true")
        /\ prefs.auto = IF exit = "auto" THEN "any" ELSE Blank
        /\ exit = Blank     => prefs.id = Blank /\ prefs.ip = Blank
        /\ exit = "auto" => prefs.ip = Blank
        /\ exit \in Peer => \/ prefs.id = exit /\ prefs.ip = Blank
                            \/ prefs.id = Blank /\ prefs.ip = exit

\* Until the next edit, a run without flags has what its environment and the files say.
FreshRun ==
    node # "off" /\ since = edits /\ by \in {"service", "shell"} =>
        LET env == LoadDotEnvs(IF by = "shell" THEN shell ELSE NoneSet) IN
        Parses(env) /\ run = Parse(NoneSet, env)

\* Until the next edit, the variables are what `config' prints.
FreshProxy ==
    proxy # NoProxy /\ proxyAt = edits =>
        proxy.http = Enabled(Config("http")) /\ proxy.socks5 = Enabled(Config("socks5"))

\* A setting of an exit node is one, wherever it is said.
ExitNode == {Blank, "auto"} \cup Peer
ExitNodesAsked ==
    /\ \A f \in Range(Path) : file[f].set["exitNode"] \in ExitNode \cup {Unset}
    /\ shell["exitNode"] \in ExitNode \cup {Unset}
    /\ run["exitNode"] \in ExitNode

SettingsInv == ExitNodesAsked /\ RunInv /\ StoredInv /\ FreshRun /\ FreshProxy
----------------------------------------------------------------------------
(* Reading the settings.                                                   *)
LEMMA Distinct ==
  /\ Blank \notin {"auto", "any", "true", "default", Unset} /\ Unset \notin {"true", "default"}
  /\ \A p \in Peer : p \notin {Blank, "auto", Unset}
  /\ MaxEdits \in Nat /\ MaxRuns \in Nat
  BY SettingsAssumption, Zenon DEF Blank, Unset

LEMMA SettingFacts ==
  /\ NoneSet \in Asked /\ Default \in Asked /\ \A k \in Key : NoneSet[k] = Unset /\ Default[k] # Unset
  /\ \A k \in Key : Values[k] \subseteq Setting
  /\ Unset \in Setting /\ Blank \in Setting
<1>1. /\ \A k \in Key : Values[k] \subseteq Setting /\ Default[k] \in Setting
      /\ Unset \in Setting
  <2>1. ASSUME NEW k \in Key PROVE Values[k] \subseteq Setting
    BY Zenon DEF Setting
  <2>2. ASSUME NEW k \in Key PROVE Default[k] \in Setting
    BY Zenon DEF Setting
  <2>3. Unset \in Setting
    BY Zenon DEF Setting
  <2> QED
    BY <2>1, <2>2, <2>3
<1>2. \A k \in Key : NoneSet[k] = Unset /\ Default[k] # Unset
  BY Distinct DEF NoneSet, Default, Key
<1>3. Blank \in Setting
  <2>1. "http" \in Key /\ Blank \in Values["http"]
    BY DEF Key, Values
  <2> QED
    BY <1>1, <2>1
<1>4. NoneSet \in Asked
  BY <1>1 DEF NoneSet, Asked
<1>5. Default \in Asked
  <2>1. Default = [k \in Key |-> Default[k]]
    BY DEF Default, Key
  <2> QED
    BY <1>1, <2>1 DEF Asked
<1> QED
  BY <1>1, <1>2, <1>3, <1>4, <1>5

LEMMA PathFacts ==
  Range(Path) = {"beside", "home"} /\ Path[1] = "beside" /\ Path[2] = "home"
  BY DEF Path, Range

LEMMA SaysFacts ==
  ASSUME TypeOK, NEW f \in Range(Path) PROVE Says(f) \in Asked
  BY SettingFacts DEF TypeOK, Says

LEMMA LoadFacts ==
  ASSUME TypeOK, NEW f \in Range(Path), NEW env \in Asked
  PROVE  /\ Load(env, f) \in Asked
         /\ \A k \in Key : Load(env, f)[k] = IF env[k] = Unset THEN Says(f)[k] ELSE env[k]
<1>1. CASE file[f].state # "good"
  BY <1>1, SettingFacts DEF Load, Says, Asked
<1>2. CASE file[f].state = "good"
  BY <1>2, SaysFacts DEF Load, Says, Asked
<1> QED
  BY <1>1, <1>2

LEMMA LoadedFacts ==
  ASSUME TypeOK, NEW env \in Asked
  PROVE  /\ LoadDotEnvs(env) \in Asked
         /\ \A k \in Key : LoadDotEnvs(env)[k] =
              IF env[k] # Unset THEN env[k]
              ELSE IF Says("beside")[k] # Unset THEN Says("beside")[k] ELSE Says("home")[k]
<1>1. /\ Load(env, "beside") \in Asked
      /\ \A k \in Key : Load(env, "beside")[k] = IF env[k] = Unset THEN Says("beside")[k] ELSE env[k]
  BY PathFacts, LoadFacts
<1>2. /\ Load(Load(env, "beside"), "home") \in Asked
      /\ \A k \in Key : Load(Load(env, "beside"), "home")[k] =
           IF Load(env, "beside")[k] = Unset THEN Says("home")[k] ELSE Load(env, "beside")[k]
  BY <1>1, PathFacts, LoadFacts
<1>3. LoadDotEnvs(env) = Load(Load(env, "beside"), "home")
  BY PathFacts DEF LoadDotEnvs
<1> QED
  BY <1>1, <1>2, <1>3

LEMMA ParseFacts ==
  ASSUME NEW flags \in Asked, NEW env \in Asked PROVE Parse(flags, env) \in Asked
  BY SettingFacts DEF Parse, Asked

\* The program's way, to put the files into the environment before the flags take
\* their values from it, gives every setting its strongest source
\* (env.go:28-53, docs/configuration.md:9-14).
THEOREM ParsedIsNamed ==
  ASSUME TypeOK, NEW flags \in Asked, NEW env \in Asked
  PROVE  Parse(flags, LoadDotEnvs(env)) = Named(flags, env)
<1> DEFINE all == Sources(flags, env)
           First(k, i) == all[i][k] # Unset /\ \A j \in 1 .. i - 1 : all[j][k] = Unset
           first(k) == CHOOSE i \in DOMAIN all : First(k, i)
<1>1. /\ DOMAIN all = 1 .. 5 /\ all[1] = flags /\ all[2] = env /\ all[3] = Says("beside")
      /\ all[4] = Says("home") /\ all[5] = Default
  BY PathFacts DEF Sources
<1> HIDE DEF all
<1>2. ASSUME NEW k \in Key PROVE Parse(flags, LoadDotEnvs(env))[k] = all[first(k)][k]
  <2>1. \E i \in DOMAIN all : First(k, i)
    <3>1. all[5][k] # Unset
      BY <1>1, SettingFacts
    <3>2. CASE all[1][k] # Unset
      BY <1>1, <3>2
    <3>3. CASE all[1][k] = Unset /\ all[2][k] # Unset
      BY <1>1, <3>3
    <3>4. CASE all[1][k] = Unset /\ all[2][k] = Unset /\ all[3][k] # Unset
      BY <1>1, <3>4
    <3>5. CASE all[1][k] = Unset /\ all[2][k] = Unset /\ all[3][k] = Unset /\ all[4][k] # Unset
      BY <1>1, <3>5
    <3>6. CASE \A j \in 1 .. 4 : all[j][k] = Unset
      BY <1>1, <3>1, <3>6
    <3> QED
      BY <3>2, <3>3, <3>4, <3>5, <3>6
  <2>2. first(k) \in 1 .. 5 /\ First(k, first(k))
    BY <1>1, <2>1
  <2> HIDE DEF first
  <2>3. Parse(flags, LoadDotEnvs(env))[k] =
          IF all[1][k] # Unset THEN all[1][k]
          ELSE IF all[2][k] # Unset THEN all[2][k]
          ELSE IF all[3][k] # Unset THEN all[3][k]
          ELSE IF all[4][k] # Unset THEN all[4][k] ELSE all[5][k]
    BY <1>1, LoadedFacts DEF Parse
  <2>4. first(k) = 1 \/ first(k) = 2 \/ first(k) = 3 \/ first(k) = 4 \/ first(k) = 5
    BY <2>2
  <2> QED
    BY <2>2, <2>3, <2>4
<1>3. Named(flags, env) = [k \in Key |-> all[first(k)][k]]
  BY DEF Named, all
<1>4. Parse(flags, LoadDotEnvs(env)) = [k \in Key |-> Parse(flags, LoadDotEnvs(env))[k]]
  BY DEF Parse
<1> QED
  BY <1>2, <1>3, <1>4
----------------------------------------------------------------------------
(* The steps, as far as the proofs need them.                              *)
LEMMA OneSetFacts == OneSet \subseteq Asked
<1> SUFFICES ASSUME NEW k \in Key, NEW v \in Values[k] PROVE [NoneSet EXCEPT ![k] = v] \in Asked
  BY DEF OneSet
<1> QED
  BY SettingFacts DEF Asked

\* A run that starts has the settings its sources name, and they parse.
LEMMA StartFacts ==
  ASSUME TypeOK, NEW who, NEW flags \in Asked, NEW env \in Asked, Start(who, flags, env)
  PROVE  /\ UNCHANGED <<editVars, prefVars, proxy, proxyAt>> /\ runs' \in 0 .. MaxRuns
         /\ \/ /\ node' = "starting" /\ by' = who /\ since' = edits
               /\ run' = Parse(flags, LoadDotEnvs(env)) /\ Parses(LoadDotEnvs(env))
               /\ run' \in Asked /\ wanted' = run'
            \/ Over
<1>1. LoadDotEnvs(env) \in Asked
  BY LoadedFacts
<1>2. Parse(flags, LoadDotEnvs(env)) \in Asked /\ Named(flags, env) = Parse(flags, LoadDotEnvs(env))
  BY <1>1, ParseFacts, ParsedIsNamed
<1>3. runs' \in 0 .. MaxRuns
  <2>1. runs < MaxRuns /\ runs' = runs + 1
    BY DEF Start
  <2>2. runs \in 0 .. MaxRuns
    BY DEF TypeOK
  <2> QED
    BY <2>1, <2>2, Distinct
<1> QED
  BY <1>2, <1>3 DEF Start

\* Who starts a run, and from what.
LEMMA Starts ==
  ASSUME TypeOK, StartService \/ StartShell \/ StartFlags
  PROVE  \E who \in {"service", "shell", "flags"}, flags \in Asked, env \in Asked :
           /\ Start(who, flags, env)
           /\ who \in {"service", "shell"} =>
                flags = NoneSet /\ env = IF who = "shell" THEN shell ELSE NoneSet
<1>1. NoneSet \in Asked /\ shell \in Asked
  BY SettingFacts DEF TypeOK
<1>2. CASE StartService
  BY <1>1, <1>2 DEF StartService
<1>3. CASE StartShell
  BY <1>1, <1>3 DEF StartShell
<1>4. CASE StartFlags
  BY <1>1, <1>4, OneSetFacts DEF StartFlags
<1> QED
  BY <1>2, <1>3, <1>4

LEMMA ConfigFacts ==
  ASSUME TypeOK, NEW k \in Key
  PROVE  /\ Config(k) \in Setting
         /\ Config(k) # Blank => Config(k) = Named(NoneSet, shell)[k]
         /\ Parses(LoadDotEnvs(shell)) => Config(k) = Parse(NoneSet, LoadDotEnvs(shell))[k]
<1>1. NoneSet \in Asked /\ shell \in Asked /\ LoadDotEnvs(shell) \in Asked /\ Blank \in Setting
  BY SettingFacts, LoadedFacts DEF TypeOK
<1>2. /\ Parse(NoneSet, LoadDotEnvs(shell)) \in Asked
      /\ Parse(NoneSet, LoadDotEnvs(shell)) = Named(NoneSet, shell)
  BY <1>1, ParseFacts, ParsedIsNamed
<1> QED
  BY <1>1, <1>2 DEF Config, Asked

\* The preferences a run asks for, all of them (node.go:160-190).
LEMMA PrefsFacts ==
  ASSUME TypeOK, NEW s \in Asked
  PROVE  EditPrefs(prefs, PrefsFor(s)) = PrefsFor(s)
<1>1. prefs = [auto |-> prefs.auto, id |-> prefs.id, ip |-> prefs.ip, routes |-> prefs.routes]
  BY DEF TypeOK
<1>2. DOMAIN prefs = Mask
  BY <1>1 DEF Mask
<1>3. EditPrefs(prefs, PrefsFor(s)) = [f \in Mask |-> PrefsFor(s)[f]]
  BY <1>2 DEF EditPrefs
<1>4. PrefsFor(s) = [f \in Mask |-> PrefsFor(s)[f]]
  BY DEF PrefsFor, Mask
<1> QED
  BY <1>3, <1>4
----------------------------------------------------------------------------
\* Every variable keeps its type, whatever is edited, started and chosen.
THEOREM SettingsTypeCorrect == Spec => []TypeOK
<1>1. Init => TypeOK
  <2> SUFFICES ASSUME Init PROVE TypeOK
    OBVIOUS
  <2>1. file \in [Range(Path) -> [state : {"absent", "broken", "good"}, set : Asked]]
    BY SettingFacts DEF Init
  <2>2. proxy \in [http : Setting, socks5 : Setting, bypass : BOOLEAN]
    BY SettingFacts DEF Init, NoProxy
  <2> QED
    BY <2>1, <2>2, SettingFacts, Distinct DEF Init, TypeOK
<1>2. TypeOK /\ [Next]_vars => TypeOK'
  <2> SUFFICES ASSUME TypeOK, [Next]_vars PROVE TypeOK'
    OBVIOUS
  <2> USE DEF editVars, runVars, prefVars
  <2>1. CASE StartService \/ StartShell \/ StartFlags
    <3>1. PICK who \in {"service", "shell", "flags"}, flags \in Asked, env \in Asked :
            Start(who, flags, env)
      BY <2>1, Starts
    <3>2. CASE Over
      BY <3>1, <3>2, StartFacts, SettingFacts DEF Over, TypeOK
    <3>3. CASE node' = "starting" /\ by' = who /\ since' = edits /\ run' \in Asked /\ wanted' = run'
      BY <3>1, <3>3, StartFacts DEF TypeOK
    <3> QED
      BY <3>1, <3>2, <3>3, StartFacts
  <2>2. CASE ApplyPrefs
    <3>1. prefs' = PrefsFor(run) /\ stored' = <<wanted>>
      BY <2>2, PrefsFacts DEF ApplyPrefs, TypeOK
    <3>2. prefs' \in [auto : {Blank, "any"}, id : {Blank} \cup Peer, ip : {Blank} \cup Peer, routes : BOOLEAN]
      BY <3>1 DEF PrefsFor
    <3> QED
      BY <2>2, <3>1, <3>2 DEF ApplyPrefs, TypeOK
  <2>3. CASE Stop
    BY <2>3, SettingFacts DEF Stop, Over, TypeOK
  <2>4. CASE ExitNodeFound
    <3>1. prefs' \in [auto : {Blank, "any"}, id : {Blank} \cup Peer, ip : {Blank} \cup Peer, routes : BOOLEAN]
      BY <2>4 DEF ExitNodeFound, TypeOK
    <3> QED
      BY <2>4, <3>1 DEF ExitNodeFound, TypeOK
  <2>5. CASE EditFile
    <3>1. file' \in [Range(Path) -> [state : {"absent", "broken", "good"}, set : Asked]]
      <4>1. PICK p \in Range(Path) :
              \/ \E s \in OneSet, k \in Key : s[k] # Unset /\
                   file' = [file EXCEPT ![p] = [state |-> "good", set |-> [@.set EXCEPT ![k] = s[k]]]]
              \/ file[p].state = "good" /\ file' = [file EXCEPT ![p].state = "broken"]
              \/ file' = [file EXCEPT ![p] = [state |-> "absent", set |-> NoneSet]]
        BY <2>5 DEF EditFile
      <4>2. CASE \E s \in OneSet, k \in Key : s[k] # Unset /\
                   file' = [file EXCEPT ![p] = [state |-> "good", set |-> [@.set EXCEPT ![k] = s[k]]]]
        <5>1. PICK s \in OneSet, k \in Key :
                file' = [file EXCEPT ![p] = [state |-> "good", set |-> [@.set EXCEPT ![k] = s[k]]]]
          BY <4>2
        <5>2. file[p].set \in Asked /\ s \in Asked
          BY OneSetFacts DEF TypeOK
        <5>3. [file[p].set EXCEPT ![k] = s[k]] \in Asked
          BY <5>2 DEF Asked
        <5> QED
          BY <5>1, <5>3 DEF TypeOK
      <4>3. CASE file' = [file EXCEPT ![p].state = "broken"]
        BY <4>3 DEF TypeOK
      <4>4. CASE file' = [file EXCEPT ![p] = [state |-> "absent", set |-> NoneSet]]
        BY <4>4, SettingFacts DEF TypeOK
      <4> QED
        BY <4>1, <4>2, <4>3, <4>4
    <3> QED
      BY <2>5, <3>1, Distinct DEF EditFile, Edited, TypeOK
  <2>6. CASE Export
    <3>1. shell' \in Asked
      BY <2>6, SettingFacts DEF Export, TypeOK, Asked
    <3> QED
      BY <2>6, <3>1, Distinct DEF Export, Edited, TypeOK
  <2>7. CASE ProxyOn
    <3>1. Config("http") \in Setting /\ Config("socks5") \in Setting
      BY ConfigFacts DEF Key
    <3>2. proxy' \in [http : Setting, socks5 : Setting, bypass : BOOLEAN]
      BY <2>7, <3>1, SettingFacts DEF ProxyOn, Enabled
    <3> QED
      BY <2>7, <3>2, Distinct DEF ProxyOn, TypeOK
  <2>8. CASE ProxyOff
    <3>1. proxy' \in [http : Setting, socks5 : Setting, bypass : BOOLEAN]
      BY <2>8, SettingFacts DEF ProxyOff, NoProxy
    <3> QED
      BY <2>8, <3>1, Distinct DEF ProxyOff, TypeOK
  <2>9. CASE UNCHANGED vars
    BY <2>9 DEF vars, TypeOK
  <2> QED
    BY <2>1, <2>2, <2>3, <2>4, <2>5, <2>6, <2>7, <2>8, <2>9 DEF Next
<1> QED
  BY <1>1, <1>2, PTL DEF Spec
----------------------------------------------------------------------------
(* The invariant, part by part.                                            *)
LEMMA RunStep == ASSUME TypeOK, RunInv, [Next]_vars PROVE RunInv'
<1> USE DEF RunInv, editVars, runVars, prefVars
<1>1. CASE StartService \/ StartShell \/ StartFlags
  BY <1>1, Starts, StartFacts DEF Over
<1>2. CASE ApplyPrefs
  BY <1>2 DEF ApplyPrefs
<1>3. CASE Stop
  BY <1>3 DEF Stop, Over
<1>4. CASE ExitNodeFound \/ EditFile \/ Export \/ ProxyOn \/ ProxyOff \/ UNCHANGED vars
  BY <1>4 DEF ExitNodeFound, EditFile, Export, ProxyOn, ProxyOff, vars
<1> QED
  BY <1>1, <1>2, <1>3, <1>4 DEF Next

LEMMA StoredStep ==
  ASSUME TypeOK, RunInv, StoredInv, ExitNodesAsked, [Next]_vars PROVE StoredInv'
<1> USE DEF editVars, runVars, prefVars
<1>1. CASE ApplyPrefs
  <2>1. prefs' = PrefsFor(run) /\ stored' = <<run>> /\ run["exitNode"] \in ExitNode
    BY <1>1, PrefsFacts DEF ApplyPrefs, TypeOK, RunInv, ExitNodesAsked
  <2>2. stored'[1] = run
    BY <2>1
  <2>3. /\ prefs'.routes = (run["acceptRoutes"] = "true") /\ prefs'.id = Blank
        /\ prefs'.auto = IF run["exitNode"] = "auto" THEN "any" ELSE Blank
        /\ prefs'.ip = IF run["exitNode"] \in Peer THEN run["exitNode"] ELSE Blank
    BY <2>1 DEF PrefsFor
  <2> QED
    BY <2>1, <2>2, <2>3, Distinct DEF StoredInv
<1>2. CASE ExitNodeFound
  <2>1. UNCHANGED stored
    BY <1>2 DEF ExitNodeFound
  <2>2. prefs'.routes = prefs.routes /\ prefs'.auto = prefs.auto
    BY <1>2 DEF ExitNodeFound, TypeOK
  <2>3. CASE prefs.ip # Blank /\ prefs'.id = prefs.ip /\ prefs'.ip = Blank
    BY <2>1, <2>2, <2>3, Distinct DEF StoredInv
  <2>4. CASE prefs.auto # Blank /\ prefs'.ip = prefs.ip
    BY <2>1, <2>2, <2>4, Distinct DEF StoredInv
  <2> QED
    BY <1>2, <2>3, <2>4 DEF ExitNodeFound, TypeOK
<1>3. CASE UNCHANGED prefVars
  BY <1>3 DEF StoredInv
<1> QED
  BY <1>1, <1>2, <1>3, Starts, StartFacts
     DEF Next, Stop, EditFile, Export, ProxyOn, ProxyOff, vars

LEMMA FreshRunStep == ASSUME TypeOK, FreshRun, [Next]_vars PROVE FreshRun'
<1> USE DEF editVars, runVars, prefVars
<1>1. CASE StartService \/ StartShell \/ StartFlags
  <2>1. PICK who \in {"service", "shell", "flags"}, flags \in Asked, env \in Asked :
          /\ Start(who, flags, env)
          /\ who \in {"service", "shell"} =>
               flags = NoneSet /\ env = IF who = "shell" THEN shell ELSE NoneSet
    BY <1>1, Starts
  <2>2. UNCHANGED <<file, shell, edits>>
    BY <2>1, StartFacts
  <2>3. CASE Over
    BY <2>3 DEF Over, FreshRun
  <2>4. CASE /\ node' = "starting" /\ by' = who /\ since' = edits
             /\ run' = Parse(flags, LoadDotEnvs(env)) /\ Parses(LoadDotEnvs(env))
    <3>1. ASSUME NEW e PROVE LoadDotEnvs(e)' = LoadDotEnvs(e)
      BY <2>2 DEF LoadDotEnvs, Load
    <3> QED
      BY <2>1, <2>2, <2>4, <3>1 DEF FreshRun
  <2> QED
    BY <2>1, <2>3, <2>4, StartFacts
<1>2. CASE ApplyPrefs \/ ExitNodeFound \/ ProxyOn \/ ProxyOff \/ UNCHANGED vars
  <2>1. UNCHANGED <<file, shell, edits, by, run, since>> /\ (node' # "off" => node # "off")
    BY <1>2 DEF ApplyPrefs, ExitNodeFound, ProxyOn, ProxyOff, vars
  <2> QED
    BY <2>1 DEF FreshRun, LoadDotEnvs, Load, Parses, Parse
<1>3. CASE Stop
  BY <1>3 DEF Stop, Over, FreshRun
<1>4. CASE EditFile \/ Export
  <2>1. edits' = edits + 1 /\ since' = since /\ edits \in Nat /\ since <= edits /\ since \in Nat
    BY <1>4, Distinct DEF EditFile, Export, Edited, TypeOK
  <2> QED
    BY <2>1 DEF FreshRun
<1> QED
  BY <1>1, <1>2, <1>3, <1>4 DEF Next

LEMMA FreshProxyStep == ASSUME TypeOK, FreshProxy, [Next]_vars PROVE FreshProxy'
<1> USE DEF editVars, runVars, prefVars
<1>1. CASE UNCHANGED <<file, shell, edits, proxy, proxyAt>>
  BY <1>1 DEF FreshProxy, Config, LoadDotEnvs, Load, Parses, Parse
<1>2. CASE EditFile \/ Export
  <2>1. edits' = edits + 1 /\ proxyAt' = proxyAt /\ edits \in Nat /\ proxyAt <= edits /\ proxyAt \in Nat
    BY <1>2, Distinct DEF EditFile, Export, Edited, TypeOK
  <2> QED
    BY <2>1 DEF FreshProxy
<1>3. CASE ProxyOn
  <2>1. /\ proxy'.http = Enabled(Config("http")) /\ proxy'.socks5 = Enabled(Config("socks5"))
        /\ UNCHANGED <<file, shell>>
    BY <1>3 DEF ProxyOn
  <2>2. LoadDotEnvs(shell)' = LoadDotEnvs(shell)
    BY <2>1 DEF LoadDotEnvs, Load
  <2>3. ASSUME NEW k PROVE Config(k)' = Config(k)
    BY <2>2 DEF Config, Parses, Parse
  <2> QED
    BY <2>1, <2>3 DEF FreshProxy
<1>4. CASE ProxyOff
  BY <1>4 DEF ProxyOff, FreshProxy
<1> QED
  BY <1>1, <1>2, <1>3, <1>4, Starts, StartFacts
     DEF Next, ApplyPrefs, Stop, ExitNodeFound, vars

LEMMA ExitNodeStep == ASSUME TypeOK, ExitNodesAsked, [Next]_vars PROVE ExitNodesAsked'
<1> USE DEF editVars, runVars, prefVars
<1>1. "exitNode" \in Key /\ Default["exitNode"] \in ExitNode /\ NoneSet["exitNode"] = Unset
  BY DEF Key, Default, NoneSet, ExitNode
<1>2. ASSUME NEW v \in Values["exitNode"] PROVE v \in ExitNode
  BY <1>2 DEF Values, ExitNode
<1>3. ASSUME NEW s \in OneSet PROVE s["exitNode"] \in ExitNode \cup {Unset}
  <2>1. PICK k \in Key : \E v \in Values[k] : s = [NoneSet EXCEPT ![k] = v]
    BY <1>3 DEF OneSet
  <2>2. PICK v \in Values[k] : s = [NoneSet EXCEPT ![k] = v]
    BY <2>1
  <2>3. s["exitNode"] = IF k = "exitNode" THEN v ELSE NoneSet["exitNode"]
    BY <1>1, <2>2, SettingFacts DEF Asked
  <2> QED
    BY <1>1, <1>2, <2>3
<1>4. ASSUME NEW flags \in Asked, NEW env \in Asked,
             flags["exitNode"] \in ExitNode \cup {Unset}, env["exitNode"] \in ExitNode \cup {Unset}
      PROVE  Parse(flags, LoadDotEnvs(env))["exitNode"] \in ExitNode
  <2>1. \A f \in Range(Path) : Says(f)["exitNode"] \in ExitNode \cup {Unset}
    BY <1>1 DEF Says, ExitNodesAsked
  <2>2. LoadDotEnvs(env)["exitNode"] \in ExitNode \cup {Unset}
    BY <1>1, <1>4, <2>1, LoadedFacts, PathFacts
  <2> QED
    BY <1>1, <1>4, <2>2 DEF Parse
<1>5. CASE StartService \/ StartShell \/ StartFlags
  <2>1. PICK flags \in OneSet \cup {NoneSet}, env \in {NoneSet, shell}, who \in {"service", "shell", "flags"} :
          Start(who, flags, env)
    BY <1>5 DEF StartService, StartShell, StartFlags
  <2>2. flags \in Asked /\ env \in Asked
    BY SettingFacts, OneSetFacts DEF TypeOK
  <2>3. Parse(flags, LoadDotEnvs(env))["exitNode"] \in ExitNode
    BY <1>1, <1>3, <1>4, <2>2 DEF ExitNodesAsked
  <2>4. UNCHANGED <<file, shell>> /\ (run' = Parse(flags, LoadDotEnvs(env)) \/ run' = Default)
    BY <2>1, <2>2, StartFacts DEF Over
  <2> QED
    BY <1>1, <2>3, <2>4 DEF ExitNodesAsked
<1>6. CASE ApplyPrefs \/ ExitNodeFound \/ ProxyOn \/ ProxyOff \/ UNCHANGED vars
  BY <1>6 DEF ExitNodesAsked, ApplyPrefs, ExitNodeFound, ProxyOn, ProxyOff, vars
<1>7. CASE Stop
  BY <1>1, <1>7 DEF ExitNodesAsked, Stop, Over
<1>8. CASE Export
  <2>1. PICK k \in Key : \E v \in Values[k] \cup {Unset} : shell' = [shell EXCEPT ![k] = v]
    BY <1>8 DEF Export
  <2>2. PICK v \in Values[k] \cup {Unset} : shell' = [shell EXCEPT ![k] = v]
    BY <2>1
  <2>3. shell'["exitNode"] = IF k = "exitNode" THEN v ELSE shell["exitNode"]
    BY <1>1, <2>2 DEF TypeOK, Asked
  <2>4. shell'["exitNode"] \in ExitNode \cup {Unset}
    BY <1>2, <2>2, <2>3 DEF ExitNodesAsked
  <2> QED
    BY <1>8, <2>4 DEF Export, ExitNodesAsked
<1>9. CASE EditFile
  <2>1. PICK p \in Range(Path) :
          \/ \E s \in OneSet, k \in Key : s[k] # Unset /\
               file' = [file EXCEPT ![p] = [state |-> "good", set |-> [@.set EXCEPT ![k] = s[k]]]]
          \/ file[p].state = "good" /\ file' = [file EXCEPT ![p].state = "broken"]
          \/ file' = [file EXCEPT ![p] = [state |-> "absent", set |-> NoneSet]]
    BY <1>9 DEF EditFile
  <2>2. ASSUME NEW f \in Range(Path) PROVE file'[f].set["exitNode"] \in ExitNode \cup {Unset}
    <3>1. CASE \E s \in OneSet, k \in Key : s[k] # Unset /\
                 file' = [file EXCEPT ![p] = [state |-> "good", set |-> [@.set EXCEPT ![k] = s[k]]]]
      <4>1. PICK s \in OneSet, k \in Key :
              file' = [file EXCEPT ![p] = [state |-> "good", set |-> [@.set EXCEPT ![k] = s[k]]]]
        BY <3>1
      <4>2. file[p].set \in Asked
        BY DEF TypeOK
      <4>3. [file[p].set EXCEPT ![k] = s[k]]["exitNode"] \in ExitNode \cup {Unset}
        BY <1>1, <1>3, <4>2 DEF Asked, ExitNodesAsked
      <4>4. file'[f].set = IF f = p THEN [file[p].set EXCEPT ![k] = s[k]] ELSE file[f].set
        BY <4>1 DEF TypeOK
      <4> QED
        BY <4>3, <4>4 DEF ExitNodesAsked
    <3>2. CASE file' = [file EXCEPT ![p].state = "broken"]
      <4>1. file'[f].set = file[f].set
        BY <3>2 DEF TypeOK
      <4> QED
        BY <4>1 DEF ExitNodesAsked
    <3>3. CASE file' = [file EXCEPT ![p] = [state |-> "absent", set |-> NoneSet]]
      <4>1. file'[f].set = IF f = p THEN NoneSet ELSE file[f].set
        BY <3>3 DEF TypeOK
      <4> QED
        BY <1>1, <4>1 DEF ExitNodesAsked
    <3> QED
      BY <2>1, <3>1, <3>2, <3>3
  <2> QED
    BY <1>9, <2>2 DEF EditFile, ExitNodesAsked
<1> QED
  BY <1>5, <1>6, <1>7, <1>8, <1>9 DEF Next

\* Where every setting of a run and of the shell's variables comes from, in every state.
THEOREM SettingsInvHolds == Spec => []SettingsInv
<1>1. Init => SettingsInv
  <2> SUFFICES ASSUME Init PROVE SettingsInv
    OBVIOUS
  <2>1. "exitNode" \in Key /\ Default["exitNode"] \in ExitNode /\ NoneSet["exitNode"] = Unset
    BY DEF Key, Default, NoneSet, ExitNode
  <2>2. ExitNodesAsked
    BY <2>1 DEF Init, ExitNodesAsked
  <2> QED
    BY <2>2 DEF Init, SettingsInv, RunInv, StoredInv, FreshRun, FreshProxy
<1>2. TypeOK /\ SettingsInv /\ [Next]_vars => SettingsInv'
  BY ExitNodeStep, RunStep, StoredStep, FreshRunStep, FreshProxyStep DEF SettingsInv
<1> QED
  BY <1>1, <1>2, SettingsTypeCorrect, PTL DEF Spec
----------------------------------------------------------------------------
\* What is stored is what the last run that got that far was asked for, and nothing
\* of an earlier run or of tsnet's choice is left (node.go:160-190, exitnode.go:19-40).
THEOREM StoredIsAsked == Spec => []StoredAsAsked
<1>1. SettingsInv => StoredAsAsked
  <2> SUFFICES ASSUME SettingsInv, stored # <<>> PROVE StoredAsAsked
    BY DEF StoredAsAsked
  <2> QED
    BY Distinct DEF SettingsInv, StoredInv, StoredAsAsked
<1> QED
  BY <1>1, SettingsInvHolds, PTL

\* The shell's variables point at what the node serves, as long as both read the same
\* sources and nothing was edited since (tailscale-socks.zsh:79-87).
THEOREM ProxyReaches == Spec => []ProxyReachesNode
<1>1. TypeOK /\ SettingsInv => ProxyReachesNode
  <2> SUFFICES ASSUME TypeOK, SettingsInv,
                      node = "up", since = edits, proxy # NoProxy, proxyAt = edits,
                      by = "shell" \/ (by = "service" /\ shell = NoneSet)
               PROVE  proxy.http = Enabled(run["http"]) /\ proxy.socks5 = Enabled(run["socks5"])
    BY DEF ProxyReachesNode
  <2>1. Parses(LoadDotEnvs(shell)) /\ run = Parse(NoneSet, LoadDotEnvs(shell))
    BY DEF SettingsInv, FreshRun
  <2>2. Config("http") = run["http"] /\ Config("socks5") = run["socks5"]
    BY <2>1, ConfigFacts DEF Key
  <2> QED
    BY <2>2 DEF SettingsInv, FreshProxy
<1> QED
  BY <1>1, SettingsTypeCorrect, SettingsInvHolds, PTL

\* ts_proxy on leaves a variable for every listener the strongest source enables, and
\* no other (tailscale-socks.zsh:177-206).
THEOREM ProxyConfigured == Spec => ProxyAsConfigured
<1> DEFINE Now == Named(NoneSet, shell)
           Configured == <<proxy, proxyAt>>' # <<proxy, proxyAt>> /\ proxy' # NoProxy =>
                           proxy' = [http |-> Enabled(Now["http"]), socks5 |-> Enabled(Now["socks5"]),
                                     bypass |-> TRUE]
<1>1. TypeOK /\ [Next]_vars => [Configured]_vars
  <2> SUFFICES ASSUME TypeOK, [Next]_vars, <<proxy, proxyAt>>' # <<proxy, proxyAt>>, proxy' # NoProxy
               PROVE  proxy' = [http |-> Enabled(Now["http"]), socks5 |-> Enabled(Now["socks5"]),
                                bypass |-> TRUE]
    OBVIOUS
  <2> USE DEF editVars, runVars, prefVars
  <2>1. ProxyOn
    BY Starts, StartFacts DEF Next, ApplyPrefs, Stop, ExitNodeFound, EditFile, Export, ProxyOff, vars
  <2>2. Parses(LoadDotEnvs(shell))
    BY <2>1 DEF ProxyOn, Config
  <2>3. /\ NoneSet \in Asked /\ shell \in Asked
        /\ Parse(NoneSet, LoadDotEnvs(shell)) = Named(NoneSet, shell)
    BY SettingFacts, ParsedIsNamed DEF TypeOK
  <2>4. Config("http") = Now["http"] /\ Config("socks5") = Now["socks5"]
    BY <2>2, <2>3, ConfigFacts DEF Key
  <2> QED
    BY <2>1, <2>4 DEF ProxyOn
<1> QED
  BY <1>1, SettingsTypeCorrect, PTL DEF Spec, ProxyAsConfigured
=============================================================================
