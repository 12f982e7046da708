-------------------------- MODULE AnalyticsInstall --------------------------
(***************************************************************************)
(* `nomctl analytics install` (internal/analytics): node_exporter,         *)
(* Prometheus and Grafana are put on the host step by step, each step      *)
(* looking at what is there already, so that a run that failed or was      *)
(* killed is completed by the next one.  Files, systemd, what the running  *)
(* services have loaded, and Grafana's own database are kept apart: a run  *)
(* can die between any two of them.                                        *)
(***************************************************************************)
EXTENDS Naturals, Sequences

CONSTANTS
    Addrs,           \* GRAFANA_HTTP_ADDR of a run
    Passwords,       \* GRAFANA_ADMIN_PASSWORD of a run
    MaxInstalls,     \* bound on the runs
    InstallFaults    \* what may go wrong

ASSUME InstallAssumption ==
    /\ Addrs \subseteq {"local", "lan", "all"}
    /\ "admin" \in Passwords /\ "byHand" \notin Passwords
    /\ MaxInstalls \in Nat
    /\ InstallFaults \subseteq {"stepFails", "killed", "serviceDies"}

DefaultPassword == "admin"
ByHand == "byHand"   \* a password no run is configured with

VARIABLES
    disk,       \* [Pieces -> what is there of it]
    nodeJob,        \* prometheus.yml has the node job
    dropIn,     \* the address in Grafana's drop-in
    known,      \* the drop-in as systemd last read it
    svc,        \* [Services -> enabled, active]
    conf,       \* what the running Prometheus and Grafana have loaded
    grafana,    \* Grafana's database
    inst,       \* the run: its step and its configuration
    report,     \* how the last run ended
    cut,        \* history: a run ended between a write and what makes it effective
    installs    \* runs so far

installVars == <<disk, nodeJob, dropIn, known, svc, conf, grafana, inst, report, cut,
                 installs>>

\* Both binaries of Prometheus count as one piece, as do its two directories.
Pieces == {"tools", "exporter", "exporterUnit", "prometheus", "consoles",
           "promYML", "promUnit", "key", "list", "package", "plugin"}
\* Not made by one rename or by a package manager: what a write that breaks
\* off leaves behind is there, and is not whole.
InPlace == {"exporterUnit", "consoles", "promUnit", "key", "list"}
Services == {"exporter", "prometheus", "grafana"}
Sources == {"Prometheus", "infinity"}
Dashboards == {"exporter", "znnd"}
DropIns == Addrs \cup {"absent", "torn"}

InstallOrder ==
    <<"tools", "exporter", "exporterUnit", "runExporter", "prometheus",
      "consoles", "promYML", "promUnit", "runPrometheus", "job", "key", "list",
      "package", "dropIn", "runGrafana", "rebind", "ready", "secure",
      "promSource", "plugin", "load", "infinitySource", "dashboards", "idle">>
InstallPCs == {InstallOrder[k] : k \in DOMAIN InstallOrder}
StepAfter(s) == InstallOrder[1 + CHOOSE k \in DOMAIN InstallOrder : InstallOrder[k] = s]

InstallTypeOK ==
    /\ disk \in [Pieces -> {"absent", "torn", "whole"}]
    /\ \A p \in Pieces \ InPlace : disk[p] # "torn"
    /\ nodeJob \in BOOLEAN /\ cut \in BOOLEAN
    /\ dropIn \in DropIns /\ known \in DropIns
    /\ svc \in [Services -> [enabled : BOOLEAN, active : BOOLEAN]]
    /\ conf \in [job : BOOLEAN, addr : Addrs \cup {"all"}, plugin : BOOLEAN]
    /\ grafana \in [password : Passwords \cup {ByHand}, sources : SUBSET Sources,
                   boards : SUBSET Dashboards]
    /\ inst \in [step : InstallPCs, addr : Addrs, password : Passwords, reload : BOOLEAN]
    /\ report \in {"none", "failed", "died", "installed", "warned"}
    /\ installs \in 0 .. MaxInstalls

\* An empty host, or one where a Prometheus or a Grafana was set up before, by
\* the scripts nomctl replaces or by hand: started at boot or not, the latter
\* with any password and open to all.
InstallInit ==
    \E prom, graf, boots \in BOOLEAN, pw \in Passwords \cup {ByHand} :
        /\ graf \/ pw = DefaultPassword
        /\ prom \/ graf \/ boots
        /\ disk = [p \in Pieces |->
                     IF \/ prom /\ p \in {"prometheus", "promYML", "promUnit"}
                        \/ graf /\ p = "package"
                     THEN "whole" ELSE "absent"]
        /\ nodeJob = FALSE
        /\ dropIn = "absent" /\ known = "absent"
        /\ svc = [u \in Services |->
                    LET there == \/ prom /\ u = "prometheus"
                                 \/ graf /\ u = "grafana"
                    IN  [enabled |-> there /\ boots, active |-> there]]
        /\ conf = [job |-> FALSE, addr |-> "all", plugin |-> FALSE]
        /\ grafana = [password |-> pw, sources |-> {}, boards |-> {}]
        /\ inst = [step |-> "idle", addr |-> CHOOSE a \in Addrs : TRUE,
                   password |-> DefaultPassword, reload |-> FALSE]
        /\ report = "none" /\ cut = FALSE /\ installs = 0

-----------------------------------------------------------------------------
InstallAt(s) == inst.step = s
GoesTo(s) == inst' = [inst EXCEPT !.step = s] /\ UNCHANGED report
GoesOn == GoesTo(StepAfter(inst.step))
GivesUp == inst' = [inst EXCEPT !.step = "idle"] /\ report' = "failed"
StepFails == "stepFails" \in InstallFaults /\ GivesUp

BeginInstall ==
    /\ InstallAt("idle")
    /\ installs < MaxInstalls
    /\ installs' = installs + 1
    /\ inst' \in [step : {"tools"}, addr : Addrs, password : Passwords, reload : {FALSE}]
    /\ report' = "none"
    /\ UNCHANGED <<disk, nodeJob, dropIn, known, svc, conf, grafana, cut>>

\* The repository is set up only for a package that is not there.
Wanted(p) ==
    /\ disk[p] = "absent"
    /\ p \in {"key", "list"} => disk["package"] = "absent"
\* apt refuses a repository whose key or line is torn.
CanMake(p) == p = "package" => disk["key"] = "whole" /\ disk["list"] = "whole"

\* One piece, made if it is not there.  Download removes what it could not
\* complete; os.WriteFile and cp -r do not.
MakePiece(p) ==
    /\ InstallAt(p)
    /\ \/ ~Wanted(p) /\ GoesOn /\ UNCHANGED <<disk, cut>>
       \/ /\ Wanted(p) /\ CanMake(p)
          /\ disk' = [disk EXCEPT ![p] = "whole"]
          /\ GoesOn /\ UNCHANGED cut
       \/ Wanted(p) /\ ~CanMake(p) /\ GivesUp /\ UNCHANGED <<disk, cut>>
       \/ /\ Wanted(p) /\ StepFails
          /\ \E left \in {"absent"} \cup IF p \in InPlace \ {"key"} THEN {"torn"} ELSE {} :
               /\ disk' = [disk EXCEPT ![p] = left]
               /\ cut' = (cut \/ left = "torn")
    /\ UNCHANGED <<nodeJob, dropIn, known, svc, conf, grafana, installs>>

-----------------------------------------------------------------------------
Bound(d) == IF d \in Addrs THEN d ELSE "all"
UnitOf == [exporter |-> "exporterUnit", prometheus |-> "promUnit", grafana |-> "package"]

\* What a service has loaded once it is started, with Grafana's drop-in d.
Loads(u, d) ==
    conf' = CASE u = "prometheus" -> [conf EXCEPT !.job = nodeJob]
              [] u = "grafana" -> [conf EXCEPT !.addr = Bound(d),
                                               !.plugin = disk["plugin"] = "whole"]
              [] OTHER -> conf

\* Mutant: a service that is active is left as it is.
RunUnlessActive(u) ==
    \/ svc[u].active /\ UNCHANGED <<svc, conf, known>>
    \/ /\ ~svc[u].active /\ disk[UnitOf[u]] = "whole"
       /\ svc' = [svc EXCEPT ![u].active = TRUE]
       /\ known' = dropIn /\ Loads(u, dropIn)

\* service.EnsureRunning; `systemctl enable` makes systemd read its files again, and
\* --now starts nothing that is active.
EnsureRunning(u) ==
    \/ /\ svc[u].enabled /\ svc[u].active
       /\ known' = IF inst.reload THEN dropIn ELSE known
       /\ UNCHANGED <<svc, conf>>
    \/ /\ ~(svc[u].enabled /\ svc[u].active)
       /\ disk[UnitOf[u]] = "whole"
       /\ svc' = [svc EXCEPT ![u] = [enabled |-> TRUE, active |-> TRUE]]
       /\ known' = dropIn
       /\ IF svc[u].active THEN UNCHANGED conf ELSE Loads(u, dropIn)

\* daemon-reload fails, or enable, or only the start after it: that of a torn
\* unit always does.
EnsureRunningFails(u) ==
    /\ disk[UnitOf[u]] = "whole" => "stepFails" \in InstallFaults
    /\ GivesUp
    /\ known' \in {known, dropIn}
    /\ \/ UNCHANGED svc
       \/ ~svc[u].active /\ svc' = [svc EXCEPT ![u].enabled = TRUE] /\ known' = dropIn
    /\ cut' = (cut \/ inst.reload)
    /\ UNCHANGED conf

RunService(s, u) ==
    /\ InstallAt(s)
    /\ \/ EnsureRunning(u) /\ GoesOn /\ UNCHANGED cut
       \/ EnsureRunningFails(u)
    /\ UNCHANGED <<disk, nodeJob, dropIn, grafana, installs>>

\* service.RestartUnit: systemd does not read a changed drop-in for it.  A unit that
\* cannot be restarted has been stopped.
RestartUnit(u) == svc' = [svc EXCEPT ![u].active = TRUE] /\ Loads(u, known)
RestartUnitFails(u) == svc' = [svc EXCEPT ![u].active = FALSE] /\ StepFails /\ UNCHANGED conf

\* The node job is appended by one rename; then Prometheus is restarted.
AddJob ==
    /\ InstallAt("job")
    /\ \/ nodeJob /\ GoesOn /\ UNCHANGED <<nodeJob, svc, conf, cut>>
       \/ ~nodeJob /\ StepFails /\ UNCHANGED <<nodeJob, svc, conf, cut>>
       \/ /\ ~nodeJob /\ nodeJob' = TRUE
          /\ \/ svc' = [svc EXCEPT !["prometheus"].active = TRUE]
                /\ conf' = [conf EXCEPT !.job = TRUE]
                /\ GoesOn /\ UNCHANGED cut
             \/ RestartUnitFails("prometheus") /\ UNCHANGED cut
             \/ /\ "killed" \in InstallFaults
                /\ inst' = [inst EXCEPT !.step = "idle"]
                /\ report' = "died" /\ cut' = TRUE
                /\ UNCHANGED <<svc, conf>>
    /\ UNCHANGED <<disk, dropIn, known, grafana, installs>>

WriteDropIn ==
    /\ InstallAt("dropIn")
    /\ \/ /\ dropIn = inst.addr
          /\ GoesOn /\ UNCHANGED <<dropIn, cut>>
       \/ /\ dropIn # inst.addr
          /\ dropIn' = inst.addr
          /\ inst' = [inst EXCEPT !.step = "runGrafana", !.reload = TRUE]
          /\ UNCHANGED <<report, cut>>
       \/ /\ dropIn # inst.addr /\ StepFails
          /\ dropIn' \in {dropIn, "torn"}
          /\ UNCHANGED cut
    /\ UNCHANGED <<disk, nodeJob, known, svc, conf, grafana, installs>>

Rebind ==
    /\ InstallAt("rebind")
    /\ \/ ~(inst.reload /\ svc["grafana"].active) /\ GoesOn /\ UNCHANGED <<svc, conf>>
       \/ inst.reload /\ svc["grafana"].active
          /\ ((RestartUnit("grafana") /\ GoesOn) \/ RestartUnitFails("grafana"))
    /\ UNCHANGED <<disk, nodeJob, dropIn, known, grafana, cut, installs>>

-----------------------------------------------------------------------------
(***************************************************************************)
(* Grafana's API, at ClientURL of the address the run is configured with.  *)
(***************************************************************************)
Reachable(c) == c.addr \in {"all", IF inst.addr = "all" THEN "local" ELSE inst.addr}
Authenticated == grafana.password = inst.password

AwaitGrafana ==
    /\ InstallAt("ready")
    /\ ((Reachable(conf) /\ GoesOn) \/ (~Reachable(conf) /\ GivesUp) \/ StepFails)
    /\ UNCHANGED <<disk, nodeJob, dropIn, known, svc, conf, grafana, cut, installs>>

\* The default password is left, with a warning, whatever Grafana's is.
SecureGrafana ==
    /\ InstallAt("secure")
    /\ \/ (inst.password = DefaultPassword \/ Authenticated) /\ GoesOn /\ UNCHANGED grafana
       \/ /\ inst.password # DefaultPassword
          /\ grafana.password = DefaultPassword
          /\ grafana' = [grafana EXCEPT !.password = inst.password]
          /\ (GoesOn \/ StepFails)
       \/ /\ inst.password # DefaultPassword
          /\ grafana.password \notin {DefaultPassword, inst.password}
          /\ GivesUp /\ UNCHANGED grafana
       \/ inst.password # DefaultPassword /\ StepFails /\ UNCHANGED grafana
    /\ UNCHANGED <<disk, nodeJob, dropIn, known, svc, conf, cut, installs>>

\* The answer to the creation may be lost.
Configure(s, name) ==
    /\ InstallAt(s)
    /\ \/ Authenticated /\ name \in grafana.sources /\ GoesOn /\ UNCHANGED grafana
       \/ /\ Authenticated /\ name \notin grafana.sources
          /\ grafana' = [grafana EXCEPT !.sources = @ \cup {name}]
          /\ (GoesOn \/ StepFails)
       \/ ~Authenticated /\ GivesUp /\ UNCHANGED grafana
       \/ StepFails /\ UNCHANGED grafana
    /\ UNCHANGED <<disk, nodeJob, dropIn, known, svc, conf, cut, installs>>

\* Mutant: the running Grafana is taken to have a plugin that is installed.
InstallPluginOnce ==
    /\ InstallAt("plugin")
    /\ \/ disk["plugin"] = "whole" /\ GoesTo("infinitySource") /\ UNCHANGED disk
       \/ disk["plugin"] = "absent" /\ disk' = [disk EXCEPT !["plugin"] = "whole"] /\ GoesOn
       \/ StepFails /\ UNCHANGED disk
    /\ UNCHANGED <<nodeJob, dropIn, known, svc, conf, grafana, cut, installs>>
InstallPlugin ==
    /\ InstallAt("plugin")
    /\ \/ disk' = [disk EXCEPT !["plugin"] = "whole"] /\ (GoesOn \/ StepFails)
       \/ StepFails /\ UNCHANGED disk
    /\ UNCHANGED <<nodeJob, dropIn, known, svc, conf, grafana, cut, installs>>

LoadPlugin ==
    /\ InstallAt("load")
    /\ \/ conf.plugin /\ GoesOn /\ UNCHANGED <<svc, conf>>
       \/ StepFails /\ UNCHANGED <<svc, conf>>
       \/ /\ ~conf.plugin
          /\ \/ /\ RestartUnit("grafana")
                /\ ((Reachable(conf') /\ GoesOn) \/ (~Reachable(conf') /\ GivesUp) \/ StepFails)
             \/ RestartUnitFails("grafana")
    /\ UNCHANGED <<disk, nodeJob, dropIn, known, grafana, cut, installs>>

\* A dashboard that cannot be imported is a warning; the node's own is bound
\* to the Infinity datasource, which is there by now.
ImportDashboards ==
    /\ InstallAt("dashboards")
    /\ \/ /\ grafana' = [grafana EXCEPT !.boards = Dashboards]
          /\ report' = "installed"
       \/ /\ "stepFails" \in InstallFaults
          /\ \E new \in SUBSET Dashboards :
               grafana' = [grafana EXCEPT !.boards = @ \cup new]
          /\ report' = "warned"
    /\ inst' = [inst EXCEPT !.step = "idle"]
    /\ UNCHANGED <<disk, nodeJob, dropIn, known, svc, conf, cut, installs>>

-----------------------------------------------------------------------------
\* The run is killed: what is being written in place is torn.
InstallKilled ==
    /\ "killed" \in InstallFaults
    /\ ~InstallAt("idle")
    /\ \/ /\ inst.step \in InPlace /\ Wanted(inst.step)
          /\ disk' = [disk EXCEPT ![inst.step] = "torn"]
          /\ cut' = TRUE /\ UNCHANGED dropIn
       \/ /\ InstallAt("dropIn") /\ dropIn # inst.addr
          /\ dropIn' = "torn"
          /\ UNCHANGED <<disk, cut>>
       \/ /\ cut' = (cut \/ (inst.reload /\ inst.step \in {"runGrafana", "rebind"}))
          /\ UNCHANGED <<disk, dropIn>>
    /\ inst' = [inst EXCEPT !.step = "idle"]
    /\ report' = "died"
    /\ UNCHANGED <<nodeJob, known, svc, conf, grafana, installs>>

\* A service stops by itself between two runs.
ServiceDies ==
    /\ "serviceDies" \in InstallFaults
    /\ InstallAt("idle")
    /\ \E u \in Services :
         svc[u].active /\ svc' = [svc EXCEPT ![u].active = FALSE]
    /\ report' = "none"
    /\ UNCHANGED <<disk, nodeJob, dropIn, known, conf, grafana, inst, cut, installs>>

InstallPrerequisites == MakePiece("tools")
InstallNodeExporter ==
    \/ MakePiece("exporter") \/ MakePiece("exporterUnit")
    \/ RunService("runExporter", "exporter")
InstallPrometheus ==
    \/ \E p \in {"prometheus", "consoles", "promYML", "promUnit"} : MakePiece(p)
    \/ RunService("runPrometheus", "prometheus")
    \/ AddJob
InstallGrafana ==
    \/ \E p \in {"key", "list", "package"} : MakePiece(p)
    \/ WriteDropIn
    \/ RunService("runGrafana", "grafana")
    \/ Rebind \/ AwaitGrafana
ConfigurePrometheusDatasource == Configure("promSource", "Prometheus")
ConfigureInfinityDatasource == Configure("infinitySource", "infinity")

InstallStep ==
    \/ InstallPrerequisites \/ InstallNodeExporter \/ InstallPrometheus
    \/ InstallGrafana \/ SecureGrafana
    \/ ConfigurePrometheusDatasource \/ InstallPlugin \/ LoadPlugin
    \/ ConfigureInfinityDatasource \/ ImportDashboards

InstallNext == BeginInstall \/ InstallStep \/ InstallKilled \/ ServiceDies

InstallSpec == InstallInit /\ [][InstallNext]_installVars

-----------------------------------------------------------------------------
Succeeded == report \in {"installed", "warned"}

\* What the files say, in full, is what runs.
InEffect ==
    /\ \A p \in Pieces \ {"key", "list"} : disk[p] = "whole"
    /\ conf.job
    /\ conf.addr = inst.addr

\* A run that reports success, however many runs failed or died before it,
\* leaves three enabled and running services, a Grafana with the password
\* configured, that answers, has loaded the plugin and knows both datasources
\* (Install).  Unless a run once ended between a write and what makes it
\* effective (cut), all files are whole and in effect.
InstallsComplete ==
    Succeeded =>
      /\ \A u \in Services : svc[u].enabled /\ svc[u].active
      /\ grafana.password = inst.password
      /\ conf.plugin /\ Reachable(conf)
      /\ grafana.sources = Sources
      /\ report = "installed" => grafana.boards = Dashboards
      /\ ~cut => InEffect

\* "An interrupted run is completed on the next run": when a run reports
\* success, whatever happened to earlier ones, every file is whole and the
\* services run with what the files say (installNodeExporter and after).
InterruptedIsCompleted == Succeeded => InEffect
=============================================================================
