------------------------------ MODULE Service ------------------------------
(***************************************************************************)
(* What `rovr sa` and `rovr service` do to a Mac (rovr-cli/src/main.rs):   *)
(* the scripting addition is installed and uninstalled in steps, each of   *)
(* which may be the last; the daemon is started and stopped through        *)
(* launchd, and takes its socket over from the one before                  *)
(* (rovr-daemon/src/main.rs run_daemon).  While the daemon runs it has the *)
(* privileged helper inject the payload again whenever the Dock lacks it;  *)
(* when it asks is the matter of Reinjection.                              *)
(*                                                                         *)
(* An artifact is the number of the build it comes from, 0 if there is     *)
(* none; the hash of a file tells builds apart.                            *)
(***************************************************************************)
EXTENDS Naturals, Sequences, FiniteSets

CONSTANTS
  Clients,    \* concurrent `rovr service` commands
  Installed,  \* the build in the permanent locations, older than any other; 0: none
  Packaged,   \* whether the packaged program is run beside a build tree, too
  MaxBuilds,  \* bound on the builds
  MaxRuns,    \* bound on the commands
  MaxFaults,  \* bound on interruptions, exits and restarts nobody asked for
  None

ASSUME ServiceAssumption ==
  /\ MaxBuilds \in Nat /\ Installed \in 0 .. MaxBuilds /\ Packaged \in BOOLEAN
  /\ MaxRuns \in Nat /\ MaxFaults \in Nat
  /\ None \notin {"stale", "bound"}

Members == {"payload", "loader", "helper"}
Builds  == 0 .. MaxBuilds

VARIABLES
  tree,                \* the artifacts in the build tree
  disk,                \* the artifacts in /Library/Application Support/rovr
  marker,              \* the build payload.installed.json names, 0: no marker
  plist, registered,   \* the helper's LaunchDaemon: its file, and launchd's view
  dock,                \* the build of the payload in the Dock
  pc, pinned,          \* the step of `rovr sa`, and the artifacts it holds open
  removed,             \* uninstall: whether there was anything to remove
  gone,                \* history: an uninstall ended, and no install since
  loaded, daemon,      \* launchd: the agent is loaded, and what its process does
  path,                \* the socket's path: None, "stale" or "bound"
  cli,                 \* what each `rovr service` command does
  builds, runs, faults

sa      == <<tree, disk, marker, plist, registered, dock, pc, pinned, removed, gone>>
service == <<loaded, daemon, path, cli>>
bounds  == <<builds, runs, faults>>
vars    == <<sa, service, bounds>>

Nothing == [m \in Members |-> 0]

Init ==
  /\ tree = Nothing /\ disk = Nothing /\ marker = 0
  /\ plist = FALSE /\ registered = FALSE /\ dock = 0
  /\ pc = "idle" /\ pinned = Nothing /\ removed = FALSE /\ gone = FALSE
  /\ loaded = FALSE /\ daemon = "none" /\ path = None
  /\ cli = [c \in Clients |-> None]
  /\ builds = Installed /\ runs = 0 /\ faults = 0

---------------------------------------------------------------------------
(* Around the program: builds, the Dock, the daemon's reinjection.         *)

\* cargo builds all three, or stops after some.
Build ==
  /\ builds < MaxBuilds /\ builds' = builds + 1
  /\ \E S \in {Members, {"payload"}} :
       tree' = [m \in Members |-> IF m \in S THEN builds + 1 ELSE 0]
  /\ UNCHANGED <<disk, marker, plist, registered, dock, pc, pinned, removed, gone,
                 service, runs, faults>>

DockRestarts ==
  /\ dock # 0 /\ faults < MaxFaults /\ faults' = faults + 1
  /\ dock' = 0
  /\ UNCHANGED <<tree, disk, marker, plist, registered, pc, pinned, removed, gone,
                 service, builds, runs>>

\* The helper runs the installed loader on the installed payload.
Loadable == disk["payload"] # 0 /\ disk["loader"] # 0
HelperInjects ==
  /\ daemon = "up" /\ registered /\ disk["helper"] # 0 /\ Loadable
  /\ dock = 0 /\ dock' = disk["payload"]
  /\ UNCHANGED <<tree, disk, marker, plist, registered, pc, pinned, removed, gone,
                 service, bounds>>

\* SaClient::probe: whether a payload answers.
Probe == dock # 0

---------------------------------------------------------------------------
(* rovr sa install.  A step that fails, or Ctrl-C, ends it where it is.    *)

Goes(from, to) == pc = from /\ pc' = to

\* find_sa_artifacts: the build tree, unless it is empty; never a partial one.
Complete(t) == \A m \in Members : t[m] # 0

\* Mutant of Choices: what a partial build lacks comes from the installed set.
ChoicesMixed ==
  LET mixed == [m \in Members |-> IF tree[m] # 0 THEN tree[m] ELSE Installed]
  IN  IF Complete(mixed) THEN {mixed} ELSE {}

Choices ==
  (IF Complete(tree) THEN {tree} ELSE {})
  \cup (IF Installed # 0 /\ (tree = Nothing \/ Packaged)
        THEN {[m \in Members |-> Installed]} ELSE {})

InstallBegins ==
  /\ Goes("idle", "copy payload") /\ runs < MaxRuns /\ runs' = runs + 1
  /\ pinned' \in Choices
  /\ UNCHANGED <<tree, disk, marker, plist, registered, dock, removed, gone,
                 service, builds, faults>>

CopyOrder == <<"payload", "loader", "helper">>

\* Each is written beside its place, synced and renamed over it.
Copy ==
  /\ pc = "copy payload"
  /\ LET next == {i \in DOMAIN CopyOrder : disk[CopyOrder[i]] # pinned[CopyOrder[i]]}
         i == CHOOSE j \in next : \A k \in next : j <= k
     IN  IF next = {} THEN pc' = "register" /\ UNCHANGED disk
         ELSE disk' = [disk EXCEPT ![CopyOrder[i]] = pinned[CopyOrder[i]]] /\ UNCHANGED pc
  /\ UNCHANGED <<tree, marker, plist, registered, dock, pinned, removed, gone,
                 service, bounds>>

\* The plist is written, and the previous registration, if any, is booted out.
Unregister ==
  /\ Goes("register", "bootstrap")
  /\ plist' = TRUE /\ registered' = FALSE
  /\ UNCHANGED <<tree, disk, marker, dock, pinned, removed, gone, service, bounds>>

Register ==
  /\ Goes("bootstrap", "inject")
  /\ registered' = TRUE /\ gone' = FALSE
  /\ UNCHANGED <<tree, disk, marker, plist, dock, pinned, removed, service, bounds>>

\* The installer is root, and runs the loader itself.
Inject ==
  /\ Goes("inject", "verify") /\ Loadable
  /\ dock' = disk["payload"]
  /\ UNCHANGED <<tree, disk, marker, plist, registered, pinned, removed, gone, service, bounds>>

\* Some payload answers in time, and the marker names the copies.
Mark ==
  /\ Goes("verify", "idle") /\ Probe
  /\ marker' = pinned["payload"] /\ pinned' = Nothing
  /\ UNCHANGED <<tree, disk, plist, registered, dock, removed, gone, service, bounds>>

Interrupt ==
  /\ pc # "idle" /\ faults < MaxFaults /\ faults' = faults + 1
  /\ pc' = "idle" /\ pinned' = Nothing /\ removed' = FALSE
  /\ UNCHANGED <<tree, disk, marker, plist, registered, dock, gone, service, builds, runs>>

\* Twenty probes, and no payload: the command fails, like Interrupt.
GiveUp ==
  /\ Goes("verify", "idle") /\ ~Probe
  /\ pinned' = Nothing
  /\ UNCHANGED <<tree, disk, marker, plist, registered, dock, removed, gone, service, bounds>>

---------------------------------------------------------------------------
(* rovr sa uninstall. *)

UninstallBegins ==
  /\ Goes("idle", "bootout") /\ runs < MaxRuns /\ runs' = runs + 1
  /\ UNCHANGED <<tree, disk, marker, plist, registered, dock, pinned, removed, gone,
                 service, builds, faults>>

\* The service goes first: no reinjection from here on.
Bootout ==
  /\ Goes("bootout", "remove")
  /\ registered' = FALSE /\ plist' = FALSE
  /\ UNCHANGED <<tree, disk, marker, dock, pinned, removed, gone, service, bounds>>

\* Files go one by one, the marker last.
Remove ==
  /\ pc = "remove"
  /\ LET left == {i \in DOMAIN CopyOrder : disk[CopyOrder[i]] # 0}
         i == CHOOSE j \in left : \A k \in left : j <= k
     IN  IF left # {}
         THEN /\ disk' = [disk EXCEPT ![CopyOrder[i]] = 0]
              /\ removed' = TRUE /\ UNCHANGED <<marker, pc>>
         ELSE /\ removed' = (removed \/ marker # 0) /\ marker' = 0
              /\ pc' = "dock" /\ UNCHANGED disk
  /\ UNCHANGED <<tree, plist, registered, dock, pinned, gone, service, bounds>>

\* Mutant of RestartDock: the Dock is left alone.
RestartDockNever ==
  /\ Goes("dock", "idle") /\ removed
  /\ gone' = TRUE /\ removed' = FALSE
  /\ UNCHANGED <<tree, disk, marker, plist, registered, dock, pinned, service, bounds>>

\* A mapped payload leaves only with the Dock.
RestartDock ==
  /\ Goes("dock", "idle") /\ removed
  /\ dock' = 0 /\ gone' = TRUE /\ removed' = FALSE
  /\ UNCHANGED <<tree, disk, marker, plist, registered, pinned, service, bounds>>

NothingInstalled ==
  /\ Goes("dock", "idle") /\ ~removed
  /\ UNCHANGED <<tree, disk, marker, plist, registered, dock, pinned, removed, gone,
                 service, bounds>>

---------------------------------------------------------------------------
(* The daemon and its socket. *)

\* Mutant of TakeSocket: the file of the daemon before stays.
TakeSocketLeft ==
  /\ daemon = "starting" /\ daemon' = "binding"
  /\ UNCHANGED <<sa, loaded, path, cli, bounds>>

\* run_daemon removes the socket the daemon before left.
TakeSocket ==
  /\ daemon = "starting" /\ daemon' = "binding"
  /\ path' = None
  /\ UNCHANGED <<sa, loaded, cli, bounds>>

\* A path in use fails the bind, and the daemon.
Bind ==
  /\ daemon = "binding"
  /\ IF path = None THEN path' = "bound" /\ daemon' = "up"
     ELSE daemon' = "crashed" /\ UNCHANGED path
  /\ UNCHANGED <<sa, loaded, cli, bounds>>

SocketAnswers == path = "bound" /\ daemon = "up"

\* A process that ends leaves its socket behind.
Left == IF path = "bound" THEN "stale" ELSE path

\* The watchdog's or a panic's exit is not a success, a signal's is.
Ends ==
  /\ daemon \in {"starting", "binding", "up"} /\ faults < MaxFaults /\ faults' = faults + 1
  /\ daemon' \in {"crashed", "exited"} /\ path' = Left
  /\ UNCHANGED <<sa, loaded, cli, builds, runs>>

\* KeepAlive, SuccessfulExit false: launchd starts a crashed daemon again.
KeepAlive ==
  /\ daemon = "crashed" /\ daemon' = "starting"
  /\ UNCHANGED <<sa, loaded, path, cli, bounds>>

---------------------------------------------------------------------------
(* rovr service start | restart | stop. *)

Commands == {"start", "restart", "stop"}

\* The command looks whether launchd knows the agent.
Ask(c) ==
  /\ cli[c] = None /\ runs < MaxRuns /\ runs' = runs + 1
  /\ \E cmd \in Commands : cli' = [cli EXCEPT ![c] = [cmd |-> cmd, loaded |-> loaded,
                                                      step |-> "launchctl"]]
  /\ UNCHANGED <<sa, loaded, daemon, path, builds, faults>>

\* lifecycle_launchctl_args.
Launchctl(o) ==
  CASE o.cmd = "stop"    -> IF o.loaded THEN "bootout" ELSE "nothing"
    [] o.cmd = "start"   -> IF o.loaded THEN "kickstart" ELSE "bootstrap"
    [] o.cmd = "restart" -> IF o.loaded THEN "kickstart -k" ELSE "bootstrap"

\* What launchd does; it refuses when the agent was loaded or unloaded since.
Refused(op) == op # "nothing" /\ (op = "bootstrap") = loaded
Obey(op) ==
  CASE op = "bootstrap" -> /\ loaded' = TRUE /\ daemon' = "starting" /\ UNCHANGED path
    [] op = "bootout"   -> /\ loaded' = FALSE /\ daemon' = "none" /\ path' = Left
    [] op = "kickstart -k" -> /\ daemon' = "starting" /\ path' = Left /\ UNCHANGED loaded
    [] op = "kickstart" ->
         /\ daemon' = IF daemon \in {"exited", "crashed"} THEN "starting" ELSE daemon
         /\ UNCHANGED <<loaded, path>>
    [] OTHER -> UNCHANGED <<loaded, daemon, path>>

Act(c) ==
  /\ cli[c] # None /\ cli[c].step = "launchctl"
  /\ LET op == Launchctl(cli[c])
     IN  /\ IF Refused(op) THEN UNCHANGED <<loaded, daemon, path>> ELSE Obey(op)
         /\ cli' = [cli EXCEPT ![c] = IF Refused(op) \/ op = "nothing" THEN None
                                      ELSE [@ EXCEPT !.step = "wait"]]
  /\ UNCHANGED <<sa, bounds>>

\* wait_for_socket: until it answers, or no longer does, or three seconds.
Report(c) ==
  /\ cli[c] # None /\ cli[c].step = "wait"
  /\ cli' = [cli EXCEPT ![c] = None]
  /\ UNCHANGED <<sa, loaded, daemon, path, bounds>>

Next ==
  \/ Build \/ DockRestarts \/ HelperInjects
  \/ InstallBegins \/ Copy \/ Unregister \/ Register \/ Inject \/ Mark \/ GiveUp \/ Interrupt
  \/ UninstallBegins \/ Bootout \/ Remove \/ RestartDock \/ NothingInstalled
  \/ TakeSocket \/ Bind \/ Ends \/ KeepAlive
  \/ \E c \in Clients : Ask(c) \/ Act(c) \/ Report(c)

\* A process that runs goes on, and launchd keeps its agents alive.
Fairness == WF_vars(TakeSocket) /\ WF_vars(Bind) /\ WF_vars(KeepAlive)

Spec == Init /\ [][Next]_vars /\ Fairness

---------------------------------------------------------------------------
(* Properties. *)

Uninstalling == {"bootout", "remove", "dock"}
Installing   == {"copy payload", "register", "bootstrap", "inject", "verify"}

\* Every variable has the shape the code gives it.
TypeOK ==
  /\ tree \in [Members -> Builds] /\ disk \in [Members -> Builds]
  /\ pinned \in [Members -> Builds]
  /\ marker \in Builds /\ dock \in Builds /\ builds \in Builds
  /\ pc \in {"idle"} \cup Installing \cup Uninstalling
  /\ plist \in BOOLEAN /\ registered \in BOOLEAN /\ removed \in BOOLEAN
  /\ gone \in BOOLEAN /\ loaded \in BOOLEAN
  /\ daemon \in {"none", "starting", "binding", "up", "crashed", "exited"}
  /\ path \in {None, "stale", "bound"}

\* print_sa_lifecycle_status compares the installed payload with the marker.
PayloadStatus ==
  IF disk["payload"] = 0 THEN "not_installed"
  ELSE IF marker = 0 THEN "identity marker missing"
  ELSE IF marker # disk["payload"] THEN "MARKER MISMATCH"
  ELSE "installed"

\* derive_service_state, and a helper that answers.
ServiceState ==
  IF registered /\ disk["helper"] # 0 THEN "registered"
  ELSE IF (disk["payload"] # 0 /\ disk["helper"] # 0) \/ plist THEN "installed"
  ELSE "not_installed"

SaState ==
  IF Probe THEN "injected_compatible"
  ELSE IF disk["payload"] # 0 THEN "installed_not_injected" ELSE "not_installed"

\* incomplete_build_members: "so a fresh payload is not paired with a stale
\* loader or helper": wherever installs and uninstalls were interrupted, when
\* `rovr sa status` has nothing to say against the payload, no loader or helper
\* of another build lies beside it.
PairedSet ==
  PayloadStatus = "installed" =>
    {disk["loader"], disk["helper"]} \subseteq {0, marker}

\* An uninstall that ended ("payload unloaded. `rovr sa status` should now
\* report not_installed") is final: nothing brings the payload back before an
\* install registers the helper again, though the daemon may be asking for it.
UninstallUnloads ==
  gone => dock = 0 /\ ServiceState # "registered" /\ SaState # "injected_compatible"

\* Whatever commands raced, an agent launchd has loaded ends up answering on its
\* socket, unless it left of its own with success.
Answers == <>[](loaded /\ daemon # "exited" => SocketAnswers)

=============================================================================
