--------------------------- MODULE ServiceProofs ---------------------------
(***************************************************************************)
(* Theorems about Service, for any number of builds, commands and          *)
(* interruptions.                                                          *)
(***************************************************************************)
EXTENDS Service, TLAPS

\* The steps of `rovr sa install`, of `rovr sa uninstall`, and of all else.
InstallStep ==
  \/ InstallBegins \/ Copy \/ Unregister \/ Register \/ Inject \/ Mark \/ GiveUp \/ Interrupt
UninstallStep ==
  \/ UninstallBegins \/ Bootout \/ Remove \/ RestartDock \/ NothingInstalled
ServiceStep ==
  \/ TakeSocket \/ Bind \/ Ends \/ KeepAlive
  \/ \E c \in Clients : Ask(c) \/ Act(c) \/ Report(c)
Elsewhere == Build \/ DockRestarts \/ HelperInjects

-----------------------------------------------------------------------------
\* Type correctness.

Flags ==
  /\ plist \in BOOLEAN /\ registered \in BOOLEAN /\ removed \in BOOLEAN
  /\ gone \in BOOLEAN /\ loaded \in BOOLEAN

LEMMA InitTypes == ASSUME Init PROVE TypeOK
<1>1. Flags
  BY Zenon DEF Init, Flags
<1>2. Nothing \in [Members -> Builds] /\ 0 \in Builds /\ Installed \in Builds
  BY ServiceAssumption DEF Nothing, Builds
<1> QED BY <1>1, <1>2 DEF Init, TypeOK, Flags

LEMMA CopyTypes == ASSUME TypeOK, Copy PROVE TypeOK'
<1> DEFINE next == {i \in DOMAIN CopyOrder : disk[CopyOrder[i]] # pinned[CopyOrder[i]]}
           i == CHOOSE j \in next : \A k \in next : j <= k
<1>1. pc' \in {pc, "register"} /\ disk' \in [Members -> Builds]
  <2>1. CASE next = {}
    BY <2>1 DEF Copy, TypeOK
  <2>2. CASE next # {}
    <3>1. disk' = [disk EXCEPT ![CopyOrder[i]] = pinned[CopyOrder[i]]] /\ pc' = pc
      BY <2>2 DEF Copy
    <3>2. ASSUME NEW m \in Members PROVE disk'[m] \in Builds
      BY <3>1, <3>2 DEF TypeOK
    <3> QED BY <3>1, <3>2 DEF TypeOK
  <2> QED BY <2>1, <2>2
<1> QED BY <1>1 DEF Copy, TypeOK, service, bounds, Installing

LEMMA RemoveTypes == ASSUME TypeOK, Remove PROVE TypeOK'
<1> DEFINE left == {i \in DOMAIN CopyOrder : disk[CopyOrder[i]] # 0}
           i == CHOOSE j \in left : \A k \in left : j <= k
<1>1. /\ pc' \in {pc, "dock"} /\ disk' \in [Members -> Builds]
      /\ removed' \in BOOLEAN /\ marker' \in Builds
  <2>0. 0 \in Builds
    BY ServiceAssumption DEF Builds
  <2>1. CASE left = {}
    <3>1. disk' = disk /\ pc' = "dock" /\ marker' = 0
      BY <2>1 DEF Remove
    <3>2. removed' = (removed \/ marker # 0)
      BY <2>1, Zenon DEF Remove
    <3>3. removed' \in BOOLEAN
      BY <3>2, Zenon
    <3> QED BY <2>0, <3>1, <3>3 DEF TypeOK
  <2>2. CASE left # {}
    <3>1. disk' = [disk EXCEPT ![CopyOrder[i]] = 0] /\ pc' = pc /\ marker' = marker
      BY <2>2 DEF Remove
    <3>2. removed' = TRUE
      BY <2>2, Zenon DEF Remove
    <3>3. removed' \in BOOLEAN
      BY <3>2, Zenon
    <3> QED BY <2>0, <3>1, <3>3 DEF TypeOK
  <2> QED BY <2>1, <2>2
<1> QED BY <1>1 DEF Remove, TypeOK, service, bounds, Uninstalling

LEMMA NextTypes == ASSUME TypeOK, [Next]_vars PROVE TypeOK'
<1> USE ServiceAssumption
<1>1. CASE Elsewhere
  <2>1. CASE Build
    BY <2>1 DEF TypeOK, Build, Builds, Members, service, bounds
  <2>2. CASE DockRestarts
    BY <2>2 DEF TypeOK, DockRestarts, Builds, service, bounds
  <2>3. CASE HelperInjects
    BY <2>3 DEF TypeOK, HelperInjects, Members, service, bounds
  <2> QED BY <1>1, <2>1, <2>2, <2>3 DEF Elsewhere
<1>2. CASE InstallStep
  <2>1. CASE InstallBegins
    BY <2>1 DEF TypeOK, InstallBegins, Choices, Goes, Builds, Installing, service, bounds
  <2>2. CASE Copy
    BY <2>2, CopyTypes
  <2>3. CASE Unregister \/ Register
    BY <2>3 DEF TypeOK, Unregister, Register, Goes, Installing, service, bounds
  <2>4. CASE Inject
    BY <2>4 DEF TypeOK, Inject, Goes, Members, Installing, service, bounds
  <2>5. CASE Mark \/ GiveUp \/ Interrupt
    <3>1. Flags'
      BY <2>5, Zenon DEF TypeOK, Flags, Mark, GiveUp, Interrupt, service
    <3>2. Nothing \in [Members -> Builds]
      BY DEF Nothing, Builds
    <3> QED
      BY <2>5, <3>1, <3>2 DEF TypeOK, Flags, Mark, GiveUp, Interrupt, Goes, Members, service, bounds
  <2> QED BY <1>2, <2>1, <2>2, <2>3, <2>4, <2>5 DEF InstallStep
<1>3. CASE UninstallStep
  <2>1. CASE Remove
    BY <2>1, RemoveTypes
  <2>2. CASE UninstallBegins \/ Bootout \/ RestartDock \/ NothingInstalled
    <3>1. Flags'
      BY <2>2, Zenon DEF TypeOK, Flags, UninstallBegins, Bootout, RestartDock,
        NothingInstalled, service
    <3> QED
      BY <2>2, <3>1 DEF TypeOK, Flags, UninstallBegins, Bootout, RestartDock,
        NothingInstalled, Goes, Builds, Uninstalling, service, bounds
  <2> QED BY <1>3, <2>1, <2>2 DEF UninstallStep
<1>4. CASE ServiceStep
  <2>1. CASE TakeSocket \/ Bind \/ Ends \/ KeepAlive
    BY <2>1 DEF TypeOK, TakeSocket, Bind, Ends, KeepAlive, Left, sa, bounds
  <2>2. ASSUME NEW c \in Clients, Ask(c) \/ Report(c) PROVE TypeOK'
    BY <2>2 DEF TypeOK, Ask, Report, sa, bounds
  <2>3. ASSUME NEW c \in Clients, Act(c) PROVE TypeOK'
    BY <2>3 DEF TypeOK, Act, Obey, Left, sa, bounds
  <2> QED BY <1>4, <2>1, <2>2, <2>3 DEF ServiceStep
<1>5. CASE UNCHANGED vars
  BY <1>5 DEF TypeOK, vars, sa, service, bounds
<1> QED
  BY <1>1, <1>2, <1>3, <1>4, <1>5 DEF Next, Elsewhere, InstallStep, UninstallStep, ServiceStep

\* Every variable keeps the shape the code gives it, for any number of builds.
THEOREM TypeCorrect == Spec => []TypeOK
<1>1. Init => TypeOK BY InitTypes
<1>2. TypeOK /\ [Next]_vars => TypeOK' BY NextTypes
<1> QED BY <1>1, <1>2, PTL DEF Spec

-----------------------------------------------------------------------------
(* An uninstall that ended is final: the helper is registered by nothing but *)
(* an install, and nothing else reaches the Dock.                            *)

Final ==
  /\ pc \in {"remove", "dock"} => ~registered
  /\ gone => ~registered /\ dock = 0 /\ pc \notin {"inject", "verify"}

LEMMA NextFinal == ASSUME TypeOK, Final, [Next]_vars PROVE Final'
<1>1. CASE Elsewhere
  BY <1>1 DEF Final, Elsewhere, Build, DockRestarts, HelperInjects, service, bounds
<1>2. CASE InstallStep
  <2>1. CASE Register
    <3>1. pc' \notin {"remove", "dock"}
      BY <2>1 DEF Register, Goes
    <3>2. ~gone'
      BY <2>1, Zenon DEF Register
    <3> QED BY <3>1, <3>2, Zenon DEF Final
  <2>2. CASE Inject
    <3>1. pc' \notin {"remove", "dock"} /\ pc \in {"inject", "verify"}
      BY <2>2 DEF Inject, Goes
    <3>2. gone' = gone
      BY <2>2, Zenon DEF Inject
    <3> QED BY <3>1, <3>2, Zenon DEF Final
  <2>3. CASE InstallBegins \/ Copy \/ Unregister \/ Mark \/ GiveUp \/ Interrupt
    <3>1. pc' \notin {"remove", "dock", "inject", "verify"} /\ dock' = dock
      <4>1. CASE Copy
        BY <4>1 DEF Copy
      <4>2. CASE InstallBegins \/ Unregister \/ Mark \/ GiveUp \/ Interrupt
        BY <4>2 DEF InstallBegins, Unregister, Mark, GiveUp, Interrupt, Goes
      <4> QED BY <2>3, <4>1, <4>2
    <3>2. pc' \notin {"remove", "dock"} /\ pc' \notin {"inject", "verify"}
      BY <3>1
    <3>3. (registered' => registered) /\ gone' = gone
      <4>1. CASE InstallBegins \/ Copy
        <5>1. registered' = registered /\ gone' = gone
          BY <4>1 DEF InstallBegins, Copy
        <5> QED BY <5>1, Zenon
      <4>2. CASE Unregister
        BY <4>2, Zenon DEF Unregister
      <4>3. CASE Mark \/ GiveUp \/ Interrupt
        <5>1. registered' = registered /\ gone' = gone
          BY <4>3 DEF Mark, GiveUp, Interrupt
        <5> QED BY <5>1, Zenon
      <4> QED BY <2>3, <4>1, <4>2, <4>3
    <3> QED BY <3>1, <3>2, <3>3, Zenon DEF Final
  <2> QED BY <1>2, <2>1, <2>2, <2>3 DEF InstallStep
<1>3. CASE UninstallStep
  BY <1>3 DEF Final, UninstallStep, UninstallBegins, Bootout, Remove, RestartDock,
    NothingInstalled, Goes, service, bounds
<1>4. CASE ServiceStep \/ UNCHANGED vars
  BY <1>4 DEF Final, ServiceStep, TakeSocket, Bind, Ends, KeepAlive, Ask, Act, Report, sa, vars
<1> QED
  BY <1>1, <1>2, <1>3, <1>4 DEF Next, Elsewhere, InstallStep, UninstallStep, ServiceStep

\* Once an uninstall has ended nothing brings the payload back before the next
\* install registers the helper (run_sa_uninstall: bootout first).
THEOREM UninstallUnloadsHolds == Spec => []UninstallUnloads
<1>1. Init => Final
  BY DEF Init, Final
<1>2. TypeOK /\ Final /\ [Next]_vars => Final'
  BY NextFinal
<1>3. Final => UninstallUnloads
  BY DEF Final, UninstallUnloads, ServiceState, SaState, Probe
<1> QED BY <1>1, <1>2, <1>3, TypeCorrect, PTL DEF Spec

-----------------------------------------------------------------------------
(* Builds only get newer, so a build that is being installed is not older    *)
(* than any file on the disk; the payload is copied first and removed first, *)
(* so no other file is newer than it; and the marker is written when all     *)
(* three are of one build, so no file that is left is older than it.         *)

Newest ==
  /\ tree = Nothing => builds = Installed
  /\ Complete(tree) => tree = [m \in Members |-> builds]

Installable ==
  /\ marker <= builds
  /\ \A m \in Members : disk[m] <= builds
  /\ pc \in Installing =>
       \E b \in Builds : /\ b # 0 /\ b <= builds /\ marker <= b
                         /\ pinned = [m \in Members |-> b]
                         /\ \A m \in Members : disk[m] <= b

Copied == pc \in Installing \ {"copy payload"} => disk = pinned

PayloadLeads == disk["payload"] # 0 => \A m \in Members : disk[m] <= disk["payload"]

MarkerTrails == marker # 0 => \A m \in Members : disk[m] = 0 \/ disk[m] >= marker

Forward == Newest /\ Installable /\ Copied /\ PayloadLeads /\ MarkerTrails

\* What the file that is copied or removed next is.
First(S) == CHOOSE j \in S : \A k \in S : j <= k
Differing == {i \in DOMAIN CopyOrder : disk[CopyOrder[i]] # pinned[CopyOrder[i]]}
Left3 == {i \in DOMAIN CopyOrder : disk[CopyOrder[i]] # 0}

LEMMA Positions ==
  /\ DOMAIN CopyOrder = {1, 2, 3}
  /\ CopyOrder[1] = "payload" /\ CopyOrder[2] = "loader" /\ CopyOrder[3] = "helper"
  BY DEF CopyOrder

LEMMA FirstOf ==
  ASSUME NEW S \in SUBSET {1, 2, 3}, S # {}
  PROVE  First(S) \in S /\ (1 \in S => First(S) = 1)
<1>1. \E j \in S : \A k \in S : j <= k
  <2>1. CASE 1 \in S
    BY <2>1
  <2>2. CASE 1 \notin S /\ 2 \in S
    BY <2>2
  <2>3. CASE 1 \notin S /\ 2 \notin S
    <3>1. 3 \in S /\ \A k \in S : k = 3
      BY <2>3
    <3> QED BY <3>1
  <2> QED BY <2>1, <2>2, <2>3
<1>2. First(S) \in S /\ \A k \in S : First(S) <= k
  BY <1>1 DEF First
<1>3. First(S) \in {1, 2, 3} /\ (1 \in S => First(S) <= 1)
  BY <1>2
<1> QED BY <1>2, <1>3

LEMMA InitForward == ASSUME Init PROVE Forward
  BY ServiceAssumption DEF Init, Forward, Newest, Installable, Copied, PayloadLeads,
    MarkerTrails, Nothing, Complete, Members, Installing

LEMMA CopyForward == ASSUME TypeOK, Forward, Copy PROVE Forward'
<1> USE ServiceAssumption, Positions
<1>1. PICK b \in Builds : /\ b # 0 /\ b <= builds /\ marker <= b
                          /\ pinned = [m \in Members |-> b]
                          /\ \A m \in Members : disk[m] <= b
  BY DEF Copy, Forward, Installable, Installing
<1>2. UNCHANGED <<tree, marker, pinned, builds>>
  BY DEF Copy, bounds
<1>3. CASE Differing = {}
  <2>1. disk' = disk /\ pc' = "register"
    BY <1>3 DEF Copy, Differing
  <2>2. disk = pinned
    BY <1>1, <1>3 DEF Differing, TypeOK, Members
  <2> QED
    BY <1>1, <1>2, <2>1, <2>2 DEF Forward, Newest, Installable, Copied, PayloadLeads,
      MarkerTrails, Complete
<1>4. CASE Differing # {}
  <2> DEFINE n == CopyOrder[First(Differing)]
  <2>1. disk' = [disk EXCEPT ![n] = pinned[n]] /\ pc' = pc
    BY <1>4 DEF Copy, Differing, First
  <2>2. First(Differing) \in Differing /\ (1 \in Differing => First(Differing) = 1)
    BY <1>4, FirstOf DEF Differing
  <2>3. n \in Members /\ (disk["payload"] # b => n = "payload")
    BY <1>1, <2>2 DEF Differing, Members
  <2>4. \A m \in Members : disk'[m] = IF m = n THEN b ELSE disk[m]
    BY <1>1, <2>1, <2>3 DEF TypeOK
  <2> HIDE DEF n
  <2>5. Newest' /\ Copied'
    BY <1>2, <2>1 DEF Forward, Newest, Copied, Complete, Copy
  <2>9. Installable'
    <3>1. b <= builds
      BY <1>1
    <3>2. \A m \in Members : disk'[m] <= b
      BY <1>1, <2>4 DEF TypeOK, Builds
    <3>3. \A m \in Members : disk'[m] <= builds
      BY <2>4, <3>1 DEF Forward, Installable
    <3>4. marker' = marker /\ builds' = builds /\ pinned' = pinned
      BY <1>2
    <3>5. marker' <= builds'
      BY <3>4 DEF Forward, Installable
    <3>6. \A m \in Members : disk'[m] <= builds'
      BY <3>3, <3>4
    <3>7. /\ b # 0 /\ b <= builds' /\ marker' <= b /\ pinned' = [m \in Members |-> b]
          /\ \A m \in Members : disk'[m] <= b
      BY <1>1, <3>2, <3>4
    <3>8. Builds' = Builds
      BY DEF Builds
    <3> QED
      BY <3>5, <3>6, <3>7, <3>8, Zenon DEF Installable
  <2>6. PayloadLeads'
    BY <1>1, <2>3, <2>4 DEF PayloadLeads, Members, TypeOK, Builds
  <2>7. MarkerTrails'
    BY <1>1, <1>2, <2>4 DEF Forward, MarkerTrails, TypeOK, Builds
  <2> QED BY <2>5, <2>6, <2>7, <2>9 DEF Forward
<1> QED BY <1>3, <1>4

LEMMA RemoveForward == ASSUME TypeOK, Forward, Remove PROVE Forward'
<1> USE ServiceAssumption, Positions
<1>1. tree' = tree /\ pinned' = pinned /\ builds' = builds /\ pc' \notin Installing
  BY DEF Remove, bounds, Installing
<1>2. Newest' /\ Copied'
  BY <1>1 DEF Forward, Newest, Copied, Complete
<1>3. CASE Left3 = {}
  <2>1. disk' = disk /\ marker' = 0
    BY <1>3 DEF Remove, Left3
  <2>2. Installable'
    BY <1>1, <2>1 DEF Forward, Installable, TypeOK, Builds
  <2>3. PayloadLeads' /\ MarkerTrails'
    BY <2>1 DEF Forward, PayloadLeads, MarkerTrails
  <2> QED BY <1>2, <2>2, <2>3 DEF Forward
<1>4. CASE Left3 # {}
  <2> DEFINE n == CopyOrder[First(Left3)]
  <2>1. disk' = [disk EXCEPT ![n] = 0] /\ marker' = marker
    BY <1>4 DEF Remove, Left3, First
  <2>2. First(Left3) \in Left3 /\ (1 \in Left3 => First(Left3) = 1)
    BY <1>4, FirstOf DEF Left3
  <2>3. n \in Members /\ (disk["payload"] # 0 => n = "payload")
    BY <2>2 DEF Left3, Members
  <2>4. \A m \in Members : disk'[m] = IF m = n THEN 0 ELSE disk[m]
    BY <2>1, <2>3 DEF TypeOK
  <2> HIDE DEF n
  <2>5. Installable'
    BY <1>1, <2>1, <2>4 DEF Forward, Installable, TypeOK, Builds
  <2>6. PayloadLeads'
    BY <2>3, <2>4 DEF PayloadLeads, Members
  <2>7. MarkerTrails'
    BY <2>1, <2>4 DEF Forward, MarkerTrails
  <2> QED BY <1>2, <2>5, <2>6, <2>7 DEF Forward
<1> QED BY <1>3, <1>4

LEMMA BeginsForward ==
  ASSUME TypeOK, Forward, InstallBegins, Packaged = FALSE
  PROVE  Forward'
<1> USE ServiceAssumption
<1>1. UNCHANGED <<tree, disk, marker, builds>> /\ pc' = "copy payload"
  BY DEF InstallBegins, Goes
<1>2. builds # 0 /\ pinned' = [m \in Members |-> builds]
  <2>1. CASE Complete(tree) /\ pinned' = tree
    BY <2>1 DEF Forward, Newest, Complete, Members
  <2>2. CASE Installed # 0 /\ tree = Nothing /\ pinned' = [m \in Members |-> Installed]
    BY <2>2 DEF Forward, Newest
  <2> QED BY <2>1, <2>2 DEF InstallBegins, Choices
<1>3. Newest' /\ PayloadLeads' /\ MarkerTrails'
  BY <1>1 DEF Forward, Newest, PayloadLeads, MarkerTrails, Complete
<1>4. Installable'
  <2>1. builds \in Builds
    BY DEF TypeOK
  <2>2. marker' <= builds' /\ \A m \in Members : disk'[m] <= builds'
    BY <1>1 DEF Forward, Installable
  <2>3. builds <= builds' /\ builds \in Builds'
    <3>1. builds' = builds
      BY <1>1
    <3>2. builds \in Nat /\ builds <= builds
      BY <2>1 DEF Builds
    <3>3. Builds' = Builds
      BY DEF Builds
    <3> QED BY <2>1, <3>1, <3>2, <3>3
  <2>4. marker' <= builds /\ \A m \in Members : disk'[m] <= builds
    BY <1>1, <2>2
  <2>5. \E b \in Builds' : /\ b # 0 /\ b <= builds' /\ marker' <= b
                          /\ pinned' = [m \in Members |-> b]
                          /\ \A m \in Members : disk'[m] <= b
    BY <1>2, <2>3, <2>4, Zenon
  <2> QED BY <2>2, <2>5, Zenon DEF Installable
<1>5. Copied'
  BY <1>1 DEF Copied
<1> QED BY <1>3, <1>4, <1>5 DEF Forward

LEMMA MarkForward == ASSUME TypeOK, Forward, Mark PROVE Forward'
<1> USE ServiceAssumption
<1>1. UNCHANGED <<tree, disk, builds>> /\ pc' = "idle" /\ marker' = pinned["payload"]
  BY DEF Mark, Goes, bounds
<1>2. PICK b \in Builds : b <= builds /\ pinned = [m \in Members |-> b]
  BY DEF Mark, Goes, Forward, Installable, Installing
<1>3. disk = pinned
  BY DEF Mark, Goes, Forward, Copied, Installing
<1>4. \A m \in Members : disk[m] = b
  BY <1>2, <1>3
<1>5. marker' = b
  BY <1>1, <1>2 DEF Members
<1>6. Newest' /\ PayloadLeads' /\ Copied'
  BY <1>1 DEF Forward, Newest, PayloadLeads, Copied, Complete, Installing
<1>7. Installable'
  BY <1>1, <1>2, <1>4, <1>5 DEF Forward, Installable, Installing
<1>8. MarkerTrails'
  BY <1>1, <1>4, <1>5 DEF MarkerTrails, Builds
<1> QED BY <1>6, <1>7, <1>8 DEF Forward

LEMMA BuildForward == ASSUME TypeOK, Forward, Build PROVE Forward'
<1> USE ServiceAssumption
<1>1. /\ UNCHANGED <<disk, marker, pinned, pc>> /\ builds' = builds + 1
      /\ \E S \in {Members, {"payload"}} :
           tree' = [m \in Members |-> IF m \in S THEN builds + 1 ELSE 0]
  BY DEF Build
<1>2. builds \in Nat
  BY DEF TypeOK, Builds
<1>3. Newest'
  <2>1. CASE tree' = [m \in Members |-> builds + 1]
    BY <1>1, <1>2, <2>1 DEF Newest, Nothing, Members
  <2>2. CASE tree' = [m \in Members |-> IF m \in {"payload"} THEN builds + 1 ELSE 0]
    BY <1>1, <1>2, <2>2 DEF Newest, Nothing, Members, Complete
  <2> QED BY <1>1, <2>1, <2>2
<1>4. Installable'
  <2>1. marker' <= builds' /\ \A m \in Members : disk'[m] <= builds'
    BY <1>1, <1>2 DEF Forward, Installable, TypeOK, Builds
  <2>2. ASSUME pc' \in Installing
        PROVE \E b \in Builds : /\ b # 0 /\ b <= builds' /\ marker' <= b
                               /\ pinned' = [m \in Members |-> b]
                               /\ \A m \in Members : disk'[m] <= b
    <3>1. PICK b \in Builds : /\ b # 0 /\ b <= builds /\ marker <= b
                              /\ pinned = [m \in Members |-> b]
                              /\ \A m \in Members : disk[m] <= b
      BY <1>1, <2>2 DEF Forward, Installable
    <3>2. b <= builds'
      BY <1>1, <1>2, <3>1 DEF Builds
    <3> QED BY <1>1, <3>1, <3>2
  <2> QED BY <2>1, <2>2 DEF Installable, Builds
<1>5. Copied' /\ PayloadLeads' /\ MarkerTrails'
  BY <1>1 DEF Forward, Copied, PayloadLeads, MarkerTrails
<1> QED BY <1>3, <1>4, <1>5 DEF Forward

\* A step that leaves the artifacts and the marker alone, and an install where it
\* is or further on, or ends it.
LEMMA KeepsForward ==
  ASSUME TypeOK, Forward, UNCHANGED <<tree, disk, marker, builds>>,
         \/ pc' \notin Installing
         \/ pinned' = pinned /\ pc \in Installing /\ (pc' = "copy payload" => pc = pc')
            /\ (pc = "copy payload" => pc' = pc)
  PROVE  Forward'
<1>1. Newest' /\ PayloadLeads' /\ MarkerTrails'
  BY DEF Forward, Newest, PayloadLeads, MarkerTrails, Complete
<1>2. Installable'
  BY DEF Forward, Installable, Builds
<1>3. Copied'
  BY DEF Forward, Copied
<1> QED BY <1>1, <1>2, <1>3 DEF Forward

LEMMA NextForward ==
  ASSUME TypeOK, Forward, [Next]_vars, Packaged = FALSE
  PROVE  Forward'
<1>1. CASE Build \/ Copy \/ Mark \/ Remove \/ InstallBegins
  BY <1>1, BuildForward, CopyForward, MarkForward, RemoveForward, BeginsForward
<1>2. CASE Unregister \/ Register \/ Inject
  <2>1. UNCHANGED <<tree, disk, marker, builds, pinned>>
    BY <1>2 DEF Unregister, Register, Inject, bounds
  <2>2. /\ pc \in Installing \ {"copy payload"} /\ pc' # "copy payload"
    BY <1>2 DEF Unregister, Register, Inject, Goes, Installing
  <2> QED BY <2>1, <2>2, KeepsForward
<1>3. CASE GiveUp \/ Interrupt \/ UninstallBegins \/ Bootout \/ RestartDock \/ NothingInstalled
  <2>1. UNCHANGED <<tree, disk, marker, builds>>
    BY <1>3 DEF GiveUp, Interrupt, UninstallBegins, Bootout, RestartDock, NothingInstalled, bounds
  <2>2. pc' \notin Installing
    BY <1>3 DEF GiveUp, Interrupt, UninstallBegins, Bootout, RestartDock, NothingInstalled,
      Goes, Installing
  <2> QED BY <2>1, <2>2, KeepsForward
<1>4. CASE DockRestarts \/ HelperInjects \/ ServiceStep \/ UNCHANGED vars
  <2>1. UNCHANGED <<tree, disk, marker, builds, pinned, pc>>
    BY <1>4 DEF DockRestarts, HelperInjects, ServiceStep, TakeSocket, Bind, Ends, KeepAlive,
      Ask, Act, Report, sa, bounds, vars
  <2> QED BY <2>1, KeepsForward
<1> QED
  BY <1>1, <1>2, <1>3, <1>4 DEF Next, ServiceStep

\* With builds that only get newer, wherever installs and uninstalls were
\* interrupted: a payload that `rovr sa status` calls installed has no loader or
\* helper of another build beside it (incomplete_build_members, run_sa_install,
\* run_sa_uninstall).
THEOREM PairedSetHolds ==
  ASSUME Packaged = FALSE
  PROVE  Spec => []PairedSet
<1>1. Init => Forward
  BY InitForward
<1>2. TypeOK /\ Forward /\ [Next]_vars => Forward'
  BY NextForward
<1>3. TypeOK /\ Forward => PairedSet
  <2> SUFFICES ASSUME TypeOK, Forward, PayloadStatus = "installed"
               PROVE  {disk["loader"], disk["helper"]} \subseteq {0, marker}
    BY DEF PairedSet
  <2>1. disk["payload"] = marker /\ marker # 0
    BY DEF PayloadStatus
  <2>2. \A m \in Members : disk[m] = 0 \/ (disk[m] <= marker /\ disk[m] >= marker)
    BY <2>1 DEF Forward, PayloadLeads, MarkerTrails
  <2>3. \A m \in Members : disk[m] \in {0, marker}
    BY <2>2, ServiceAssumption DEF TypeOK, Builds
  <2> QED BY <2>3 DEF Members
<1> QED BY <1>1, <1>2, <1>3, TypeCorrect, PTL DEF Spec
=============================================================================
