---------------------------- MODULE ManagerProofs ----------------------------
(***************************************************************************)
(* Proofs about ServiceManager, for any databases and handlers and any     *)
(* number of posts, updates and kills.  ManagerInv is inductive; the other *)
(* safety properties of the run follow from it.                            *)
(***************************************************************************)
EXTENDS ServiceManager, TLAPS

-----------------------------------------------------------------------------
(* Type correctness.                                                       *)

\* An update and a download end with a version in range.
LEMMA VersionRange ==
    /\ Versions = 0 .. MaxUpdates + 2
    /\ Damaged \in Nat
    /\ \A n \in 0 .. MaxUpdates : n + 1 \in Versions /\ n + 1 # Damaged
    /\ 1 \in Versions /\ 1 # Damaged /\ 0 \in Versions /\ 0 # Damaged
    BY ManagerAssumption DEF Versions, Damaged

\* There is a configuration, as there is a current one.
LEMMA BlankType == Configs # {} => Blank \in Configs
    BY DEF Blank

\* The initial state is of the right type.
LEMMA InitType == Init => TypeOK
<1> SUFFICES ASSUME Init PROVE TypeOK
    OBVIOUS
<1> USE ManagerAssumption DEF Init
<1>1. config \in Configs /\ Blank \in Configs
    BY BlankType
<1>2. disk \in OnDisk
    BY <1>1 DEF Configs, OnDisk
<1>3. file \in [Geos -> Versions]
    BY VersionRange
<1>4. web \in [Handlers -> [pc : WebPCs, cfg : Configs]]
    BY <1>1 DEF NoPosts, WebPCs
<1>5. edits \in 0 .. MaxEdits /\ kills \in 0 .. MaxKills /\ updates \in 0 .. MaxUpdates
    OBVIOUS
<1> QED
    BY <1>1, <1>2, <1>3, <1>4, <1>5 DEF TypeOK

\* The database startInternal finds is one, or there is none.
LEMMA LoadedType ==
    ASSUME TypeOK, NEW c \in Configs, NEW g \in GeoData \cup {NoGeo}
    PROVE  Loaded(c, g) \in GeoData \cup {NoGeo}
    BY DEF TypeOK, Loaded, Configs, GeoData

\* The services that Serve and ServeNothing leave are of the right type.
LEMMA ServeType ==
    ASSUME TypeOK, NEW c \in Configs, NEW g \in GeoData \cup {NoGeo},
           (CanStart(c, g) /\ Serve(c, g)) \/ ServeNothing(c)
    PROVE  /\ config' \in Configs /\ geo' \in GeoData \cup {NoGeo}
           /\ up' \in Running \cup {Down}
<1>1. CASE CanStart(c, g) /\ Serve(c, g)
  <2>1. Loaded(c, g) \in GeoData
    BY <1>1, LoadedType DEF CanStart
  <2> QED
    BY <1>1, <2>1 DEF Serve, Running
<1>2. CASE ServeNothing(c)
    BY <1>2 DEF ServeNothing
<1> QED
    BY <1>1, <1>2

\* The steps of main preserve the types.
LEMMA MainTypes ==
    ASSUME TypeOK, MainStep
    PROVE  TypeOK'
<1> USE DEF TypeOK
<1>1. CASE BootDownload
  <2>1. file' \in [Geos -> Versions]
    BY <1>1, VersionRange DEF BootDownload, Install
  <2> QED
    BY <1>1, <2>1 DEF BootDownload
<1>2. CASE Start
  <2>1. /\ config' \in Configs /\ geo' \in GeoData \cup {NoGeo}
        /\ up' \in Running \cup {Down}
    BY <1>2, ServeType DEF Start
  <2> QED
    BY <1>2, <2>1 DEF Start
<1>3. CASE StopSignal
    BY <1>3 DEF StopSignal
<1>4. CASE StopServices
    BY <1>4 DEF StopServices
<1>5. CASE Exit
    BY <1>5 DEF Exit
<1> QED
    BY <1>1, <1>2, <1>3, <1>4, <1>5 DEF MainStep

\* Edit keeps the type of the handlers.
LEMMA EditType ==
    ASSUME TypeOK, NEW h \in Handlers, NEW pc \in WebPCs, NEW c \in Configs,
           Edit(h, pc, c)
    PROVE  web' \in [Handlers -> [pc : WebPCs, cfg : Configs]]
    BY DEF TypeOK, Edit

\* What is posted is a configuration.
LEMMA PostedType ==
    ASSUME TypeOK, edits < MaxEdits
    PROVE  PostedConfigs \cup PostedHosts \subseteq Configs
<1>1. edits + 1 \in 0 .. MaxEdits /\ config \in Configs
    BY ManagerAssumption DEF TypeOK
<1>2. PostedHosts \subseteq Configs
    BY <1>1 DEF PostedHosts, Configs
<1>3. \A g \in Geos : [config EXCEPT !.geo = g, !.rules = edits + 1] \in Configs
    BY <1>1 DEF Configs
<1> QED
    BY <1>2, <1>3 DEF PostedConfigs

\* A step of Save writes a part of the handler's configuration, or nothing.
LEMMA SaveEffect ==
    ASSUME TypeOK, NEW h \in Handlers, Save(h)
    PROVE  /\ \E next \in SavePCs \cup {"reload"} : Edit(h, next, web[h].cfg)
           /\ disk' \in {disk} \cup
                {[disk EXCEPT ![f] = web[h].cfg[f]] : f \in {"geo", "hosts", "rules"}}
    BY DEF Save, WriteFile, RenameFile, WriteTemp, Part, SavePCs

\* The steps of a handler preserve the types.
LEMMA WebTypes ==
    ASSUME TypeOK, NEW h \in Handlers, WebStep(h)
    PROVE  TypeOK'
<1> USE DEF TypeOK
<1>0. /\ web[h].cfg \in Configs /\ config \in Configs
      /\ Blank \in Configs
    BY BlankType
<1>1. CASE Post(h)
  <2>1. edits' \in 0 .. MaxEdits
    BY <1>1, ManagerAssumption DEF Post
  <2>2. web' \in [Handlers -> [pc : WebPCs, cfg : Configs]]
    BY <1>1, PostedType, EditType DEF Post, WebPCs
  <2> QED
    BY <1>1, <2>1, <2>2 DEF Post
<1>2. CASE Save(h)
  <2>1. web' \in [Handlers -> [pc : WebPCs, cfg : Configs]]
    BY <1>0, <1>2, SaveEffect, EditType DEF WebPCs
  <2>2. \A f \in {"geo", "hosts", "rules"} :
            [disk EXCEPT ![f] = web[h].cfg[f]] \in OnDisk
    BY <1>0 DEF OnDisk, Configs
  <2>3. disk' \in OnDisk
    BY <1>2, <2>2, SaveEffect
  <2> QED
    BY <1>2, <2>1, <2>3 DEF Save
<1>3. CASE SaveFails(h)
  <2>1. web' \in [Handlers -> [pc : WebPCs, cfg : Configs]]
    BY <1>0, <1>3, EditType DEF SaveFails, WebPCs
  <2> QED
    BY <1>3, <2>1 DEF SaveFails
<1>4. CASE Reload(h)
  <2>1. web' \in [Handlers -> [pc : WebPCs, cfg : Configs]]
    BY <1>0, <1>4, EditType DEF Reload, WebPCs
  <2>2. KeptGeo(web[h].cfg) \in GeoData \cup {NoGeo}
    BY DEF KeptGeo
  <2>3. /\ config' \in Configs /\ geo' \in GeoData \cup {NoGeo}
        /\ up' \in Running \cup {Down}
    BY <1>0, <1>4, <2>2, ServeType DEF Reload, Restart
  <2> QED
    BY <1>4, <2>1, <2>3 DEF Reload
<1> QED
    BY <1>1, <1>2, <1>3, <1>4 DEF WebStep

\* The steps of runAutoUpdate preserve the types.
LEMMA AutoTypes ==
    ASSUME TypeOK, AutoStep
    PROVE  TypeOK'
<1> USE DEF TypeOK
<1>1. CASE AutoStops
    BY <1>1 DEF AutoStops
<1>2. CASE AutoTick
  <2>1. updates' \in 0 .. MaxUpdates
    BY <1>2, ManagerAssumption DEF AutoTick
  <2> QED
    BY <1>2, <2>1 DEF AutoTick
<1>3. CASE AutoDownload
  <2>1. file' \in [Geos -> Versions]
    BY <1>3, VersionRange DEF AutoDownload, Install
  <2> QED
    BY <1>3, <2>1 DEF AutoDownload
<1>4. CASE AutoCheck
    BY <1>4 DEF AutoCheck
<1>5. CASE AutoReload
  <2>1. /\ config' \in Configs /\ geo' \in GeoData \cup {NoGeo}
        /\ up' \in Running \cup {Down}
    BY <1>5, ServeType DEF AutoReload, RestartCurrent
  <2> QED
    BY <1>5, <2>1, BlankType DEF AutoReload
<1> QED
    BY <1>1, <1>2, <1>3, <1>4, <1>5 DEF AutoStep

\* Every step preserves the types.
LEMMA NextType ==
    ASSUME TypeOK, [Next]_vars
    PROVE  TypeOK'
<1> USE DEF TypeOK
<1>1. CASE Killed
  <2>1. kills' \in 0 .. MaxKills
    BY <1>1, ManagerAssumption DEF Killed
  <2>2. web' \in [Handlers -> [pc : WebPCs, cfg : Configs]]
    BY <1>1, BlankType DEF Killed, NoPosts, WebPCs
  <2> QED
    BY <1>1, <2>1, <2>2, BlankType DEF Killed
<1>2. ASSUME NEW g \in Geos, FileLost(g) PROVE TypeOK'
  <2>1. file' \in [Geos -> Versions]
    BY <1>2, VersionRange DEF FileLost
  <2> QED
    BY <1>2, <2>1 DEF FileLost
<1>3. CASE UNCHANGED vars
    BY <1>3 DEF vars
<1> QED
    BY <1>1, <1>2, <1>3, MainTypes, AutoTypes, WebTypes DEF Next

\* The variables keep their types in every reachable state (manager.go:26-45).
THEOREM TypeCorrect == Spec => []TypeOK
    BY InitType, NextType, PTL DEF Spec

-----------------------------------------------------------------------------
(* The inductive invariant.                                                *)

\* Before Start only BootDownload and Start itself can happen: no handler
\* and no update is there.
LEMMA BootIsBlankStep ==
    ASSUME TypeOK, BootIsBlank, [Next]_vars
    PROVE  BootIsBlank'
<1> USE DEF BootIsBlank
<1>1. CASE MainStep
    BY <1>1 DEF MainStep, BootDownload, Start, StopSignal, StopServices, Exit
<1>2. CASE AutoStep
    BY <1>2 DEF AutoStep, AutoStops, AutoTick, AutoDownload, AutoCheck, AutoReload
<1>3. CASE Killed
    BY <1>3 DEF Killed
<1>4. ASSUME NEW h \in Handlers, WebStep(h) PROVE BootIsBlank'
  <2>1. main # "boot" \/ web[h].pc = "idle"
    BY DEF NoPosts
  <2>2. main # "boot"
    BY <1>4, <2>1 DEF WebStep, Post, Save, SaveFails, Reload, WriteFile,
                      RenameFile, SavePCs
  <2>3. main' = main
    BY <1>4 DEF WebStep, Post, Save, SaveFails, Reload
  <2> QED
    BY <2>2, <2>3
<1>5. ASSUME NEW g \in Geos, FileLost(g) PROVE BootIsBlank'
    BY <1>5 DEF FileLost
<1>6. CASE UNCHANGED vars
    BY <1>6 DEF vars
<1> QED
    BY <1>1, <1>2, <1>3, <1>4, <1>5, <1>6 DEF Next

\* What is served is what it was asked to be, with the database it names.
LEMMA ServesNamed ==
    ASSUME NEW c, NEW g, g # NoGeo => g.path = c.geo, CanStart(c, g), Serve(c, g)
    PROVE  ServesCurrent' /\ GeoIsNamed'
<1>1. Loaded(c, g).path = c.geo
    BY DEF CanStart, Loaded
<1> QED
    BY <1>1 DEF Serve, ServesCurrent, GeoIsNamed

\* When nothing is served, nothing is loaded.
LEMMA NothingNamed ==
    ASSUME NEW c, ServeNothing(c)
    PROVE  ServesCurrent' /\ GeoIsNamed'
    BY DEF ServeNothing, ServesCurrent, GeoIsNamed

\* Every step preserves ServesCurrent and GeoIsNamed: a loaded database is
\* kept only under a configuration with the same path.
LEMMA ServesCurrentStep ==
    ASSUME TypeOK, BootIsBlank, GeoIsNamed, ServesCurrent, [Next]_vars
    PROVE  ServesCurrent' /\ GeoIsNamed'
<1>0. ASSUME UNCHANGED <<config, geo, up>> PROVE ServesCurrent' /\ GeoIsNamed'
    BY <1>0 DEF ServesCurrent, GeoIsNamed
<1>1. CASE Start
    BY <1>1, ServesNamed, NothingNamed DEF Start, GeoIsNamed
<1>2. CASE StopServices
    BY <1>2 DEF StopServices, ServesCurrent, GeoIsNamed
<1>3. CASE Killed
    BY <1>3 DEF Killed, ServesCurrent, GeoIsNamed
<1>4. ASSUME NEW h \in Handlers, Reload(h) PROVE ServesCurrent' /\ GeoIsNamed'
  <2> DEFINE c == web[h].cfg
  <2>1. KeptGeo(c) # NoGeo => KeptGeo(c).path = c.geo
    BY DEF KeptGeo, GeoIsNamed
  <2>2. Restart(c)
    BY <1>4 DEF Reload
  <2> QED
    BY <2>1, <2>2, ServesNamed, NothingNamed DEF Restart
<1>5. CASE AutoReload
    BY <1>5, ServesNamed, NothingNamed DEF AutoReload, RestartCurrent
<1>6. ASSUME NEW h \in Handlers, Post(h) \/ Save(h) \/ SaveFails(h)
      PROVE  UNCHANGED <<config, geo, up>>
    BY <1>6 DEF Post, Save, SaveFails
<1>7. CASE BootDownload \/ StopSignal \/ Exit
    BY <1>0, <1>7 DEF BootDownload, StopSignal, Exit
<1>8. CASE AutoStops \/ AutoTick \/ AutoDownload \/ AutoCheck
    BY <1>0, <1>8 DEF AutoStops, AutoTick, AutoDownload, AutoCheck
<1>9. ASSUME NEW g \in Geos, FileLost(g) PROVE UNCHANGED <<config, geo, up>>
    BY <1>9 DEF FileLost
<1>10. CASE UNCHANGED vars
    BY <1>0, <1>10 DEF vars
<1> QED
    BY <1>0, <1>1, <1>2, <1>3, <1>4, <1>5, <1>6, <1>7, <1>8, <1>9, <1>10
    DEF Next, MainStep, AutoStep, WebStep

-----------------------------------------------------------------------------
(* Saving.                                                                 *)

\* Where a step of Save leads from.
SaveNext(pc, next) ==
    \/ pc = "save" /\ next = "configRename"
    \/ pc = "configRename" /\ next = "hosts"
    \/ pc = "hosts" /\ next = "hostsRename"
    \/ pc = "hostsRename" /\ next = "rules"
    \/ pc = "rules" /\ next = "rulesRename"
    \/ pc = "rulesRename" /\ next = "reload"

\* A step of Save, file by file.
LEMMA SaveSteps ==
    ASSUME TypeOK, NEW h \in Handlers, Save(h)
    PROVE  /\ \A i \in Handlers \ {h} : web'[i] = web[i]
           /\ web'[h].cfg = web[h].cfg
           /\ SaveNext(web[h].pc, web'[h].pc)
           /\ web[h].pc = "save" => SaveMuFree
           /\ disk' = CASE web[h].pc = "configRename" -> [disk EXCEPT !.geo = web[h].cfg.geo]
                        [] web[h].pc = "hostsRename" -> [disk EXCEPT !.hosts = web[h].cfg.hosts]
                        [] web[h].pc = "rulesRename" -> [disk EXCEPT !.rules = web[h].cfg.rules]
                        [] OTHER -> disk
<1> DEFINE pc == web[h].pc
<1>0. web \in [Handlers -> [pc : WebPCs, cfg : Configs]]
    BY DEF TypeOK
<1>1. ASSUME NEW next, Edit(h, next, web[h].cfg)
      PROVE  /\ \A i \in Handlers \ {h} : web'[i] = web[i]
             /\ web'[h].cfg = web[h].cfg /\ web'[h].pc = next
    BY <1>0, <1>1 DEF Edit
<1>2. \E next : Edit(h, next, web[h].cfg) /\ SaveNext(pc, next)
    BY DEF Save, WriteFile, RenameFile, SaveNext
<1>3. pc = "save" => SaveMuFree
    BY DEF Save, WriteFile, RenameFile
<1>4. disk' = CASE pc = "configRename" -> [disk EXCEPT !.geo = web[h].cfg.geo]
                [] pc = "hostsRename" -> [disk EXCEPT !.hosts = web[h].cfg.hosts]
                [] pc = "rulesRename" -> [disk EXCEPT !.rules = web[h].cfg.rules]
                [] OTHER -> disk
    BY DEF Save, WriteFile, RenameFile, WriteTemp, Part
<1> QED
    BY <1>1, <1>2, <1>3, <1>4

\* What every step but one of Save does to the handlers and to the disk.
LEMMA WebFrame ==
    ASSUME TypeOK, [Next]_vars
    PROVE  \/ \E h \in Handlers : Save(h)
           \/ /\ disk' = disk
              /\ \A h \in Handlers : \/ web'[h] = web[h]
                                     \/ web'[h].pc \in {"idle", "save"}
<1>1. ASSUME NEW h \in Handlers, NEW pc, NEW c, Edit(h, pc, c)
      PROVE  /\ web'[h].pc = pc
             /\ \A i \in Handlers \ {h} : web'[i] = web[i]
    BY <1>1 DEF TypeOK, Edit
<1>2. ASSUME NEW h \in Handlers, Post(h) \/ SaveFails(h) \/ Reload(h)
      PROVE  /\ disk' = disk
             /\ \E pc \in {"idle", "save"} : \E c : Edit(h, pc, c)
    BY <1>2 DEF Post, SaveFails, Reload
<1>3. CASE Killed
    BY <1>3 DEF Killed, NoPosts
<1>4. CASE MainStep
    BY <1>4 DEF MainStep, BootDownload, Start, StopSignal, StopServices, Exit
<1>5. CASE AutoStep
    BY <1>5 DEF AutoStep, AutoStops, AutoTick, AutoDownload, AutoCheck, AutoReload
<1>6. ASSUME NEW g \in Geos, FileLost(g) PROVE UNCHANGED <<disk, web>>
    BY <1>6 DEF FileLost
<1>7. CASE UNCHANGED vars
    BY <1>7 DEF vars
<1> QED
    BY <1>1, <1>2, <1>3, <1>4, <1>5, <1>6, <1>7 DEF Next, WebStep

\* Every step preserves OneSaver: nobody enters Save while it is taken.
LEMMA OneSaverStep ==
    ASSUME TypeOK, OneSaver, [Next]_vars
    PROVE  OneSaver'
<1> USE DEF OneSaver, SavePCs
<1>1. ASSUME NEW h \in Handlers, Save(h) PROVE OneSaver'
    BY <1>1, SaveSteps DEF SaveNext, SaveMuFree
<1>2. CASE \A h \in Handlers : web'[h] = web[h] \/ web'[h].pc \in {"idle", "save"}
    BY <1>2
<1> QED
    BY <1>1, <1>2, WebFrame

\* Every step preserves SavedSoFar: only the one within Save writes.
LEMMA SavedSoFarStep ==
    ASSUME TypeOK, OneSaver, SavedSoFar, [Next]_vars
    PROVE  SavedSoFar'
<1> USE DEF SavedSoFar, SavePCs
<1>1. ASSUME NEW h \in Handlers, Save(h) PROVE SavedSoFar'
  <2>0. disk \in OnDisk /\ disk' \in OnDisk
    BY NextType DEF TypeOK
  <2>1. ASSUME NEW i \in Handlers \ {h}, web'[i].pc \in SavePCs \ {"configRename"}
        PROVE  web[h].pc = "save" /\ disk' = disk
    BY <1>1, <2>1, SaveSteps DEF OneSaver, SaveNext
  <2>2. /\ web'[h].pc \in SavePCs \ {"configRename"} => disk'.geo = web'[h].cfg.geo
        /\ web'[h].pc \in {"rules", "rulesRename"} => disk'.hosts = web'[h].cfg.hosts
    BY <1>1, <2>0, SaveSteps DEF SaveNext, OnDisk
  <2> QED
    BY <1>1, <2>1, <2>2, SaveSteps
<1>2. CASE /\ disk' = disk
           /\ \A h \in Handlers : \/ web'[h] = web[h]
                                  \/ web'[h].pc \in {"idle", "save"}
    BY <1>2
<1> QED
    BY <1>1, <1>2, WebFrame

\* A save that succeeds leaves its own configuration on disk.
LEMMA SaveCompletes ==
    ASSUME TypeOK, SavedSoFar, disk \in Configs, NEW h \in Handlers, Save(h),
           web'[h].pc = "reload"
    PROVE  disk' = web[h].cfg
<1>1. web[h].pc = "rulesRename" /\ disk' = [disk EXCEPT !.rules = web[h].cfg.rules]
    BY SaveSteps DEF SaveNext
<1>2. disk.geo = web[h].cfg.geo /\ disk.hosts = web[h].cfg.hosts
    BY <1>1 DEF SavedSoFar, SavePCs
<1>3. web[h].cfg \in Configs
    BY DEF TypeOK
<1> QED
    BY <1>1, <1>2, <1>3 DEF Configs

\* Every step preserves FilesAreWhole: a rename moves a complete file.
LEMMA FilesAreWholeStep ==
    ASSUME TypeOK, FilesAreWhole, [Next]_vars
    PROVE  FilesAreWhole'
<1>1. disk' \in Configs
  <2>1. ASSUME NEW h \in Handlers, Save(h) PROVE disk' \in Configs
    <3>1. web[h].cfg \in Configs /\ disk \in Configs
      BY DEF TypeOK, FilesAreWhole
    <3>2. \A f \in {"geo", "hosts", "rules"} :
             [disk EXCEPT ![f] = web[h].cfg[f]] \in Configs
      BY <3>1 DEF Configs
    <3> QED
      BY <2>1, <3>1, <3>2, SaveEffect
  <2> QED
    BY <2>1, WebFrame DEF FilesAreWhole
<1>2. \A g \in Geos : file'[g] # Damaged
  <2>0. file \in [Geos -> Versions] /\ \A g \in Geos : file[g] # Damaged
    BY DEF TypeOK, FilesAreWhole
  <2>1. CASE BootDownload
    BY <2>0, <2>1, VersionRange DEF BootDownload, Install
  <2>2. CASE AutoDownload
    <3>1. updates + 1 # Damaged
      BY VersionRange DEF TypeOK
    <3> QED
      BY <2>0, <2>2, <3>1 DEF AutoDownload, Install
  <2>3. ASSUME NEW g \in Geos, FileLost(g)
        PROVE  \A i \in Geos : file'[i] # Damaged
    BY <2>0, <2>3, VersionRange DEF FileLost
  <2>4. ASSUME file' = file PROVE \A g \in Geos : file'[g] # Damaged
    BY <2>0, <2>4
  <2>5. ASSUME NEW h \in Handlers, WebStep(h) PROVE file' = file
    BY <2>5 DEF WebStep, Post, Save, SaveFails, Reload
  <2> QED
    BY <2>1, <2>2, <2>3, <2>4, <2>5
    DEF Next, MainStep, AutoStep, Start, StopSignal, StopServices, Exit,
        AutoStops, AutoTick, AutoCheck, AutoReload, Killed, vars
<1> QED
    BY <1>1, <1>2 DEF FilesAreWhole

-----------------------------------------------------------------------------
(* One post at a time.                                                     *)

\* Every step preserves OneByOne and RunningIsSaved: a post that is alone
\* puts the same configuration on disk and into the process.
LEMMA OneByOneStep ==
    ASSUME ManagerInv, FilesAreWhole, RunningIsSaved, [Next]_vars
    PROVE  OneByOne' /\ RunningIsSaved'
<1> USE DEF OneByOne, RunningIsSaved, Posting, Alive
<1>0. /\ TypeOK /\ SavedSoFar /\ OneByOne /\ disk \in Configs
      /\ web \in [Handlers -> [pc : WebPCs, cfg : Configs]]
    BY DEF ManagerInv, FilesAreWhole, TypeOK
<1>1. ASSUME UNCHANGED <<disk, web, config, disturbed>>, Alive' => Alive
      PROVE  OneByOne' /\ RunningIsSaved'
    BY <1>0, <1>1
<1>2. CASE Killed
    BY <1>0, <1>2 DEF Killed, NoPosts
<1>3. ASSUME NEW h \in Handlers, Post(h) PROVE OneByOne' /\ RunningIsSaved'
  <2>1. /\ \A i \in Handlers \ {h} : web'[i] = web[i]
        /\ web'[h].pc = "save"
    BY <1>0, <1>3 DEF Post, Edit
  <2>2. ~disturbed' => ~disturbed /\ \A i \in Handlers : web[i].pc = "idle"
    BY <1>3 DEF Post
  <2>3. OneByOne'
    BY <2>1, <2>2
  <2>4. RunningIsSaved'
    BY <2>1
  <2> QED
    BY <2>3, <2>4
<1>4. ASSUME NEW h \in Handlers, Save(h) PROVE OneByOne' /\ RunningIsSaved'
  <2>1. disturbed' = disturbed
    BY <1>4 DEF Save
  <2>2. web[h].pc # "idle" /\ web'[h].pc # "idle"
    BY <1>0, <1>4, SaveSteps DEF SaveNext
  <2>3. web'[h].pc = "reload" => disk' = web'[h].cfg
    BY <1>0, <1>4, SaveCompletes, SaveSteps
  <2>4. \A i \in Handlers \ {h} : web'[i] = web[i]
    BY <1>0, <1>4, SaveSteps
  <2> QED
    BY <1>0, <2>1, <2>2, <2>3, <2>4
<1>5. ASSUME NEW h \in Handlers, SaveFails(h) PROVE OneByOne' /\ RunningIsSaved'
    BY <1>5 DEF SaveFails
<1>6. ASSUME NEW h \in Handlers, Reload(h) PROVE OneByOne' /\ RunningIsSaved'
  <2> DEFINE c == web[h].cfg
  <2> SUFFICES ASSUME ~disturbed' PROVE OneByOne' /\ RunningIsSaved'
    OBVIOUS
  <2>1. ~disturbed /\ CanStart(c, KeptGeo(c))
    BY <1>6 DEF Reload
  <2>2. config' = c
    BY <1>6, <2>1 DEF Reload, Restart, Serve
  <2>3. disk' = disk /\ disk = c
    BY <1>0, <1>6, <2>1 DEF Reload
  <2>4. \A i \in Handlers : web'[i].pc = "idle"
    BY <1>0, <1>6, <2>1 DEF Reload, Edit
  <2> QED
    BY <2>2, <2>3, <2>4
<1>7. CASE MainStep
  <2>1. config' = config
    BY <1>7 DEF MainStep, BootDownload, Start, StopSignal, StopServices, Exit,
                Serve, ServeNothing
  <2> QED
    BY <1>1, <1>7, <2>1
    DEF MainStep, BootDownload, Start, StopSignal, StopServices, Exit
<1>8. CASE AutoStep
  <2>1. config' = config
    BY <1>8 DEF AutoStep, AutoStops, AutoTick, AutoDownload, AutoCheck,
                AutoReload, RestartCurrent, Serve, ServeNothing
  <2> QED
    BY <1>1, <1>8, <2>1
    DEF AutoStep, AutoStops, AutoTick, AutoDownload, AutoCheck, AutoReload
<1>9. ASSUME NEW g \in Geos, FileLost(g) PROVE OneByOne' /\ RunningIsSaved'
    BY <1>1, <1>9 DEF FileLost
<1>10. CASE UNCHANGED vars
    BY <1>1, <1>10 DEF vars
<1> QED
    BY <1>2, <1>3, <1>4, <1>5, <1>6, <1>7, <1>8, <1>9, <1>10 DEF Next, WebStep

-----------------------------------------------------------------------------
(* The theorems.                                                           *)

\* The initial states satisfy the invariant.
LEMMA InitInv == Init => ManagerInv /\ FilesAreWhole /\ RunningIsSaved
<1> SUFFICES ASSUME Init PROVE ManagerInv /\ FilesAreWhole /\ RunningIsSaved
    OBVIOUS
<1>1. \A h \in Handlers : web[h].pc = "idle"
    BY DEF Init, NoPosts
<1>2. ServesCurrent /\ BootIsBlank /\ GeoIsNamed
    BY DEF Init, ServesCurrent, BootIsBlank, GeoIsNamed
<1>3. OneSaver /\ SavedSoFar /\ OneByOne
    BY <1>1 DEF OneSaver, SavedSoFar, OneByOne, SavePCs
<1>4. FilesAreWhole /\ RunningIsSaved
    BY VersionRange DEF Init, FilesAreWhole, RunningIsSaved
<1> QED
    BY <1>2, <1>3, <1>4, InitType DEF ManagerInv

\* Every step preserves it.
LEMMA NextInv ==
    ASSUME ManagerInv, FilesAreWhole, RunningIsSaved, [Next]_vars
    PROVE  ManagerInv' /\ FilesAreWhole' /\ RunningIsSaved'
<1>1. /\ TypeOK /\ ServesCurrent /\ BootIsBlank /\ GeoIsNamed /\ OneSaver
      /\ SavedSoFar
    BY DEF ManagerInv
<1>2. TypeOK' /\ BootIsBlank' /\ ServesCurrent' /\ GeoIsNamed'
    BY <1>1, NextType, BootIsBlankStep, ServesCurrentStep
<1>3. OneSaver' /\ SavedSoFar'
    BY <1>1, OneSaverStep, SavedSoFarStep
<1>4. OneByOne' /\ RunningIsSaved'
    BY OneByOneStep
<1>5. FilesAreWhole'
    BY <1>1, FilesAreWholeStep
<1> QED
    BY <1>2, <1>3, <1>4, <1>5 DEF ManagerInv

\* What runs is the current configuration with the database it names, a
\* database is loaded for its path only, and Save has one handler at a time
\* (manager.go:103-141, config.go:210-256).
THEOREM ManagerInvariant == Spec => []ManagerInv
    BY InitInv, NextInv, PTL DEF Spec

\* No file is ever half written or damaged by a download (config.go:258-286,
\* download.go:62-90).
THEOREM FilesAreWholeHolds == Spec => []FilesAreWhole
    BY InitInv, NextInv, PTL DEF Spec

\* Unless posts overlapped or failed, the process runs with what is on disk
\* (manager.go:152-169, 284-294).
THEOREM RunningIsSavedHolds == Spec => []RunningIsSaved
    BY InitInv, NextInv, PTL DEF Spec

\* A save that succeeds leaves the three files of its own configuration,
\* whoever saves at the same time (config.go:17-19, 210-256).
THEOREM SavedTogetherHolds == Spec => SavedTogether
<1>1. ASSUME ManagerInv, FilesAreWhole, [Next]_vars,
             NEW h \in Handlers, web[h].pc \in SavePCs, web'[h].pc = "reload"
      PROVE  disk' = web[h].cfg
  <2>0. TypeOK /\ SavedSoFar /\ disk \in Configs
    BY <1>1 DEF ManagerInv, FilesAreWhole
  <2>1. PICK i \in Handlers : Save(i)
    BY <1>1, <2>0, WebFrame DEF SavePCs
  <2>2. i = h
    BY <1>1, <2>0, <2>1, SaveSteps DEF SavePCs
  <2> QED
    BY <1>1, <2>0, <2>1, <2>2, SaveCompletes
<1>2. ManagerInv /\ FilesAreWhole /\ [Next]_vars =>
        [\A h \in Handlers : web[h].pc \in SavePCs /\ web'[h].pc = "reload" =>
             disk' = web[h].cfg]_vars
    BY <1>1
<1> QED
    BY <1>2, ManagerInvariant, FilesAreWholeHolds, PTL DEF Spec, SavedTogether

\* No reload or update takes running services down while the database of
\* their configuration has not been lost (manager.go:129-146, 209-225).
THEOREM KeepsServingHolds == Spec => KeepsServing
<1>1. ASSUME ManagerInv, FilesAreWhole, [Next]_vars, up # Down, up' = Down
      PROVE  main' = "stopped" \/ kills' # kills \/ file[config.geo] = 0
  <2>0. /\ TypeOK /\ BootIsBlank /\ config \in Configs
        /\ \A c \in Configs : file[c.geo] \in Versions \ {Damaged}
    BY <1>1 DEF ManagerInv, FilesAreWhole, TypeOK, Configs
  <2>1. ASSUME NEW c \in Configs, NEW g \in GeoData \cup {NoGeo},
               CanStart(c, g), Serve(c, g)
        PROVE  FALSE
    <3>1. [config |-> c, geo |-> Loaded(c, g)] \in Running
      BY <2>0, <2>1, LoadedType DEF CanStart, Running
    <3> QED
      BY <1>1, <2>1, <3>1, NilAssumption DEF Serve
  <2>2. ASSUME ~CanStart(config, NoGeo) PROVE file[config.geo] = 0
    <3>1. ~Loadable(file[config.geo])
      <4>1. [path |-> config.geo, ver |-> file[config.geo]] \in GeoData
        BY <2>0 DEF GeoData, Configs
      <4> QED
        BY <2>2, <4>1, NilAssumption DEF CanStart, Loaded
    <3>2. file[config.geo] \in Versions \ {Damaged}
      BY <2>0
    <3> QED
      BY <3>1, <3>2, ManagerAssumption DEF Loadable, Versions, Damaged
  <2>3. ASSUME NEW h \in Handlers, Reload(h) PROVE file[config.geo] = 0
    <3>1. web[h].cfg \in Configs /\ KeptGeo(web[h].cfg) \in GeoData \cup {NoGeo}
      BY <2>0 DEF TypeOK, KeptGeo
    <3> QED
      BY <2>0, <2>1, <2>2, <2>3, <3>1 DEF Reload, Restart
  <2>4. CASE AutoReload
    BY <2>0, <2>1, <2>2, <2>4 DEF AutoReload, RestartCurrent
  <2>5. CASE Start
    BY <1>1, <2>0, <2>5 DEF Start, BootIsBlank
  <2>6. CASE StopServices
    BY <2>6 DEF StopServices
  <2>7. CASE Killed
    BY <2>0, <2>7, ManagerAssumption DEF Killed, TypeOK
  <2>8. ~UNCHANGED up
    BY <1>1
  <2>9. ASSUME NEW h \in Handlers, Post(h) \/ Save(h) \/ SaveFails(h)
        PROVE  FALSE
    BY <2>8, <2>9 DEF Post, Save, SaveFails
  <2> QED
    BY <1>1, <2>3, <2>4, <2>5, <2>6, <2>7, <2>8, <2>9
    DEF Next, MainStep, AutoStep, WebStep, BootDownload, StopSignal, Exit,
        AutoStops, AutoTick, AutoDownload, AutoCheck, FileLost, vars
<1>2. ManagerInv /\ FilesAreWhole /\ [Next]_vars =>
        [up # Down /\ up' = Down =>
             main' = "stopped" \/ kills' # kills \/ file[config.geo] = 0]_vars
    BY <1>1
<1> QED
    BY <1>2, ManagerInvariant, FilesAreWholeHolds, PTL DEF Spec, KeepsServing
=============================================================================
