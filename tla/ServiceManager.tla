--------------------------- MODULE ServiceManager ---------------------------
(***************************************************************************)
(* The lifecycle of the services (internal/manager/manager.go): Start,     *)
(* Stop and Reload of the whole set of listeners, the goroutine that       *)
(* updates the geo databases and restarts the services on them, and the    *)
(* web handlers that build a new configuration, save it (config.go) and    *)
(* reload it; all of it with a process that may be killed at any time and  *)
(* begins again from the files.                                            *)
(*                                                                         *)
(* Start, Stop, Reload and reloadCurrent run under m.mu and are one action *)
(* each; everything else interleaves.  A configuration is its three files: *)
(* config.yaml, of which the geo database counts, hosts.txt and rule.txt.  *)
(* The listeners themselves are in Servers.                                *)
(***************************************************************************)
EXTENDS Naturals

CONSTANTS Geos,            \* paths of geo databases
          Handlers,        \* concurrent POST requests to the web interface
          NoGeo, Down,     \* m.GeoManager = nil; no services
          Torn,            \* content of a file that was half written
          MaxEdits,        \* bound: configurations posted
          MaxUpdates,      \* bound: scheduled updates
          MaxKills         \* bound: times the process is killed

ASSUME ManagerAssumption ==
    MaxEdits \in Nat /\ MaxUpdates \in Nat /\ MaxKills \in Nat

VARIABLES file,      \* file[g]: version of the database on disk
          disk,      \* the three configuration files
          config,    \* m.Config
          geo,       \* m.GeoManager: the loaded database
          up,        \* what the services run with: configuration, database
          stopReq,   \* m.stopAutoUpdate is closed
          main,      \* where main is
          auto,      \* where runAutoUpdate is
          autoCfg,   \* cfg in runAutoUpdate: m.Config when it last looked
          updates,   \* scheduled updates so far
          web,       \* web[h]: where a handler is, and its configuration
          edits,     \* configurations posted so far
          kills,     \* times the process was killed
          disturbed  \* history: posts overlapped, or one was not carried out

vars == <<file, disk, config, geo, up, stopReq, main, auto, autoCfg, updates,
          web, edits, kills, disturbed>>

\* Of a database: 0 is missing or damaged by somebody else, Damaged by a
\* download.
Damaged  == MaxUpdates + 2
Versions == 0 .. Damaged
Loadable(v) == v \in 1 .. MaxUpdates + 1

Configs  == [geo : Geos, hosts : 0 .. MaxEdits, rules : 0 .. MaxEdits]
OnDisk   == [geo : Geos \cup {Torn}, hosts : (0 .. MaxEdits) \cup {Torn},
             rules : (0 .. MaxEdits) \cup {Torn}]
GeoData  == [path : Geos, ver : Versions]
Blank    == CHOOSE c \in Configs : TRUE    \* a variable out of scope
Running  == [config : Configs, geo : GeoData]

\* nil is no database, and no services are none.
ASSUME NilAssumption == NoGeo \notin GeoData /\ Down \notin Running

\* Where Save is, with saveMu held: it has to write the temporary file for the
\* one named, or to rename it.  "save" is before the first.
SavePCs == {"configRename", "hosts", "hostsRename", "rules", "rulesRename"}
WebPCs  == {"idle", "save", "reload"} \cup SavePCs

TypeOK ==
    /\ file \in [Geos -> Versions]
    /\ disk \in OnDisk
    /\ config \in Configs
    /\ geo \in GeoData \cup {NoGeo}
    /\ up \in Running \cup {Down}
    /\ stopReq \in BOOLEAN
    /\ main \in {"boot", "running", "stopping", "stopped", "exited"}
    /\ auto \in {"off", "select", "download", "check", "reload", "ended"}
    /\ autoCfg \in Configs /\ updates \in 0 .. MaxUpdates
    /\ web \in [Handlers -> [pc : WebPCs, cfg : Configs]]
    /\ edits \in 0 .. MaxEdits /\ kills \in 0 .. MaxKills
    /\ disturbed \in BOOLEAN

NoPosts == [h \in Handlers |-> [pc |-> "idle", cfg |-> Blank]]

Init ==
    /\ file \in [Geos -> 0 .. 1]
    /\ config \in {c \in Configs : c.hosts = 0 /\ c.rules = 0}
    /\ disk = config
    /\ geo = NoGeo /\ up = Down
    /\ stopReq = FALSE
    /\ main = "boot" /\ auto = "off"
    /\ autoCfg = Blank /\ updates = 0
    /\ web = NoPosts
    /\ edits = 0 /\ kills = 0
    /\ disturbed = FALSE

-----------------------------------------------------------------------------
(* startInternal and stopInternal, called with m.mu held.                  *)

\* The database startInternal works with, given the one already loaded.
Loaded(c, g) ==
    IF g # NoGeo THEN g
    ELSE IF Loadable(file[c.geo]) THEN [path |-> c.geo, ver |-> file[c.geo]]
    ELSE NoGeo

\* startInternal fails before it starts anything if there is no database.
CanStart(c, g) == Loaded(c, g) # NoGeo

\* The services run with configuration c and database Loaded(c, g).
Serve(c, g) ==
    /\ config' = c
    /\ geo' = Loaded(c, g)
    /\ up' = [config |-> c, geo |-> Loaded(c, g)]

\* Nothing runs: stopInternal ran and startInternal failed.
ServeNothing(c) ==
    /\ config' = c
    /\ geo' = NoGeo
    /\ up' = Down

-----------------------------------------------------------------------------
(* main, and the end of the process.                                       *)

\* Mutant: a download is renamed whatever it contains.
Install_Unverified(g, v, ok) == file' = [file EXCEPT ![g] = IF ok THEN v ELSE Damaged]

\* DownloadFile: what was fetched becomes the database if it can be read, or
\* leaves no trace.  The rename is atomic, and the temporary file is nobody
\* else's.
Install(g, v, ok) == file' = IF ok THEN [file EXCEPT ![g] = v] ELSE file

\* CheckAndDownloadGeoFiles: a missing database may be downloaded.
BootDownload ==
    /\ main = "boot" /\ file[config.geo] = 0
    /\ \E ok \in BOOLEAN : Install(config.geo, 1, ok)
    /\ UNCHANGED <<disk, config, geo, up, stopReq, main, auto, autoCfg, updates,
                   web, edits, kills, disturbed>>

Start ==
    /\ main = "boot"
    /\ IF CanStart(config, geo)
       THEN Serve(config, geo) /\ main' = "running" /\ auto' = "select"
       ELSE ServeNothing(config) /\ main' = "exited" /\ UNCHANGED auto
    /\ UNCHANGED <<file, disk, stopReq, autoCfg, updates, web, edits, kills, disturbed>>

\* Mutant: the stop signal is sent without blocking, not closed.
StopSignal_Dropped ==
    /\ main = "running"
    /\ main' = "stopping" /\ stopReq' = (auto = "select")
    /\ UNCHANGED <<file, disk, config, geo, up, auto, autoCfg, updates, web, edits,
                   kills, disturbed>>

\* Stop closes stopAutoUpdate before it asks for m.mu.
StopSignal ==
    /\ main = "running"
    /\ main' = "stopping" /\ stopReq' = TRUE
    /\ UNCHANGED <<file, disk, config, geo, up, auto, autoCfg, updates, web, edits,
                   kills, disturbed>>

StopServices ==
    /\ main = "stopping"
    /\ main' = "stopped" /\ up' = Down
    /\ UNCHANGED <<file, disk, config, geo, stopReq, auto, autoCfg, updates, web,
                   edits, kills, disturbed>>

Exit ==
    /\ main = "stopped"
    /\ main' = "exited"
    /\ UNCHANGED <<file, disk, config, geo, up, stopReq, auto, autoCfg, updates,
                   web, edits, kills, disturbed>>

\* The process runs.
Alive == main # "exited"

\* A handler has not answered yet.
Posting == \E h \in Handlers : web[h].pc # "idle"

\* The process is killed, and started again: LoadConfig reads the files, and
\* there is no configuration if one of them cannot be parsed.
Killed ==
    /\ Alive /\ kills < MaxKills
    /\ kills' = kills + 1
    /\ IF disk \in Configs THEN main' = "boot" /\ config' = disk
       ELSE main' = "exited" /\ UNCHANGED config
    /\ geo' = NoGeo /\ up' = Down /\ stopReq' = FALSE
    /\ auto' = "off" /\ autoCfg' = Blank /\ web' = NoPosts
    /\ disturbed' = FALSE
    /\ UNCHANGED <<file, disk, updates, edits>>

-----------------------------------------------------------------------------
(* The web handlers: read the configuration, save the new one, reload.      *)

Edit(h, pc, c) == web' = [web EXCEPT ![h] = [pc |-> pc, cfg |-> c]]

\* What a handler makes of the current configuration: /api/config replaces all
\* but the hosts, /api/hosts the hosts alone.
PostedConfigs == {[config EXCEPT !.geo = g, !.rules = edits + 1] : g \in Geos}
PostedHosts   == {[config EXCEPT !.hosts = edits + 1]}

\* CurrentConfig(), and a new configuration made from it, which is the
\* handler's own from there on.
Post(h) ==
    /\ Alive /\ main # "boot"
    /\ web[h].pc = "idle" /\ edits < MaxEdits
    /\ edits' = edits + 1
    /\ \E c \in PostedConfigs \cup PostedHosts : Edit(h, "save", c)
    /\ disturbed' = (disturbed \/ Posting)
    /\ UNCHANGED <<file, disk, config, geo, up, stopReq, main, auto, autoCfg,
                   updates, kills>>

\* Mutant: Save takes no lock.
SaveMuFree_Always == TRUE

\* saveMu is free.
SaveMuFree == \A h \in Handlers : web[h].pc \notin SavePCs

\* Mutant: the file itself is truncated and written.
WriteTemp_InPlace(d, c, f) == [d EXCEPT ![f] = Torn]

\* writeFileAtomic, up to the rename: a file of its own is written and synced.
WriteTemp(d, c, f) == d

\* The part of a configuration that goes into the file.
Part(f) == IF f = "config" THEN "geo" ELSE f

WriteFile(h, f, pc, next) ==
    /\ web[h].pc = pc
    /\ disk' = WriteTemp(disk, web[h].cfg, Part(f))
    /\ Edit(h, next, web[h].cfg)

RenameFile(h, f, pc, next) ==
    /\ web[h].pc = pc
    /\ disk' = [disk EXCEPT ![Part(f)] = web[h].cfg[Part(f)]]
    /\ Edit(h, next, web[h].cfg)

\* Save: one file after the other, with saveMu held.
Save(h) ==
    /\ Alive
    /\ \/ SaveMuFree /\ WriteFile(h, "config", "save", "configRename")
       \/ RenameFile(h, "config", "configRename", "hosts")
       \/ WriteFile(h, "hosts", "hosts", "hostsRename")
       \/ RenameFile(h, "hosts", "hostsRename", "rules")
       \/ WriteFile(h, "rules", "rules", "rulesRename")
       \/ RenameFile(h, "rules", "rulesRename", "reload")
    /\ UNCHANGED <<file, config, geo, up, stopReq, main, auto, autoCfg, updates,
                   edits, kills, disturbed>>

\* The disk is full, say: Save returns at once, with some files written, and
\* the handler gives up.
SaveFails(h) ==
    /\ Alive /\ web[h].pc \in SavePCs \cup {"save"}
    /\ Edit(h, "idle", Blank) /\ disturbed' = TRUE
    /\ UNCHANGED <<file, disk, config, geo, up, stopReq, main, auto, autoCfg,
                   updates, edits, kills>>

\* Mutant: the loaded database is kept though the paths changed.
KeptGeo_Always(c) == geo

\* Reload keeps the loaded database unless the paths changed.
KeptGeo(c) == IF c.geo = config.geo THEN geo ELSE NoGeo

\* Mutant: without a rollback.
Restart_NoRollback(c) ==
    IF CanStart(c, KeptGeo(c)) THEN Serve(c, KeptGeo(c)) ELSE ServeNothing(c)

\* On the new configuration, or back on the old one with its database read
\* again, or not at all.
Restart(c) ==
    \/ CanStart(c, KeptGeo(c)) /\ Serve(c, KeptGeo(c))
    \/ /\ ~CanStart(c, KeptGeo(c)) /\ CanStart(config, NoGeo)
       /\ Serve(config, NoGeo)
    \/ /\ ~CanStart(c, KeptGeo(c)) /\ ~CanStart(config, NoGeo)
       /\ ServeNothing(config)

\* The configuration is on disk when it is tried.
Reload(h) ==
    /\ Alive /\ web[h].pc = "reload"
    /\ Restart(web[h].cfg)
    /\ Edit(h, "idle", Blank)
    /\ disturbed' = (disturbed \/ ~CanStart(web[h].cfg, KeptGeo(web[h].cfg)))
    /\ UNCHANGED <<file, disk, stopReq, main, auto, autoCfg, updates, edits, kills>>

-----------------------------------------------------------------------------
(* runAutoUpdate.                                                          *)

AutoStops ==
    /\ Alive /\ auto = "select" /\ stopReq
    /\ auto' = "ended"
    /\ UNCHANGED <<file, disk, config, geo, up, stopReq, main, autoCfg, updates,
                   web, edits, kills, disturbed>>

\* A tick at which an update is due.
AutoTick ==
    /\ Alive /\ auto = "select" /\ updates < MaxUpdates
    /\ auto' = "download" /\ autoCfg' = config /\ updates' = updates + 1
    /\ UNCHANGED <<file, disk, config, geo, up, stopReq, main, web, edits, kills,
                   disturbed>>

\* downloadGeoFiles, without the lock.
AutoDownload ==
    /\ Alive /\ auto = "download"
    /\ auto' = "check"
    /\ \E ok \in BOOLEAN : Install(autoCfg.geo, updates + 1, ok)
    /\ UNCHANGED <<disk, config, geo, up, stopReq, main, autoCfg, updates, web,
                   edits, kills, disturbed>>

AutoCheck ==
    /\ Alive /\ auto = "check"
    /\ auto' = IF stopReq THEN "ended" ELSE "reload"
    /\ UNCHANGED <<file, disk, config, geo, up, stopReq, main, autoCfg, updates,
                   web, edits, kills, disturbed>>

\* Mutant: the restart writes the configuration of the tick back.
RestartCurrent_Captured ==
    IF CanStart(autoCfg, NoGeo) THEN Serve(autoCfg, NoGeo)
    ELSE ServeNothing(autoCfg)

\* In place, on the current configuration and the file on disk.
RestartCurrent ==
    IF CanStart(config, NoGeo) THEN Serve(config, NoGeo)
    ELSE ServeNothing(config)

\* reloadCurrent
AutoReload ==
    /\ Alive /\ auto = "reload"
    /\ RestartCurrent
    /\ auto' = "select" /\ autoCfg' = Blank
    /\ UNCHANGED <<file, disk, stopReq, main, updates, web, edits, kills, disturbed>>

\* Somebody removes or damages a database on disk.
FileLost(g) ==
    /\ main = "running" /\ file[g] > 0
    /\ file' = [file EXCEPT ![g] = 0]
    /\ UNCHANGED <<disk, config, geo, up, stopReq, main, auto, autoCfg, updates,
                   web, edits, kills, disturbed>>

-----------------------------------------------------------------------------
MainStep == BootDownload \/ Start \/ StopSignal \/ StopServices \/ Exit

WebStep(h) == Post(h) \/ Save(h) \/ SaveFails(h) \/ Reload(h)

AutoStep == AutoStops \/ AutoTick \/ AutoDownload \/ AutoCheck \/ AutoReload

Next ==
    \/ MainStep \/ AutoStep \/ Killed
    \/ \E h \in Handlers : WebStep(h)
    \/ \E g \in Geos : FileLost(g)

Spec == Init /\ [][Next]_vars

\* The update goroutine is scheduled, downloads end, and a select with a
\* closed channel takes that case some time.
Fairness ==
    /\ WF_vars(AutoDownload \/ AutoCheck \/ AutoReload)
    /\ SF_vars(AutoStops)

FairSpec == Spec /\ Fairness

-----------------------------------------------------------------------------
(* Properties.                                                             *)

\* What runs is the current configuration with the database it names, in spite
\* of reloads that keep a loaded database, roll back, or interleave with an
\* update (manager.go:103-141, 155-168).
ServesCurrent ==
    up # Down => up.config = config /\ up.geo.path = config.geo /\ up.geo = geo

\* Neither a save nor a download leaves a file that is not whole, wherever it
\* fails or is killed (config.go:258-286, download.go:62-90).
FilesAreWhole ==
    disk \in Configs /\ \A g \in Geos : file[g] # Damaged

\* A save that succeeds leaves the three files of one configuration, its own,
\* whoever saves at the same time (config.go:17-19, 210-256).
SavedTogether ==
    [][\A h \in Handlers :
         web[h].pc \in SavePCs /\ web'[h].pc = "reload" => disk' = web[h].cfg]_vars

\* Unless posts overlapped or one was not carried out, this process works with
\* what a restart would load: an update that took minutes has not brought an
\* older configuration back (manager.go:152-169, 284-294).
RunningIsSaved == ~disturbed /\ ~Posting /\ Alive => config = disk

\* Before Start nothing runs in the process.
BootIsBlank ==
    main = "boot" => geo = NoGeo /\ up = Down /\ auto = "off" /\ web = NoPosts

\* The loaded database is the one that the configuration names, whether the
\* services run or not: Reload may keep it.
GeoIsNamed == geo # NoGeo => geo.path = config.geo

\* saveMu: of two handlers one at most is within Save.
OneSaver ==
    \A h, i \in Handlers :
        web[h].pc \in SavePCs /\ web[i].pc \in SavePCs => h = i

\* What a handler within Save has written, nobody has overwritten.
SavedSoFar ==
    \A h \in Handlers :
        /\ web[h].pc \in SavePCs \ {"configRename"} => disk.geo = web[h].cfg.geo
        /\ web[h].pc \in {"rules", "rulesRename"} => disk.hosts = web[h].cfg.hosts

\* As long as the posts came one by one: there is one at most, and its
\* configuration is on disk when it is tried.
OneByOne ==
    ~disturbed =>
        /\ \A h, i \in Handlers :
              web[h].pc # "idle" /\ web[i].pc # "idle" => h = i
        /\ \A h \in Handlers : web[h].pc = "reload" => disk = web[h].cfg

\* The invariant that implies the safety properties, and is inductive.
ManagerInv ==
    /\ TypeOK /\ ServesCurrent
    /\ BootIsBlank /\ GeoIsNamed /\ OneSaver /\ SavedSoFar /\ OneByOne

\* No reload or update, whatever was posted or downloaded, takes running
\* services down while the database of their configuration has not been lost
\* (manager.go:129-146, 209-225).
KeepsServing ==
    [][up # Down /\ up' = Down =>
         main' = "stopped" \/ kills' # kills \/ file[config.geo] = 0]_vars

\* The update goroutine hears Stop wherever it is when Stop is called
\* (manager.go:58-64, 233-240).
AutoUpdateEnds ==
    main = "stopping" ~> auto = "ended" \/ main \in {"exited", "boot"}

\* manager.go:59-61: closing the channel keeps the update goroutine from
\* starting the listeners again after the services were stopped.
NoRestartAfterStop ==
    [][main = "stopped" => up' = Down]_vars
=============================================================================
