------------------------------ MODULE Settings ------------------------------
(***************************************************************************)
(* The configuration file of wldictate/config.py between the user, who     *)
(* edits it, the tray, which loads it once and saves its own copy whole    *)
(* when the microphone changes (wldictate/tray.py), and the worker, which  *)
(* loads it when it starts and chooses models and microphone by it         *)
(* (wldictate/worker.py, wldictate/audio.py, Hardware).                    *)
(*                                                                         *)
(* Each process sees the audio devices that were there when it started.    *)
(* Both can be killed at any step; the worker goes with its tray.          *)
(*                                                                         *)
(* Of the fields of the file the model keeps those that a rule or a choice *)
(* reads.  Times are in twentieths of a second.                            *)
(***************************************************************************)
EXTENDS Hardware, FiniteSets

CONSTANTS
    Machines,     \* the machines the configuration may come to
    UserFiles,    \* what the user may write into the file
    LegacyFiles,  \* what may be left under the old name
    DeviceLists,  \* the devices that may be there: sequences of Device records
    Within,       \* pairs of device names: the first is a part of the second
    EditLimit,    \* bound of the model: edits of the user
    ReplugLimit   \* bound of the model: changes of the devices

VARIABLES
    machine,   \* where it all runs
    plugged,   \* the devices there are now
    disk,      \* config.json, config.json.tmp and a legacy config.json
    tray,      \* the tray process
    worker,    \* the worker process; `refused', of a load, is history
    \* history
    edits,     \* edits of the user so far
    replugs,   \* changes of the devices so far
    chosen,    \* the file the user last wrote, or that replaced it by stale settings
    raced      \* two processes had the temporary file open at once

settingsVars == <<machine, plugged, disk, tray, worker, edits, replugs, chosen, raced>>

Device(name, input) == [name |-> name, input |-> input]
NoName == "no name"
NoIndex == 0            \* None; the indices of a list count from 1

-----------------------------------------------------------------------------
(* Config                                                                  *)

Unset == "unset"        \* a key that is missing, or whose value has the wrong type
UnsetNumber == -1

Defaults ==
    [model |-> "small.en", device |-> "auto", compute |-> "auto",
     infer |-> 10, minInfer |-> 5, profile |-> "local", autoSelect |-> TRUE,
     index |-> NoIndex, name |-> NoName]

\* from_dict: the given values over the defaults.
Assigned(raw) ==
    [key \in DOMAIN Defaults |->
        IF key \in {"infer", "minInfer"}
        THEN IF raw[key] = UnsetNumber THEN Defaults[key] ELSE raw[key]
        ELSE IF key \in {"model", "device", "compute", "profile"} /\ raw[key] = Unset
        THEN Defaults[key]
        ELSE raw[key]]

\* _validate, in its order: the smaller interval is held against the larger one
\* once that is right.
InRange(n, low, high) == low <= n /\ n <= high

ValidatedTogether(cfg) ==
    [cfg EXCEPT
        !.device = IF @ \in {"auto", "cuda", "cpu"} THEN @ ELSE "auto",
        !.compute = IF @ \in ComputeTypes THEN @ ELSE "auto",
        !.infer = IF InRange(@, 2, 100) THEN @ ELSE 10,
        !.minInfer = IF InRange(@, 2, cfg.infer) THEN @ ELSE cfg.infer,
        !.profile = IF @ \in ProfileNames \cup {"local"} THEN @ ELSE "local"]

Validated(cfg) ==
    LET infer == IF InRange(cfg.infer, 2, 100) THEN cfg.infer ELSE 10
    IN  [cfg EXCEPT
            !.device = IF @ \in {"auto", "cuda", "cpu"} THEN @ ELSE "auto",
            !.compute = IF @ \in ComputeTypes THEN @ ELSE "auto",
            !.infer = infer,
            !.minInfer = IF InRange(@, 2, infer) THEN @ ELSE infer,
            !.profile = IF @ \in ProfileNames \cup {"local"} THEN @ ELSE "local"]

\* A file is not there, is not a JSON object, or holds the fields.
NoFile == [kind |-> "none"]
Torn == [kind |-> "torn"]
Holding(raw) == [kind |-> "ok", raw |-> raw]

IsConfig(cfg) ==
    /\ cfg = [model |-> cfg.model, device |-> cfg.device, compute |-> cfg.compute,
              infer |-> cfg.infer, minInfer |-> cfg.minInfer, profile |-> cfg.profile,
              autoSelect |-> cfg.autoSelect, index |-> cfg.index, name |-> cfg.name]
    /\ cfg.infer \in Int /\ cfg.minInfer \in Int
    /\ cfg.autoSelect \in BOOLEAN /\ cfg.index \in Nat
IsFile(f) == f = Torn \/ (f = Holding(f.raw) /\ IsConfig(f.raw))

IsList(s) == Len(s) \in Nat /\ DOMAIN s = 1..Len(s)

\* The user edits the file but does not delete it; profiles are the items of a
\* dict, each with a key of its own; probes find sizes; devices have names.
ASSUME SettingsAssumption ==
    /\ EditLimit \in Nat /\ ReplugLimit \in Nat
    /\ \A f \in UserFiles \cup LegacyFiles : IsFile(f)
    /\ IsList(Profiles) /\ Unset \notin ProfileNames
    /\ \A i, j \in DOMAIN Profiles : Profiles[i].name = Profiles[j].name => i = j
    /\ \A i \in DOMAIN Profiles : Profiles[i].tenths \in Nat
    /\ \A m \in Machines : Probed(m).vram \in Nat /\ Probed(m).ram \in Nat
    /\ \A l \in DeviceLists : IsList(l) /\ \A i \in DOMAIN l : l[i].name # NoName

\* What load() makes of a file: one that is not there or cannot be read gives
\* the defaults.
FromFile(f) == IF f.kind = "ok" THEN Validated(Assigned(f.raw)) ELSE Defaults

\* The legacy file counts only where there is no config.json, and is then saved
\* under the new name.
Migrates(d) == d.json = NoFile /\ d.legacy.kind = "ok"
ConfigOf(d) == IF Migrates(d) THEN FromFile(d.legacy) ELSE FromFile(d.json)

\* to_dict
ForgetsProfile(cfg) == Holding([cfg EXCEPT !.profile = Unset])
ToDict(cfg) == Holding(cfg)

-----------------------------------------------------------------------------
(* save() writes a temporary file and moves it over config.json.  A        *)
(* process is not saving, has opened the file, or has written and closed   *)
(* it.                                                                     *)

InPlace == "json"
SaveTarget == "tmp"

Saves(p) == p.up /\ p.save # "no"

\* open(tmp, "w")
OpenTmp(p, other) ==
    /\ Saves(p) /\ p.save = "due"
    /\ disk' = [disk EXCEPT ![SaveTarget] = Torn]
    /\ raced' = (raced \/ (Saves(other) /\ other.save # "due"))

\* json.dump.  The file may have been moved away by the other process: what is
\* written then ends up in config.json, over what is there.
WriteTmp(p) ==
    /\ Saves(p) /\ p.save = "opened"
    /\ IF disk[SaveTarget] = NoFile
       THEN disk' \in {[disk EXCEPT !.json = f] : f \in {Torn, ToDict(p.cfg)}}
       ELSE disk' = [disk EXCEPT ![SaveTarget] = ToDict(p.cfg)]
    /\ UNCHANGED raced

\* os.replace, which fails when there is nothing to move.
ReplaceFile(p) ==
    /\ Saves(p) /\ p.save = "written"
    /\ disk' = IF disk.tmp = NoFile THEN disk
               ELSE [disk EXCEPT !.json = disk.tmp, !.tmp = NoFile]
    /\ chosen' = IF p.seen = edits \/ disk.tmp = NoFile THEN chosen ELSE disk.tmp
    /\ UNCHANGED raced

NextStep(step) == CASE step = "due" -> "opened" [] step = "opened" -> "written"
                    [] OTHER -> "no"

SaveStep(p, other) ==
    \/ (OpenTmp(p, other) \/ WriteTmp(p)) /\ UNCHANGED chosen
    \/ ReplaceFile(p)

-----------------------------------------------------------------------------
(* Audio devices                                                           *)

\* query_devices(index, "input"): the name, or nothing.
InfoName(devices, i) ==
    IF i \in DOMAIN devices /\ devices[i].input THEN devices[i].name ELSE NoName

Inputs(devices) == {i \in DOMAIN devices : devices[i].input}

FirstIndex(indices) ==
    IF indices = {} THEN NoIndex ELSE CHOOSE i \in indices : \A j \in indices : i <= j

\* resolve_device on a name: the device of that name before one whose name
\* contains it.
ResolveLoosely(devices, name) ==
    FirstIndex({i \in Inputs(devices) :
                   name = devices[i].name \/ <<name, devices[i].name>> \in Within})
ResolveDeviceName(devices, name) ==
    LET exact == {i \in Inputs(devices) : devices[i].name = name}
    IN  IF exact # {} THEN FirstIndex(exact) ELSE ResolveLoosely(devices, name)

\* In the worker a name that is not found leaves the index as it was given.
DeviceByIndex(devices, index, name) == index
DeviceToOpen(devices, index, name) ==
    LET found == IF name = NoName THEN NoIndex ELSE ResolveDeviceName(devices, name)
    IN  IF found = NoIndex THEN index ELSE found

-----------------------------------------------------------------------------
(* The tray                                                                *)

Down == [up |-> FALSE]

\* DictationTrayApp.__init__: Config.load(), which saves a migrated file.
TrayStart ==
    /\ ~tray.up
    /\ tray' = [up |-> TRUE, cfg |-> ConfigOf(disk), seen |-> edits, devices |-> plugged,
                save |-> IF Migrates(disk) THEN "due" ELSE "no"]
    /\ UNCHANGED <<machine, plugged, disk, worker, edits, replugs, chosen, raced>>

TraySaves ==
    /\ SaveStep(tray, worker)
    /\ tray' = [tray EXCEPT !.save = NextStep(@)]
    /\ UNCHANGED <<machine, plugged, worker, edits, replugs>>

\* An OSError on the way: said to the log.
TraySaveFails ==
    /\ Saves(tray)
    /\ tray' = [tray EXCEPT !.save = "no"]
    /\ UNCHANGED <<machine, plugged, disk, worker, edits, replugs, chosen, raced>>

\* Its configuration with another microphone, which is saved at once.
Microphone(i) == [tray EXCEPT !.cfg.index = i, !.cfg.name = InfoName(tray.devices, i),
                              !.save = "due"]

\* set_input_device
SetInputDevice(i) ==
    /\ tray.up /\ tray.save = "no"
    /\ InfoName(tray.devices, i) # NoName
    /\ tray' = Microphone(i)
    /\ UNCHANGED <<machine, plugged, disk, worker, edits, replugs, chosen, raced>>

\* _resolve_start_device: the saved name before the saved index.
StartIndex ==
    LET cfg == tray.cfg
    IN  IF cfg.name # NoName /\ InfoName(tray.devices, cfg.index) # cfg.name
        THEN ResolveDeviceName(tray.devices, cfg.name)
        ELSE cfg.index

\* The system's default input is any of the input devices.
DefaultInputs ==
    IF Inputs(tray.devices) = {} THEN {NoIndex} ELSE Inputs(tray.devices)

\* start_dictation: the tray as _resolve_start_device leaves it, and the device
\* that the command names.  The command is in the pipe once the save is over.
StartDevices ==
    IF InfoName(tray.devices, StartIndex) # NoName
    THEN { [tray |-> IF StartIndex # tray.cfg.index \/ tray.cfg.name = NoName
                     THEN Microphone(StartIndex) ELSE tray,
            index |-> StartIndex] }
    ELSE { [tray |-> Microphone(i), index |-> i] : i \in DefaultInputs }

StartDictation ==
    /\ tray.up /\ tray.save = "no"
    /\ worker.up /\ worker.command = NoIndex /\ ~worker.session
    /\ \E d \in StartDevices :
          /\ tray' = d.tray
          /\ worker' = [worker EXCEPT !.command = d.index,
                                      !.asked = InfoName(tray.devices, d.index)]
    /\ UNCHANGED <<machine, plugged, disk, edits, replugs, chosen, raced>>

Killed ==
    /\ tray.up
    /\ tray' = Down /\ worker' = Down
    /\ UNCHANGED <<machine, plugged, disk, edits, replugs, chosen, raced>>

-----------------------------------------------------------------------------
(* The worker                                                              *)

\* _ensure_worker_process, which the tray's one thread calls between its saves.
Spawned ==
    [up |-> TRUE, state |-> "spawned", cfg |-> Defaults, seen |-> 0, devices |-> <<>>,
     save |-> "no", profile |-> Unset, model |-> Unset, loaded |-> NotLoaded, refused |-> {},
     capture |-> NoIndex, command |-> NoIndex, asked |-> NoName, session |-> FALSE]

Spawn ==
    /\ tray.up /\ tray.save = "no" /\ ~worker.up
    /\ worker' = Spawned
    /\ UNCHANGED <<machine, plugged, disk, tray, edits, replugs, chosen, raced>>

\* run(): Config.load(), autoselect_profile, resolve_whisper_model.
WorkerStart ==
    LET cfg == ConfigOf(disk)
        res == Probed(machine)
    IN  /\ worker.up /\ worker.state = "spawned"
        /\ worker' = [worker EXCEPT
                !.state = "loading", !.cfg = cfg, !.seen = edits, !.devices = plugged,
                !.save = IF Migrates(disk) THEN "due" ELSE "no",
                !.profile = AutoselectProfile(cfg.profile, cfg.autoSelect, machine),
                !.model = SelectWhisperModel(cfg.model, res, machine.cuda)]
        /\ UNCHANGED <<machine, plugged, disk, tray, edits, replugs, chosen, raced>>

WorkerSaves ==
    /\ SaveStep(worker, tray)
    /\ worker' = [worker EXCEPT !.save = NextStep(@)]
    /\ UNCHANGED <<machine, plugged, tray, edits, replugs>>

WorkerSaveFails ==
    /\ Saves(worker)
    /\ worker' = [worker EXCEPT !.save = "no"]
    /\ UNCHANGED <<machine, plugged, disk, tray, edits, replugs, chosen, raced>>

\* transcriber.load(); the process ends if there is no model.
WorkerLoads ==
    /\ worker.up /\ worker.state = "loading" /\ worker.save = "no"
    /\ \E lacking \in BOOLEAN :
          LET load == Loaded(machine, worker.cfg.device, worker.cfg.compute, lacking)
          IN  worker' = [worker EXCEPT !.loaded = load.loaded, !.refused = load.refused,
                             !.state = IF load.loaded = NotLoaded THEN "failed" ELSE "preopen"]
    /\ UNCHANGED <<machine, plugged, disk, tray, edits, replugs, chosen, raced>>

\* AudioCapture: the index that is open, if it can be opened.  Without an index it is
\* the system's default input, which is any of them.
Opened(devices, i) ==
    {NoIndex} \cup IF i = NoIndex THEN Inputs(devices) ELSE Inputs(devices) \cap {i}

\* The microphone is opened ahead of the first session, if it is to stay open.
PreOpen ==
    LET i == DeviceToOpen(worker.devices, worker.cfg.index, worker.cfg.name)
    IN  /\ worker.up /\ worker.state = "preopen"
        /\ \E c \in {NoIndex} \cup Opened(worker.devices, i) :
              worker' = [worker EXCEPT !.capture = c, !.state = "loop"]
        /\ UNCHANGED <<machine, plugged, disk, tray, edits, replugs, chosen, raced>>

\* _CaptureManager.acquire: an open stream is used again if its device has the
\* name that is asked for.
SameMicrophone == InfoName(worker.devices, worker.capture) = worker.asked

TakeStart ==
    LET i == DeviceToOpen(worker.devices, worker.command, worker.asked)
    IN  /\ worker.up /\ worker.state = "loop"
        /\ worker.command # NoIndex /\ tray.save = "no"
        /\ \E c \in IF worker.capture # NoIndex /\ SameMicrophone THEN {worker.capture}
                    ELSE Opened(worker.devices, i) :
              worker' = [worker EXCEPT !.capture = c, !.session = (c # NoIndex),
                                       !.command = NoIndex]
        /\ UNCHANGED <<machine, plugged, disk, tray, edits, replugs, chosen, raced>>

\* The session ends: the stream stays open if it is to, and is closed after an
\* audio error.
EndSession ==
    /\ worker.up /\ worker.session
    /\ \E c \in {worker.capture, NoIndex} :
          worker' = [worker EXCEPT !.capture = c, !.session = FALSE]
    /\ UNCHANGED <<machine, plugged, disk, tray, edits, replugs, chosen, raced>>

WorkerEnds ==
    /\ worker.up
    /\ worker' = Down
    /\ UNCHANGED <<machine, plugged, disk, tray, edits, replugs, chosen, raced>>

-----------------------------------------------------------------------------
(* The user and the devices                                                *)

Edit ==
    /\ edits < EditLimit
    /\ edits' = edits + 1
    /\ \E f \in UserFiles : disk' = [disk EXCEPT !.json = f] /\ chosen' = f
    /\ UNCHANGED <<machine, plugged, tray, worker, replugs, raced>>

Replug ==
    /\ replugs < ReplugLimit
    /\ replugs' = replugs + 1
    /\ plugged' \in DeviceLists \ {plugged}
    /\ UNCHANGED <<machine, disk, tray, worker, edits, chosen, raced>>

SettingsInit ==
    /\ machine \in Machines
    /\ plugged \in DeviceLists
    /\ \E json \in {NoFile} \cup UserFiles, legacy \in {NoFile} \cup LegacyFiles :
          /\ disk = [json |-> json, tmp |-> NoFile, legacy |-> legacy]
          /\ chosen = IF Migrates(disk) THEN legacy ELSE json
    /\ tray = Down /\ worker = Down
    /\ edits = 0 /\ replugs = 0 /\ raced = FALSE

SettingsNext ==
    \/ TrayStart \/ TraySaves \/ TraySaveFails
    \/ \E i \in 1..Len(plugged) : SetInputDevice(i)
    \/ StartDictation \/ Killed
    \/ Spawn \/ WorkerStart \/ WorkerSaves \/ WorkerSaveFails \/ WorkerLoads
    \/ PreOpen \/ TakeStart \/ EndSession \/ WorkerEnds
    \/ Edit \/ Replug

SettingsSpec == SettingsInit /\ [][SettingsNext]_settingsVars

-----------------------------------------------------------------------------
(* Properties                                                              *)

\* The type invariant, with what a loaded configuration promises: whatever the
\* file says, the tray and the worker run with values in range, the smaller
\* interval at most the larger one, and saving and loading changes nothing.
SettingsTypeOK ==
    /\ machine \in Machines /\ plugged \in DeviceLists
    /\ disk.json.kind \in {"none", "torn", "ok"} /\ disk.tmp.kind \in {"none", "torn", "ok"}
    /\ edits \in 0..EditLimit /\ raced \in BOOLEAN
    /\ \A p \in {tray, worker} : p.up =>
          /\ p.save \in {"no", "due", "opened", "written"} /\ p.seen \in 0..edits
          /\ p.cfg.device \in {"auto", "cuda", "cpu"} /\ p.cfg.compute \in ComputeTypes
          /\ 2 <= p.cfg.minInfer /\ p.cfg.minInfer <= p.cfg.infer /\ p.cfg.infer <= 100
          /\ p.cfg.profile \in ProfileNames \cup {"local"}
          /\ FromFile(ToDict(p.cfg)) = p.cfg

\* Whatever is killed in the middle of whatever save, and whatever the worker
\* chose for its machine: the next start finds the user's own settings, except
\* the microphone.  (Known exceptions: a tray that loaded the file before the
\* user's edit writes its old copy over it; and two processes that migrate a
\* legacy file at once share one temporary file.)
Settings(f) == [FromFile(f) EXCEPT !.index = NoIndex, !.name = NoName]

SettingsSurvive ==
    \/ raced
    \/ disk.json = NoFile /\ (chosen = NoFile \/ chosen = disk.legacy)
    \/ Settings(disk.json) = Settings(chosen) /\ (disk.json = Torn => chosen = Torn)

\* A session listens to the microphone that the tray named, if the worker
\* knows one of that name: however the indices moved between the two processes,
\* and whichever stream was still open.
RightMicrophone ==
    worker.up /\ worker.session =>
        LET heard == InfoName(worker.devices, worker.capture)
        IN  /\ heard # NoName
            /\ (\E i \in Inputs(worker.devices) : worker.devices[i].name = worker.asked)
                   => heard = worker.asked

\* The worker makes the most of its machine.  It gives up loading the model only
\* once the CPU refused it, and with a compute type that a CPU takes unless another
\* was asked for by name: a GPU that does not take the model never stops it.  A
\* profile that fits is kept, and one that does not fit is replaced by one that
\* does, with the largest local model before a cloud.
WorkerFitsMachine ==
    worker.up /\ worker.state # "spawned" =>
        LET res == Probed(machine)
            fits == {i \in DOMAIN Profiles : ProfileFits(Profiles[i], res)}
            best == RecommendLocalModel(res)
            taken == {i \in fits : Profiles[i].name = worker.profile}
        IN  /\ worker.state = "failed" =>
                  \E target \in worker.refused :
                     /\ target.device = "cpu"
                     /\ target.compute \in CpuComputes \cup {worker.cfg.compute}
            /\ worker.loaded.beam = 5 <=> worker.loaded.device = "cuda"
            /\ worker.cfg.autoSelect /\ ~machine.keepsProfile /\ fits # {} => taken # {}
            /\ (\E i \in fits : Profiles[i].name = worker.cfg.profile)
                   => worker.profile = worker.cfg.profile
            /\ (worker.profile # worker.cfg.profile
                  /\ best.key \in {"35b", "9b"}
                  /\ \E i \in DOMAIN Profiles : ProfileFloor(Profiles[i]).vram = best.vram)
                   => \A i \in taken : ProfileFloor(Profiles[i]).vram >= best.vram
=============================================================================
