--------------------------- MODULE SettingsProofs ---------------------------
(***************************************************************************)
(* Proofs about the configuration: for any files a user may write, any     *)
(* machines, devices and profiles, and whatever is killed in the middle of *)
(* a save.                                                                 *)
(***************************************************************************)
EXTENDS Settings, SequenceTheorems, WellFoundedInduction, TLAPS

-----------------------------------------------------------------------------
(* The inductive invariant.                                                *)

\* What from_dict and _validate leave.
IsValid(cfg) ==
    /\ IsConfig(cfg)
    /\ cfg.model # Unset
    /\ cfg.device \in {"auto", "cuda", "cpu"} /\ cfg.compute \in ComputeTypes
    /\ 2 <= cfg.minInfer /\ cfg.minInfer <= cfg.infer /\ cfg.infer <= 100
    /\ cfg.profile \in ProfileNames \cup {"local"}

Steps == {"no", "due", "opened", "written"}
States == {"spawned", "loading", "preopen", "failed", "loop"}

IsTray(t) ==
    /\ t = [up |-> TRUE, cfg |-> t.cfg, seen |-> t.seen, devices |-> t.devices, save |-> t.save]
    /\ IsValid(t.cfg) /\ t.seen \in 0..edits
    /\ t.devices \in DeviceLists /\ t.save \in Steps
WorkerKeys ==
    {"up", "state", "cfg", "seen", "devices", "save", "profile", "model", "loaded", "refused",
     "capture", "command", "asked", "session"}
WorkerFields(w) == w = [key \in WorkerKeys |-> w[key]] /\ w.up
IsWorker(w) ==
    /\ WorkerFields(w)
    /\ w.state \in States /\ IsValid(w.cfg) /\ w.seen \in 0..edits
    /\ w.devices \in DeviceLists \cup {<<>>} /\ w.save \in Steps
    /\ w.capture \in Nat /\ w.command \in Nat /\ w.session \in BOOLEAN

Types ==
    /\ machine \in Machines /\ plugged \in DeviceLists
    /\ disk = [json |-> disk.json, tmp |-> disk.tmp, legacy |-> disk.legacy]
    /\ \A f \in {disk.json, disk.tmp, disk.legacy} : f = NoFile \/ IsFile(f)
    /\ edits \in 0..EditLimit /\ replugs \in 0..ReplugLimit /\ raced \in BOOLEAN
    /\ tray = Down \/ IsTray(tray)
    /\ worker = Down \/ IsWorker(worker)

\* A worker is never older than its tray.
Started(w) == w.up /\ w.state # "spawned"
TrayIsOlder ==
    /\ worker.up => tray.up
    /\ Started(worker) => tray.seen <= worker.seen
    /\ worker.up /\ ~Started(worker) => worker.save = "no"

\* A worker saves only what it found under the old name, before any edit.
OnlyMigration ==
    /\ disk.json = NoFile => /\ edits = 0
                             /\ chosen = IF Migrates(disk) THEN disk.legacy ELSE NoFile
    /\ Saves(worker) => worker.seen = 0

\* The temporary file is what its process made of it.
Writing(p) == Saves(p) /\ p.save # "due"
OwnTmp(p) ==
    /\ Saves(p) /\ p.save = "opened" => disk.tmp = Torn
    /\ Saves(p) /\ p.save = "written" => disk.tmp = ToDict(p.cfg)
OneWriter == ~(Writing(tray) /\ Writing(worker)) /\ OwnTmp(tray) /\ OwnTmp(worker)

\* A process that has seen the last edit has the settings chosen.
Bare(cfg) == [cfg EXCEPT !.index = NoIndex, !.name = NoName]
FreshIsChosen ==
    /\ tray.up /\ tray.seen = edits => Bare(tray.cfg) = Settings(chosen)
    /\ Saves(worker) /\ worker.seen = edits => Bare(worker.cfg) = Settings(chosen)

SurvivalInv ==
    /\ TrayIsOlder
    /\ OnlyMigration
    /\ raced \/ (OneWriter /\ FreshIsChosen)
    /\ SettingsSurvive

\* A session is on a device that is there, and on the one that was asked for.
MicrophoneInv ==
    worker.up =>
        /\ worker.capture \in {NoIndex} \cup Inputs(worker.devices)
        /\ worker.state # "loop" => worker.capture = NoIndex /\ ~worker.session
        /\ worker.session =>
              /\ worker.capture # NoIndex
              /\ worker.command = NoIndex
              /\ (\E i \in Inputs(worker.devices) : worker.devices[i].name = worker.asked)
                     => InfoName(worker.devices, worker.capture) = worker.asked

\* What the worker runs with is what hardware.py chooses for its machine.
ChosenForMachine ==
    /\ worker.up /\ worker.state \in {"spawned", "loading"} => worker.loaded = NotLoaded
    /\ Started(worker) =>
          worker.profile = AutoselectProfile(worker.cfg.profile, worker.cfg.autoSelect, machine)
    /\ worker.up /\ worker.state \notin {"spawned", "loading"} =>
          \E lacking \in BOOLEAN :
             Load(worker.loaded, worker.refused)
                = Loaded(machine, worker.cfg.device, worker.cfg.compute, lacking)
    /\ worker.up /\ worker.state = "failed" => worker.loaded = NotLoaded

SettingsInv == Types /\ SurvivalInv /\ MicrophoneInv /\ ChosenForMachine

-----------------------------------------------------------------------------
(* Loading and validating.                                                 *)

LEMMA DefaultsValid == IsValid(Defaults)
BY DEF Defaults, IsValid, IsConfig, ComputeTypes, Unset, NoIndex, NoName

\* from_dict gives every key a value of its type.
LEMMA AssignedTyped ==
    ASSUME NEW raw, IsConfig(raw)
    PROVE  /\ IsConfig(Assigned(raw))
           /\ Assigned(raw).model = (IF raw.model = Unset THEN "small.en" ELSE raw.model)
           /\ Assigned(raw).device = (IF raw.device = Unset THEN "auto" ELSE raw.device)
           /\ Assigned(raw).compute = (IF raw.compute = Unset THEN "auto" ELSE raw.compute)
           /\ Assigned(raw).profile = (IF raw.profile = Unset THEN "local" ELSE raw.profile)
           /\ Assigned(raw).infer = (IF raw.infer = UnsetNumber THEN 10 ELSE raw.infer)
           /\ Assigned(raw).minInfer = (IF raw.minInfer = UnsetNumber THEN 5 ELSE raw.minInfer)
           /\ Assigned(raw).autoSelect = raw.autoSelect
           /\ Assigned(raw).index = raw.index /\ Assigned(raw).name = raw.name
<1> DEFINE a == Assigned(raw)
           Keys == {"model", "device", "compute", "infer", "minInfer", "profile",
                    "autoSelect", "index", "name"}
<1>1. DOMAIN Defaults = Keys
  BY DEF Defaults
<1>2. a = [key \in Keys |-> a[key]]
  BY <1>1 DEF Assigned
<1>3. /\ a.model = (IF raw.model = Unset THEN "small.en" ELSE raw.model)
      /\ a.device = (IF raw.device = Unset THEN "auto" ELSE raw.device)
      /\ a.compute = (IF raw.compute = Unset THEN "auto" ELSE raw.compute)
      /\ a.profile = (IF raw.profile = Unset THEN "local" ELSE raw.profile)
  BY <1>1 DEF Assigned, Defaults
<1>4. /\ a.infer = (IF raw.infer = UnsetNumber THEN 10 ELSE raw.infer)
      /\ a.minInfer = (IF raw.minInfer = UnsetNumber THEN 5 ELSE raw.minInfer)
  BY <1>1 DEF Assigned, Defaults
<1>5. a.autoSelect = raw.autoSelect /\ a.index = raw.index /\ a.name = raw.name
  BY <1>1 DEF Assigned, Defaults
<1> HIDE DEF a
<1>6. IsConfig(a)
  BY <1>2, <1>4, <1>5 DEF IsConfig
<1>7. QED
  BY <1>3, <1>4, <1>5, <1>6 DEF a

LEMMA ValidatedValid ==
    ASSUME NEW cfg, IsConfig(cfg), cfg.model # Unset
    PROVE  IsValid(Validated(cfg))
<1> DEFINE v == Validated(cfg)
           infer == IF InRange(cfg.infer, 2, 100) THEN cfg.infer ELSE 10
<1>1. /\ v.model = cfg.model /\ v.autoSelect = cfg.autoSelect /\ v.index = cfg.index
      /\ v.infer = infer
      /\ v.minInfer = IF InRange(cfg.minInfer, 2, infer) THEN cfg.minInfer ELSE infer
      /\ v.device \in {"auto", "cuda", "cpu"} /\ v.compute \in ComputeTypes
      /\ v.profile \in ProfileNames \cup {"local"}
  BY DEF Validated, IsConfig, ComputeTypes
<1>2. v = [model |-> v.model, device |-> v.device, compute |-> v.compute,
           infer |-> v.infer, minInfer |-> v.minInfer, profile |-> v.profile,
           autoSelect |-> v.autoSelect, index |-> v.index, name |-> v.name]
  <2> DEFINE d == IF cfg.device \in {"auto", "cuda", "cpu"} THEN cfg.device ELSE "auto"
             c == IF cfg.compute \in ComputeTypes THEN cfg.compute ELSE "auto"
             m == IF InRange(cfg.minInfer, 2, infer) THEN cfg.minInfer ELSE infer
             f == IF cfg.profile \in ProfileNames \cup {"local"} THEN cfg.profile ELSE "local"
  <2>1. v = [cfg EXCEPT !.device = d, !.compute = c, !.infer = infer, !.minInfer = m,
                        !.profile = f]
    BY Zenon DEF Validated
  <2> HIDE DEF v, d, c, m, f, infer
  <2>2. QED
    BY <2>1 DEF IsConfig
<1>3. infer \in Int /\ 2 <= infer /\ infer <= 100 /\ cfg.minInfer \in Int
  BY DEF InRange, IsConfig
<1> HIDE DEF v, infer
<1>4. 2 <= v.minInfer /\ v.minInfer <= v.infer /\ v.minInfer \in Int /\ v.infer \in Int
  BY <1>1, <1>3 DEF InRange
<1>5. IsConfig(v)
  BY <1>1, <1>2, <1>4 DEF IsConfig
<1>6. QED
  BY <1>1, <1>3, <1>4, <1>5 DEF IsValid, v

LEMMA ValidUnchanged ==
    ASSUME NEW cfg, IsValid(cfg)
    PROVE  Validated(cfg) = cfg
<1>0. InRange(cfg.infer, 2, 100) /\ InRange(cfg.minInfer, 2, cfg.infer)
  BY DEF IsValid, IsConfig, InRange
<1>1. /\ InRange(cfg.infer, 2, 100) /\ InRange(cfg.minInfer, 2, cfg.infer)
      /\ cfg.device \in {"auto", "cuda", "cpu"} /\ cfg.compute \in ComputeTypes
      /\ cfg.profile \in ProfileNames \cup {"local"}
  BY <1>0 DEF IsValid
<1>2. Validated(cfg) =
        [cfg EXCEPT !.device = cfg.device, !.compute = cfg.compute, !.infer = cfg.infer,
                    !.minInfer = cfg.minInfer, !.profile = cfg.profile]
  BY <1>1, Zenon DEF Validated
<1>3. QED
  BY <1>2 DEF IsValid, IsConfig

\* What load() returns is valid, whatever the file holds.
LEMMA LoadIsValid ==
    ASSUME NEW f, f = NoFile \/ IsFile(f)
    PROVE  IsValid(FromFile(f))
<1>1. CASE f.kind = "ok"
  <2>1. IsConfig(f.raw)
    BY <1>1 DEF IsFile, Torn, NoFile
  <2>2. IsConfig(Assigned(f.raw)) /\ Assigned(f.raw).model # Unset
    BY <2>1, AssignedTyped DEF Unset
  <2>3. QED
    BY <1>1, <2>2, ValidatedValid DEF FromFile
<1>2. CASE f.kind # "ok"
  BY <1>2, DefaultsValid DEF FromFile
<1>3. QED
  BY <1>1, <1>2

\* What save() writes load() reads back.
LEMMA SavedAndLoaded ==
    ASSUME NEW cfg, IsValid(cfg)
    PROVE  /\ IsFile(ToDict(cfg)) /\ ToDict(cfg) # NoFile /\ ToDict(cfg) # Torn
           /\ FromFile(ToDict(cfg)) = cfg /\ Settings(ToDict(cfg)) = Bare(cfg)
<1>1. IsConfig(cfg) /\ cfg.infer # UnsetNumber /\ cfg.minInfer # UnsetNumber
  BY DEF IsValid, IsConfig, UnsetNumber
<1>2. cfg.model # Unset /\ cfg.device # Unset /\ cfg.compute # Unset /\ cfg.profile # Unset
  BY SettingsAssumption DEF IsValid, Unset, ComputeTypes
<1>3. Assigned(cfg) = cfg
  <2> DEFINE a == Assigned(cfg)
  <2>1. /\ IsConfig(a) /\ a.model = cfg.model /\ a.device = cfg.device
        /\ a.compute = cfg.compute /\ a.profile = cfg.profile /\ a.infer = cfg.infer
        /\ a.minInfer = cfg.minInfer /\ a.autoSelect = cfg.autoSelect
        /\ a.index = cfg.index /\ a.name = cfg.name
    BY <1>1, <1>2, AssignedTyped
  <2> HIDE DEF a
  <2>2. a = cfg
    BY <1>1, <2>1 DEF IsConfig
  <2>3. QED
    BY <2>2 DEF a
<1>4. /\ ToDict(cfg).kind = "ok" /\ ToDict(cfg).raw = cfg /\ IsFile(ToDict(cfg))
      /\ ToDict(cfg) # NoFile /\ ToDict(cfg) # Torn
  BY <1>1 DEF ToDict, Holding, IsFile, NoFile, Torn
<1>5. FromFile(ToDict(cfg)) = cfg
  BY <1>3, <1>4, ValidUnchanged DEF FromFile
<1>6. QED
  BY <1>4, <1>5 DEF Settings, Bare

-----------------------------------------------------------------------------
(* Devices.                                                                *)

LEMMA Smallest ==
    ASSUME NEW T \in SUBSET Nat, T # {}
    PROVE  \E n \in T : \A m \in T : n <= m
<1>1. PICK n \in T : \A m \in T : ~(<<m, n>> \in OpToRel(<, Nat))
  BY NatLessThanWellFounded, WFMin
<1>2. \A m \in T : ~(m < n)
  BY <1>1 DEF OpToRel
<1>3. QED
  BY <1>2

LEMMA FirstIndexIn ==
    ASSUME NEW T \in SUBSET Nat
    PROVE  /\ T = {} => FirstIndex(T) = NoIndex
           /\ T # {} => FirstIndex(T) \in T
           /\ FirstIndex(T) \in Nat
<1>1. CASE T = {}
  BY <1>1 DEF FirstIndex, NoIndex
<1>2. CASE T # {}
  <2>1. \E i \in T : \A j \in T : i <= j
    BY <1>2, Smallest
  <2>2. FirstIndex(T) \in T
    BY <1>2, <2>1 DEF FirstIndex
  <2>3. QED
    BY <1>2, <2>2
<1>3. QED
  BY <1>1, <1>2

\* A device has a name exactly if it is an input device that is there.
LEMMA Named ==
    ASSUME NEW devices \in DeviceLists \cup {<<>>}
    PROVE  /\ Inputs(devices) \in SUBSET (Nat \ {0})
           /\ \A i : InfoName(devices, i) # NoName <=> i \in Inputs(devices)
           /\ \A i \in Inputs(devices) : InfoName(devices, i) = devices[i].name
<1>1. DOMAIN devices \in SUBSET (Nat \ {0})
  <2>1. CASE devices \in DeviceLists
    BY <2>1, SettingsAssumption DEF IsList
  <2>2. CASE devices = <<>>
    BY <2>2
  <2>3. QED
    BY <2>1, <2>2
<1>2. \A i \in DOMAIN devices : devices[i].name # NoName
  <2>1. CASE devices \in DeviceLists
    BY <2>1, SettingsAssumption
  <2>2. CASE devices = <<>>
    BY <2>2
  <2>3. QED
    BY <2>1, <2>2
<1>3. QED
  BY <1>1, <1>2 DEF Inputs, InfoName

\* resolve_device finds a device of that name if there is one.
LEMMA ResolvesName ==
    ASSUME NEW devices \in DeviceLists \cup {<<>>}, NEW name
    PROVE  /\ ResolveDeviceName(devices, name) \in {NoIndex} \cup Inputs(devices)
           /\ (\E i \in Inputs(devices) : devices[i].name = name) =>
                 /\ ResolveDeviceName(devices, name) \in Inputs(devices)
                 /\ InfoName(devices, ResolveDeviceName(devices, name)) = name
<1> DEFINE exact == {i \in Inputs(devices) : devices[i].name = name}
           loose == {i \in Inputs(devices) :
                       name = devices[i].name \/ <<name, devices[i].name>> \in Within}
<1>1. exact \in SUBSET Nat /\ loose \in SUBSET Nat
  BY Named
<1>2. CASE exact # {}
  <2>1. FirstIndex(exact) \in exact
    BY <1>1, <1>2, FirstIndexIn
  <2>2. ResolveDeviceName(devices, name) = FirstIndex(exact)
    BY <1>2 DEF ResolveDeviceName
  <2>3. QED
    BY <2>1, <2>2, Named
<1>3. CASE exact = {}
  <2>1. ResolveDeviceName(devices, name) = FirstIndex(loose)
    BY <1>3 DEF ResolveDeviceName, ResolveLoosely
  <2>2. FirstIndex(loose) \in {NoIndex} \cup loose
    BY <1>1, FirstIndexIn
  <2>3. QED
    BY <1>3, <2>1, <2>2
<1>4. QED
  BY <1>2, <1>3

-----------------------------------------------------------------------------
(* Types.                                                                  *)

\* Another microphone leaves everything else of the configuration.
LEMMA OtherDevice ==
    ASSUME NEW cfg, IsValid(cfg), NEW i \in Nat, NEW name
    PROVE  /\ IsValid([cfg EXCEPT !.index = i, !.name = name])
           /\ Bare([cfg EXCEPT !.index = i, !.name = name]) = Bare(cfg)
<1> DEFINE new == [cfg EXCEPT !.index = i, !.name = name]
<1>1. /\ new.model = cfg.model /\ new.device = cfg.device /\ new.compute = cfg.compute
      /\ new.infer = cfg.infer /\ new.minInfer = cfg.minInfer /\ new.profile = cfg.profile
      /\ new.autoSelect = cfg.autoSelect /\ new.index = i /\ new.name = name
  BY DEF IsValid, IsConfig
<1>2. new = [model |-> new.model, device |-> new.device, compute |-> new.compute,
             infer |-> new.infer, minInfer |-> new.minInfer, profile |-> new.profile,
             autoSelect |-> new.autoSelect, index |-> new.index, name |-> new.name]
  <2>1. new = [cfg EXCEPT !.index = i, !.name = name]
    OBVIOUS
  <2> HIDE DEF new
  <2>2. QED
    BY <2>1 DEF IsValid, IsConfig
<1>3. Bare(new) = Bare(cfg)
  <2>1. Bare(new) = [cfg EXCEPT !.index = NoIndex, !.name = NoName]
    BY DEF IsValid, IsConfig, Bare
  <2>2. QED
    BY <2>1 DEF Bare
<1> HIDE DEF new
<1>4. IsValid(new)
  BY <1>1, <1>2 DEF IsValid, IsConfig
<1>5. QED
  BY <1>3, <1>4 DEF new

LEMMA MicrophoneTyped ==
    ASSUME NEW i \in Nat, IsTray(tray)
    PROVE  /\ IsTray(Microphone(i))
           /\ Microphone(i).seen = tray.seen /\ Microphone(i).save = "due"
           /\ Bare(Microphone(i).cfg) = Bare(tray.cfg)
           /\ Microphone(i).up
<1> DEFINE name == InfoName(tray.devices, i)
           m == [tray EXCEPT !.cfg.index = i, !.cfg.name = name, !.save = "due"]
           new == [tray.cfg EXCEPT !.index = i, !.name = name]
<1>1. m = Microphone(i)
  BY Zenon DEF Microphone
<1> HIDE DEF name
<1>2. /\ m.up = TRUE /\ m.cfg = new /\ m.seen = tray.seen
      /\ m.devices = tray.devices /\ m.save = "due"
  BY DEF IsTray
<1>3. m = [up |-> m.up, cfg |-> m.cfg, seen |-> m.seen, devices |-> m.devices, save |-> m.save]
  <2>1. m = [tray EXCEPT !.cfg.index = i, !.cfg.name = name, !.save = "due"]
    OBVIOUS
  <2> HIDE DEF m
  <2>2. QED
    BY <2>1 DEF IsTray
<1>4. IsValid(tray.cfg)
  BY DEF IsTray
<1>5. IsValid(new) /\ Bare(new) = Bare(tray.cfg)
  BY <1>4, OtherDevice
<1> HIDE DEF m, new
<1>6. IsTray(m)
  BY <1>2, <1>3, <1>5 DEF IsTray, Steps
<1>7. QED
  BY <1>1, <1>2, <1>5, <1>6

\* The tray and the device of a start.
LEMMA StartTyped ==
    ASSUME IsTray(tray), NEW d \in StartDevices
    PROVE  /\ IsTray(d.tray) /\ d.tray.seen = tray.seen
           /\ Bare(d.tray.cfg) = Bare(tray.cfg) /\ d.tray.up
           /\ d.index \in Nat
<1>1. tray.devices \in DeviceLists /\ tray.up /\ tray.cfg.index \in Nat
  BY DEF IsTray, IsValid, IsConfig
<1>2. StartIndex \in Nat
  BY <1>1, ResolvesName, Named DEF StartIndex, NoIndex
<1>3. DefaultInputs \subseteq Nat
  BY <1>1, Named DEF DefaultInputs, NoIndex
<1>4. CASE d = [tray |-> tray, index |-> StartIndex]
  BY <1>1, <1>2, <1>4
<1>5. CASE \E i \in Nat : d = [tray |-> Microphone(i), index |-> i]
  BY <1>5, MicrophoneTyped
<1>6. QED
  BY <1>2, <1>3, <1>4, <1>5 DEF StartDevices

LEMMA StartSaves ==
    ASSUME IsTray(tray), tray.save = "no", NEW d \in StartDevices
    PROVE  d.tray.save \in {"no", "due"}
<1>1. tray.devices \in DeviceLists /\ tray.cfg.index \in Nat
  BY DEF IsTray, IsValid, IsConfig
<1>2. StartIndex \in Nat
  BY <1>1, ResolvesName, Named DEF StartIndex, NoIndex
<1>3. DefaultInputs \subseteq Nat
  BY <1>1, Named DEF DefaultInputs, NoIndex
<1>4. CASE d = [tray |-> tray, index |-> StartIndex]
  BY <1>4
<1>5. CASE \E i \in Nat : d = [tray |-> Microphone(i), index |-> i]
  BY <1>5, MicrophoneTyped
<1>6. QED
  BY <1>2, <1>3, <1>4, <1>5 DEF StartDevices

\* The effect of a step of save() on the files.
LEMMA SaveEffect ==
    ASSUME NEW STATE p, NEW STATE other, Types, IsValid(p.cfg), SaveStep(p, other)
    PROVE  /\ Saves(p)
           /\ disk' = [json |-> disk'.json, tmp |-> disk'.tmp, legacy |-> disk.legacy]
           /\ \A f \in {disk'.json, disk'.tmp, disk'.legacy} : f = NoFile \/ IsFile(f)
           /\ raced' \in BOOLEAN
           /\ \/ /\ p.save = "due"
                 /\ disk'.json = disk.json /\ disk'.tmp = Torn /\ chosen' = chosen
                 /\ raced' = (raced \/ Writing(other))
              \/ /\ p.save = "opened" /\ disk.tmp # NoFile
                 /\ disk'.json = disk.json /\ disk'.tmp = ToDict(p.cfg) /\ chosen' = chosen
                 /\ raced' = raced
              \/ /\ p.save = "opened" /\ disk.tmp = NoFile
                 /\ disk'.json # NoFile /\ disk'.tmp = NoFile /\ chosen' = chosen
                 /\ raced' = raced
              \/ /\ p.save = "written" /\ disk.tmp = NoFile
                 /\ disk' = disk /\ chosen' = chosen /\ raced' = raced
              \/ /\ p.save = "written" /\ disk.tmp # NoFile
                 /\ disk'.json = disk.tmp /\ disk'.tmp = NoFile /\ raced' = raced
                 /\ chosen' = IF p.seen = edits THEN chosen ELSE disk.tmp
<1>1. /\ disk = [json |-> disk.json, tmp |-> disk.tmp, legacy |-> disk.legacy]
      /\ \A f \in {disk.json, disk.tmp, disk.legacy} : f = NoFile \/ IsFile(f)
      /\ raced \in BOOLEAN
  BY DEF Types
<1>2. IsFile(ToDict(p.cfg)) /\ ToDict(p.cfg) # NoFile /\ IsFile(Torn) /\ Torn # NoFile
  BY SavedAndLoaded DEF IsFile, Torn, NoFile
<1>3. CASE OpenTmp(p, other) /\ UNCHANGED chosen
  <2>1. disk' = [disk EXCEPT !.tmp = Torn] /\ raced' = (raced \/ Writing(other))
        /\ Saves(p) /\ p.save = "due"
    BY <1>3 DEF OpenTmp, SaveTarget, Writing
  <2>2. disk' = [json |-> disk.json, tmp |-> Torn, legacy |-> disk.legacy]
    BY <1>1, <2>1
  <2>3. raced' \in BOOLEAN
    BY <2>1, <1>1
  <2>4. QED
    BY <1>1, <1>2, <1>3, <2>1, <2>2, <2>3
<1>4. CASE WriteTmp(p) /\ UNCHANGED chosen
  <2>1. Saves(p) /\ p.save = "opened" /\ raced' = raced
    BY <1>4 DEF WriteTmp
  <2>2. CASE disk.tmp = NoFile
    <3>1. PICK f \in {Torn, ToDict(p.cfg)} : disk' = [disk EXCEPT !.json = f]
      BY <1>4, <2>2 DEF WriteTmp, SaveTarget
    <3>2. disk' = [json |-> f, tmp |-> disk.tmp, legacy |-> disk.legacy]
      BY <1>1, <3>1
    <3>3. QED
      BY <1>1, <1>2, <1>4, <2>1, <2>2, <3>2
  <2>3. CASE disk.tmp # NoFile
    <3>1. disk' = [disk EXCEPT !.tmp = ToDict(p.cfg)]
      BY <1>4, <2>3 DEF WriteTmp, SaveTarget
    <3>2. disk' = [json |-> disk.json, tmp |-> ToDict(p.cfg), legacy |-> disk.legacy]
      BY <1>1, <3>1
    <3>3. QED
      BY <1>1, <1>2, <1>4, <2>1, <2>3, <3>2
  <2>4. QED
    BY <2>2, <2>3
<1>5. CASE ReplaceFile(p)
  <2>1. Saves(p) /\ p.save = "written" /\ raced' = raced
    BY <1>5 DEF ReplaceFile
  <2>2. CASE disk.tmp = NoFile
    BY <1>1, <1>5, <2>1, <2>2 DEF ReplaceFile
  <2>3. CASE disk.tmp # NoFile
    <3>1. /\ disk' = [disk EXCEPT !.json = disk.tmp, !.tmp = NoFile]
          /\ chosen' = IF p.seen = edits THEN chosen ELSE disk.tmp
      BY <1>5, <2>3 DEF ReplaceFile
    <3>2. disk' = [json |-> disk.tmp, tmp |-> NoFile, legacy |-> disk.legacy]
      BY <1>1, <3>1
    <3>3. QED
      BY <1>1, <2>1, <2>3, <3>1, <3>2
  <2>4. QED
    BY <2>2, <2>3
<1>6. QED
  BY <1>3, <1>4, <1>5 DEF SaveStep

\* Both processes as they were.
LEMMA TrayAsBefore == Types /\ tray' = tray /\ edits' \in edits..EditLimit
                        => tray' = Down \/ IsTray(tray)'
BY SettingsAssumption DEF Types, IsTray

LEMMA WorkerAsBefore == Types /\ worker' = worker /\ edits' \in edits..EditLimit
                          => worker' = Down \/ IsWorker(worker)'
BY SettingsAssumption DEF Types, IsWorker

LEMMA ConfigIsValid == Types => IsValid(ConfigOf(disk))
BY LoadIsValid DEF Types, ConfigOf

LEMMA TypesStep == Types /\ [SettingsNext]_settingsVars => Types'
<1> SUFFICES ASSUME Types, SettingsNext PROVE Types'
  BY DEF Types, settingsVars, IsTray, IsWorker, WorkerFields, WorkerKeys
<1>0. /\ edits \in edits..EditLimit /\ edits \in Nat
      /\ tray.up => IsTray(tray)
      /\ worker.up => IsWorker(worker)
  BY SettingsAssumption DEF Types, Down
<1>1. CASE TrayStart
  <2>1. tray' = [up |-> TRUE, cfg |-> ConfigOf(disk), seen |-> edits, devices |-> plugged,
                 save |-> IF Migrates(disk) THEN "due" ELSE "no"]
    BY <1>1 DEF TrayStart
  <2>2. IsTray(tray)'
    BY <1>0, <1>1, <2>1, ConfigIsValid DEF TrayStart, Types, IsTray, Steps
  <2>3. QED
    BY <1>0, <1>1, <2>2, WorkerAsBefore DEF TrayStart, Types
<1>2. CASE TraySaves
  <2>1. Saves(tray) /\ tray.up
    BY <1>2, <1>0, SaveEffect DEF TraySaves, IsTray, SaveStep, OpenTmp, WriteTmp, ReplaceFile,
                                 Saves
  <2>2. tray' = [tray EXCEPT !.save = NextStep(tray.save)]
    BY <1>2 DEF TraySaves
  <2>3. NextStep(tray.save) \in Steps
    BY <1>0, <2>1 DEF NextStep, Steps, IsTray
  <2>4. IsTray(tray)'
    BY <1>0, <1>2, <2>1, <2>2, <2>3 DEF TraySaves, IsTray
  <2>5. /\ disk' = [json |-> disk'.json, tmp |-> disk'.tmp, legacy |-> disk.legacy]
        /\ \A f \in {disk'.json, disk'.tmp, disk'.legacy} : f = NoFile \/ IsFile(f)
        /\ raced' \in BOOLEAN
    BY <1>0, <1>2, <2>1, SaveEffect DEF TraySaves, IsTray
  <2>6. QED
    BY <1>0, <1>2, <2>4, <2>5, WorkerAsBefore DEF TraySaves, Types
<1>3. CASE TraySaveFails
  <2>1. tray.up /\ tray' = [tray EXCEPT !.save = "no"]
    BY <1>3 DEF TraySaveFails, Saves
  <2>2. IsTray(tray)'
    BY <1>0, <1>3, <2>1 DEF TraySaveFails, IsTray, Steps
  <2>3. QED
    BY <1>0, <1>3, <2>2, WorkerAsBefore DEF TraySaveFails, Types
<1>4. ASSUME NEW i \in 1..Len(plugged), SetInputDevice(i) PROVE Types'
  <2>1. i \in Nat
    BY SettingsAssumption DEF Types, IsList
  <2>2. IsTray(Microphone(i))
    BY <1>0, <1>4, <2>1, MicrophoneTyped DEF SetInputDevice
  <2>3. IsTray(tray)'
    BY <1>4, <2>2 DEF SetInputDevice, IsTray
  <2>4. QED
    BY <1>0, <1>4, <2>3, WorkerAsBefore DEF SetInputDevice, Types
<1>5. CASE StartDictation
  <2>1. PICK d \in StartDevices :
           /\ tray' = d.tray
           /\ worker' = [worker EXCEPT !.command = d.index,
                                       !.asked = InfoName(tray.devices, d.index)]
    BY <1>5 DEF StartDictation
  <2>2. tray.up /\ worker.up /\ UNCHANGED <<machine, plugged, disk, edits, replugs, raced>>
    BY <1>5 DEF StartDictation
  <2>3. IsTray(d.tray) /\ d.index \in Nat
    BY <1>0, <2>2, StartTyped
  <2>4. IsTray(tray)'
    BY <2>1, <2>2, <2>3 DEF IsTray
  <2> DEFINE index == d.index
             name == InfoName(tray.devices, d.index)
  <2>5. IsWorker(worker)'
    <3>1. worker' = [worker EXCEPT !.command = index, !.asked = name]
      BY <2>1
    <3> HIDE DEF index, name
    <3>2. IsWorker(worker) /\ index \in Nat /\ edits' = edits
      BY <1>0, <2>2, <2>3 DEF index
    <3>3. WorkerFields(worker')
      <4>1. WorkerFields(worker)
        BY <3>2 DEF IsWorker, WorkerFields, WorkerKeys
      <4>2. QED
        BY <3>1, <4>1 DEF WorkerFields, WorkerKeys
    <3>4. /\ worker'.command = index /\ worker'.state = worker.state
          /\ worker'.cfg = worker.cfg /\ worker'.seen = worker.seen
          /\ worker'.devices = worker.devices /\ worker'.save = worker.save
          /\ worker'.capture = worker.capture /\ worker'.session = worker.session
      BY <3>1, <3>2 DEF IsWorker, WorkerFields, WorkerKeys
    <3>5. QED
      BY <3>2, <3>3, <3>4 DEF IsWorker, WorkerFields, WorkerKeys
  <2>6. QED
    BY <2>2, <2>4, <2>5 DEF Types
<1>6. CASE Killed
  BY <1>6 DEF Killed, Types
<1>7. CASE Spawn
  <2>1. WorkerFields(Spawned)
    BY DEF Spawned, WorkerFields, WorkerKeys
  <2>2. /\ Spawned.state \in States /\ IsValid(Spawned.cfg) /\ Spawned.devices = <<>>
        /\ Spawned.save \in Steps /\ Spawned.capture \in Nat /\ Spawned.command \in Nat
        /\ Spawned.session \in BOOLEAN /\ Spawned.seen = 0
    BY DefaultsValid DEF Spawned, Steps, States, NoIndex
  <2>3. worker' = Spawned /\ edits' = edits /\ 0 \in 0..edits
    BY <1>0, <1>7 DEF Spawn, Types
  <2>4. IsWorker(worker)'
    BY <2>1, <2>2, <2>3 DEF IsWorker
  <2>5. QED
    BY <1>0, <1>7, <2>4, TrayAsBefore DEF Spawn, Types
<1>8. CASE WorkerStart
  <2> DEFINE cfg == ConfigOf(disk)
             res == Probed(machine)
             save == IF Migrates(disk) THEN "due" ELSE "no"
             profile == AutoselectProfile(cfg.profile, cfg.autoSelect, machine)
             model == SelectWhisperModel(cfg.model, res, machine.cuda)
  <2>1. /\ worker.up
        /\ worker' = [worker EXCEPT !.state = "loading", !.cfg = cfg, !.seen = edits,
                                    !.devices = plugged, !.save = save,
                                    !.profile = profile, !.model = model]
        /\ UNCHANGED <<machine, plugged, disk, tray, edits, replugs, raced>>
    BY <1>8 DEF WorkerStart
  <2>2. IsValid(cfg) /\ save \in Steps /\ plugged \in DeviceLists
    BY ConfigIsValid DEF Steps, Types
  <2> HIDE DEF cfg, save, profile, model
  <2>3. IsWorker(worker)'
    <3>1. WorkerFields(worker')
      BY <1>0, <2>1 DEF IsWorker, WorkerFields, WorkerKeys
    <3>2. /\ worker'.state = "loading" /\ worker'.cfg = cfg /\ worker'.seen = edits
          /\ worker'.devices = plugged /\ worker'.save = save
          /\ worker'.capture = worker.capture /\ worker'.session = worker.session
          /\ worker'.command = worker.command
      BY <1>0, <2>1 DEF IsWorker, WorkerFields, WorkerKeys
    <3>3. edits' = edits /\ edits \in 0..edits
      BY <1>0, <2>1
    <3>4. QED
      BY <1>0, <2>1, <2>2, <3>1, <3>2, <3>3 DEF IsWorker, WorkerFields, WorkerKeys, States
  <2>4. QED
    BY <1>0, <2>1, <2>3, TrayAsBefore DEF Types
<1>9. CASE WorkerSaves
  <2>1. Saves(worker) /\ worker.up
    BY <1>9 DEF WorkerSaves, SaveStep, OpenTmp, WriteTmp, ReplaceFile, Saves
  <2>2. worker' = [worker EXCEPT !.save = NextStep(worker.save)]
    BY <1>9 DEF WorkerSaves
  <2>3. NextStep(worker.save) \in Steps
    BY <1>0, <2>1 DEF NextStep, Steps, IsWorker, WorkerFields, WorkerKeys
  <2>4. IsWorker(worker)'
    BY <1>0, <1>9, <2>1, <2>2, <2>3 DEF WorkerSaves, IsWorker, WorkerFields, WorkerKeys
  <2>5. /\ disk' = [json |-> disk'.json, tmp |-> disk'.tmp, legacy |-> disk.legacy]
        /\ \A f \in {disk'.json, disk'.tmp, disk'.legacy} : f = NoFile \/ IsFile(f)
        /\ raced' \in BOOLEAN
    BY <1>0, <1>9, <2>1, SaveEffect DEF WorkerSaves, IsWorker, WorkerFields, WorkerKeys
  <2>6. QED
    BY <1>0, <1>9, <2>4, <2>5, TrayAsBefore DEF WorkerSaves, Types
<1>10. CASE WorkerSaveFails
  <2>1. worker.up /\ worker' = [worker EXCEPT !.save = "no"] /\ edits' = edits
    BY <1>10 DEF WorkerSaveFails, Saves
  <2>2. IsWorker(worker)'
    BY <1>0, <2>1 DEF IsWorker, WorkerFields, WorkerKeys, Steps
  <2>3. QED
    BY <1>0, <1>10, <2>2, TrayAsBefore DEF WorkerSaveFails, Types
<1>11. CASE WorkerLoads
  <2>1. PICK lacking \in BOOLEAN :
           LET load == Loaded(machine, worker.cfg.device, worker.cfg.compute, lacking)
           IN  worker' = [worker EXCEPT !.loaded = load.loaded, !.refused = load.refused,
                              !.state = IF load.loaded = NotLoaded THEN "failed" ELSE "preopen"]
    BY <1>11 DEF WorkerLoads
  <2> DEFINE load == Loaded(machine, worker.cfg.device, worker.cfg.compute, lacking)
             state == IF load.loaded = NotLoaded THEN "failed" ELSE "preopen"
  <2>a. worker.up /\ edits' = edits /\ state \in States
        /\ worker' = [worker EXCEPT !.loaded = load.loaded, !.refused = load.refused,
                                    !.state = state]
    BY <1>11, <2>1 DEF WorkerLoads, States
  <2> HIDE DEF load, state
  <2>2. IsWorker(worker)'
    BY <1>0, <2>a DEF IsWorker, WorkerFields, WorkerKeys
  <2>3. QED
    BY <1>0, <1>11, <2>2, TrayAsBefore DEF WorkerLoads, Types
<1>12. CASE PreOpen
  <2> DEFINE i == DeviceToOpen(worker.devices, worker.cfg.index, worker.cfg.name)
  <2>1. PICK c \in {NoIndex} \cup Opened(worker.devices, i) :
            worker' = [worker EXCEPT !.capture = c, !.state = "loop"]
    BY <1>12 DEF PreOpen
  <2>2. worker.up /\ edits' = edits
    BY <1>12 DEF PreOpen
  <2>3. c \in Nat
    BY <1>0, <2>2, Named DEF Opened, NoIndex, IsWorker, WorkerFields, WorkerKeys
  <2> HIDE DEF i
  <2>4. IsWorker(worker)'
    BY <1>0, <2>1, <2>2, <2>3 DEF IsWorker, WorkerFields, WorkerKeys, States
  <2>5. QED
    BY <1>0, <1>12, <2>4, TrayAsBefore DEF PreOpen, Types
<1>13. CASE TakeStart
  <2> DEFINE i == DeviceToOpen(worker.devices, worker.command, worker.asked)
  <2>1. PICK c \in IF worker.capture # NoIndex /\ SameMicrophone THEN {worker.capture}
                   ELSE Opened(worker.devices, i) :
            worker' = [worker EXCEPT !.capture = c, !.session = (c # NoIndex),
                                     !.command = NoIndex]
    BY <1>13 DEF TakeStart
  <2>2. worker.up /\ edits' = edits
    BY <1>13 DEF TakeStart
  <2>3. c \in Nat
    BY <1>0, <2>2, Named DEF Opened, NoIndex, IsWorker, WorkerFields, WorkerKeys
  <2> DEFINE on == c # NoIndex
  <2>4. on \in BOOLEAN /\ NoIndex \in Nat
        /\ worker' = [worker EXCEPT !.capture = c, !.session = on, !.command = NoIndex]
    BY <2>1 DEF NoIndex
  <2> HIDE DEF i, on
  <2>5. IsWorker(worker)'
    BY <1>0, <2>2, <2>3, <2>4 DEF IsWorker, WorkerFields, WorkerKeys
  <2>6. QED
    BY <1>0, <1>13, <2>5, TrayAsBefore DEF TakeStart, Types
<1>14. CASE EndSession
  <2>1. PICK c \in {worker.capture, NoIndex} :
            worker' = [worker EXCEPT !.capture = c, !.session = FALSE]
    BY <1>14 DEF EndSession
  <2>2. worker.up /\ edits' = edits
    BY <1>14 DEF EndSession
  <2>3. IsWorker(worker)'
    <3>1. WorkerFields(worker')
      BY <1>0, <2>1, <2>2 DEF IsWorker, WorkerFields, WorkerKeys
    <3>2. /\ worker'.capture = c /\ worker'.session = FALSE /\ worker'.state = worker.state
          /\ worker'.cfg = worker.cfg /\ worker'.seen = worker.seen
          /\ worker'.devices = worker.devices /\ worker'.save = worker.save
          /\ worker'.command = worker.command
      BY <1>0, <2>1, <2>2 DEF IsWorker, WorkerFields, WorkerKeys
    <3>3. c \in Nat
      BY <1>0, <2>2 DEF IsWorker, WorkerFields, WorkerKeys, NoIndex
    <3>4. QED
      BY <1>0, <2>2, <3>1, <3>2, <3>3 DEF IsWorker, WorkerFields, WorkerKeys
  <2>4. QED
    BY <1>0, <1>14, <2>3, TrayAsBefore DEF EndSession, Types
<1>15. CASE WorkerEnds
  BY <1>0, <1>15, TrayAsBefore DEF WorkerEnds, Types
<1>16. CASE Edit
  <2>1. PICK f \in UserFiles : disk' = [disk EXCEPT !.json = f]
    BY <1>16 DEF Edit
  <2>2. IsFile(f) /\ edits' \in edits..EditLimit /\ edits' \in 0..EditLimit
    BY <1>0, <1>16, SettingsAssumption DEF Edit, Types
  <2>3. disk' = [json |-> f, tmp |-> disk.tmp, legacy |-> disk.legacy]
    BY <2>1 DEF Types
  <2>4. QED
    BY <1>16, <2>2, <2>3, TrayAsBefore, WorkerAsBefore DEF Edit, Types
<1>17. CASE Replug
  <2>1. plugged' \in DeviceLists /\ replugs' \in 0..ReplugLimit
    BY <1>17, SettingsAssumption DEF Replug, Types
  <2>2. QED
    BY <1>0, <1>17, <2>1, TrayAsBefore, WorkerAsBefore DEF Replug, Types
<1>18. QED
  BY <1>1, <1>2, <1>3, <1>4, <1>5, <1>6, <1>7, <1>8, <1>9, <1>10, <1>11, <1>12, <1>13,
     <1>14, <1>15, <1>16, <1>17 DEF SettingsNext

-----------------------------------------------------------------------------
(* Settings survive.                                                       *)

\* Steps of a process that leave the files alone and save nothing new, except
\* that the tray may begin a save.
KeepsTray ==
    tray'.up =>
        /\ tray.up /\ tray'.seen = tray.seen /\ Bare(tray'.cfg) = Bare(tray.cfg)
        /\ Writing(tray)' => /\ Writing(tray) /\ tray'.save = tray.save
                             /\ tray'.cfg = tray.cfg
KeepsWorker ==
    worker'.up =>
        /\ worker.up /\ worker'.seen = worker.seen /\ worker'.cfg = worker.cfg
        /\ Saves(worker)' => Saves(worker) /\ worker'.save = worker.save
        /\ Started(worker)' <=> Started(worker)

LEMMA HarmlessStep ==
    ASSUME SurvivalInv, KeepsTray, KeepsWorker, worker'.up => tray'.up,
           UNCHANGED <<disk, edits, chosen, raced>>
    PROVE  SurvivalInv'
<1>1. TrayIsOlder'
  BY DEF SurvivalInv, TrayIsOlder, KeepsTray, KeepsWorker, Saves, Started
<1>2. OnlyMigration'
  BY DEF SurvivalInv, OnlyMigration, KeepsWorker, Saves
<1>3. OneWriter => OneWriter'
  BY DEF OneWriter, OwnTmp, Writing, Saves, KeepsTray, KeepsWorker
<1>4. FreshIsChosen => FreshIsChosen'
  BY DEF FreshIsChosen, Saves, KeepsTray, KeepsWorker
<1>5. SettingsSurvive'
  BY DEF SurvivalInv, SettingsSurvive
<1>6. QED
  BY <1>1, <1>2, <1>3, <1>4, <1>5 DEF SurvivalInv

\* What a process loads now is what was chosen.
LEMMA LoadsChosen ==
    ASSUME Types, SurvivalInv, ~raced
    PROVE  Bare(ConfigOf(disk)) = Settings(chosen)
<1>1. OnlyMigration /\ SettingsSurvive
  BY DEF SurvivalInv
<1>2. CASE Migrates(disk)
  BY <1>1, <1>2 DEF OnlyMigration, Migrates, ConfigOf, Settings, Bare
<1>3. CASE ~Migrates(disk) /\ disk.json = NoFile
  BY <1>1, <1>3 DEF OnlyMigration, ConfigOf, Settings, Bare
<1>4. CASE ~Migrates(disk) /\ disk.json # NoFile
  <2>1. Settings(disk.json) = Settings(chosen)
    BY <1>1, <1>4 DEF SettingsSurvive
  <2>2. ConfigOf(disk) = FromFile(disk.json)
    BY <1>4 DEF ConfigOf
  <2>3. QED
    BY <2>1, <2>2 DEF Settings, Bare
<1>5. QED
  BY <1>2, <1>3, <1>4

\* A step of save() of either process, while the temporary file is its own.
LEMMA SaveKeeps ==
    ASSUME NEW STATE p, NEW STATE other, Types, IsValid(p.cfg), SaveStep(p, other),
           OnlyMigration, SettingsSurvive, ~raced', OwnTmp(p),
           p.seen = edits => Bare(p.cfg) = Settings(chosen)
    PROVE  /\ ~raced /\ SettingsSurvive'
           /\ p.save = "due" => ~Writing(other) /\ disk'.tmp = Torn
           /\ p.save = "opened" => disk'.tmp = ToDict(p.cfg)
           /\ p.save \in {"due", "opened", "written"}
           /\ chosen' = chosen \/ p.seen # edits
<1>1. IsFile(ToDict(p.cfg)) /\ ToDict(p.cfg) # NoFile /\ ToDict(p.cfg) # Torn
      /\ Settings(ToDict(p.cfg)) = Bare(p.cfg) /\ Torn # NoFile
  BY SavedAndLoaded DEF Torn, NoFile
<1>2. Saves(p)
  BY SaveEffect
<1>3. CASE p.save = "due"
  <2>1. /\ disk'.json = disk.json /\ disk'.legacy = disk.legacy /\ disk'.tmp = Torn
        /\ chosen' = chosen /\ raced' = (raced \/ Writing(other))
    BY <1>3, SaveEffect
  <2>2. QED
    BY <1>3, <2>1 DEF SettingsSurvive
<1>4. CASE p.save = "opened"
  <2>1. disk.tmp # NoFile
    BY <1>1, <1>2, <1>4 DEF OwnTmp
  <2>2. /\ disk'.json = disk.json /\ disk'.legacy = disk.legacy
        /\ disk'.tmp = ToDict(p.cfg) /\ chosen' = chosen /\ raced' = raced
    BY <1>4, <2>1, SaveEffect
  <2>3. QED
    BY <1>4, <2>2 DEF SettingsSurvive
<1>5. CASE p.save = "written"
  <2>1. disk.tmp = ToDict(p.cfg)
    BY <1>2, <1>5 DEF OwnTmp
  <2>2. /\ disk'.json = ToDict(p.cfg) /\ raced' = raced
        /\ chosen' = IF p.seen = edits THEN chosen ELSE ToDict(p.cfg)
    BY <1>1, <1>5, <2>1, SaveEffect
  <2>3. Settings(disk'.json) = Settings(chosen') /\ disk'.json # Torn
    BY <1>1, <2>2
  <2>4. SettingsSurvive'
    BY <2>3 DEF SettingsSurvive, Settings
  <2>5. QED
    BY <1>5, <2>2, <2>4
<1>6. QED
  BY <1>3, <1>4, <1>5, SaveEffect

\* The file does not go away, and a file that was not there has become one only by
\* the save of what was found under the old name.
LEMMA SaveKeepsMigration ==
    ASSUME NEW STATE p, NEW STATE other, Types, IsValid(p.cfg), SaveStep(p, other),
           OnlyMigration, UNCHANGED edits
    PROVE  disk'.json = NoFile =>
              /\ edits' = 0
              /\ chosen' = IF Migrates(disk') THEN disk'.legacy ELSE NoFile
<1>1. Torn # NoFile /\ disk'.legacy = disk.legacy
  BY SaveEffect DEF Torn, NoFile
<1>2. CASE disk'.json = disk.json /\ chosen' = chosen
  BY <1>1, <1>2 DEF OnlyMigration, Migrates
<1>3. CASE disk'.json # NoFile
  BY <1>3
<1>4. QED
  BY <1>2, <1>3, SaveEffect

LEMMA SurvivalStep ==
    Types /\ SurvivalInv /\ [SettingsNext]_settingsVars => SurvivalInv'
<1> SUFFICES ASSUME Types, SurvivalInv, [SettingsNext]_settingsVars PROVE SurvivalInv'
  OBVIOUS
<1>0. /\ tray.up => IsTray(tray)
      /\ worker.up => IsWorker(worker)
      /\ ~Down.up
  BY DEF Types, Down
<1>1. CASE TrayStart
  <2>1. /\ tray' = [up |-> TRUE, cfg |-> ConfigOf(disk), seen |-> edits, devices |-> plugged,
                    save |-> IF Migrates(disk) THEN "due" ELSE "no"]
        /\ ~tray.up /\ ~worker.up
        /\ UNCHANGED <<disk, worker, edits, chosen, raced>>
    BY <1>1 DEF TrayStart, SurvivalInv, TrayIsOlder
  <2>2. tray'.up /\ tray'.seen = edits /\ tray'.cfg = ConfigOf(disk)
        /\ tray'.save \in {"due", "no"} /\ ~worker'.up
    BY <2>1
  <2>3. TrayIsOlder' /\ OnlyMigration'
    BY <2>1, <2>2 DEF SurvivalInv, TrayIsOlder, OnlyMigration, Saves, Started
  <2>4. OneWriter'
    BY <2>1, <2>2 DEF OneWriter, OwnTmp, Writing, Saves
  <2>5. ~raced => FreshIsChosen'
    BY <2>1, <2>2, LoadsChosen DEF FreshIsChosen, Saves
  <2>6. SettingsSurvive'
    BY <2>1 DEF SurvivalInv, SettingsSurvive
  <2>7. QED
    BY <2>1, <2>3, <2>4, <2>5, <2>6 DEF SurvivalInv
<1>2. CASE TraySaves
  <2>1. SaveStep(tray, worker) /\ tray' = [tray EXCEPT !.save = NextStep(tray.save)]
        /\ UNCHANGED <<worker, edits>> /\ tray.up
    BY <1>2 DEF TraySaves, SaveStep, OpenTmp, WriteTmp, ReplaceFile, Saves
  <2>2. IsTray(tray) /\ IsValid(tray.cfg) /\ tray.seen \in 0..edits
    BY <1>0, <2>1 DEF IsTray
  <2>3. /\ tray'.up /\ tray'.seen = tray.seen /\ tray'.cfg = tray.cfg
        /\ tray'.save = NextStep(tray.save)
    BY <2>1, <2>2 DEF IsTray
  <2>4. TrayIsOlder' /\ OnlyMigration'
    BY <2>1, <2>2, <2>3, SaveKeepsMigration
       DEF SurvivalInv, TrayIsOlder, OnlyMigration, Saves, Started
  <2>5. CASE raced'
    BY <2>4, <2>5 DEF SurvivalInv, SettingsSurvive
  <2>6. CASE ~raced'
    <3>0. ~raced
      BY <2>1, <2>2, <2>6, SaveEffect
    <3>1. OneWriter /\ FreshIsChosen /\ OnlyMigration /\ SettingsSurvive
      BY <3>0 DEF SurvivalInv
    <3>2. /\ SettingsSurvive'
          /\ tray.save = "due" => ~Writing(worker) /\ disk'.tmp = Torn
          /\ tray.save = "opened" => disk'.tmp = ToDict(tray.cfg)
          /\ tray.save \in {"due", "opened", "written"}
          /\ chosen' = chosen \/ tray.seen # edits
      BY <2>1, <2>2, <2>6, <3>1, SaveKeeps DEF OneWriter, FreshIsChosen
    <3>3. OneWriter'
      <4>1. ~Writing(worker)
        BY <2>1, <3>1, <3>2 DEF OneWriter, Writing, Saves
      <4>2. QED
        BY <2>1, <2>3, <3>2, <4>1 DEF OneWriter, OwnTmp, Writing, Saves, NextStep
    <3>4. FreshIsChosen'
      <4>1. CASE chosen' = chosen
        BY <2>1, <2>3, <3>1, <4>1 DEF FreshIsChosen, Saves
      <4>2. CASE tray.seen # edits
        <5>1. ~(Saves(worker) /\ worker.seen = edits)
          <6>1. Saves(worker) => worker.seen = 0 /\ Started(worker) /\ tray.seen <= worker.seen
            BY <3>1, <2>1 DEF OnlyMigration, SurvivalInv, TrayIsOlder, Saves
          <6>2. QED
            BY <6>1, <2>2, <4>2
        <5>2. QED
          BY <2>1, <2>3, <4>2, <5>1 DEF FreshIsChosen, Saves
      <4>3. QED
        BY <3>2, <4>1, <4>2
    <3>5. QED
      BY <2>4, <3>2, <3>3, <3>4 DEF SurvivalInv
  <2>7. QED
    BY <2>5, <2>6
<1>3. CASE TraySaveFails
  <2>1. KeepsTray /\ KeepsWorker /\ (worker'.up => tray'.up)
        /\ UNCHANGED <<disk, edits, chosen, raced>>
    BY <1>0, <1>3 DEF TraySaveFails, KeepsTray, KeepsWorker, IsTray, Writing, Saves, Started
  <2>2. QED
    BY <2>1, HarmlessStep
<1>4. ASSUME NEW i \in 1..Len(plugged), SetInputDevice(i) PROVE SurvivalInv'
  <2>1. i \in Nat /\ tray.up /\ tray' = Microphone(i)
        /\ UNCHANGED <<worker, disk, edits, chosen, raced>>
    BY <1>4, SettingsAssumption DEF SetInputDevice, Types, IsList
  <2>2. KeepsTray
    BY <1>0, <2>1, MicrophoneTyped DEF KeepsTray, Writing
  <2>3. KeepsWorker /\ (worker'.up => tray'.up)
    BY <1>0, <2>1, MicrophoneTyped DEF KeepsWorker, Saves, Started
  <2>4. QED
    BY <2>1, <2>2, <2>3, HarmlessStep
<1>5. CASE StartDictation
  <2>1. PICK d \in StartDevices :
           /\ tray' = d.tray
           /\ worker' = [worker EXCEPT !.command = d.index,
                                       !.asked = InfoName(tray.devices, d.index)]
    BY <1>5 DEF StartDictation
  <2>2. tray.up /\ worker.up /\ UNCHANGED <<disk, edits, chosen, raced>> /\ tray.save = "no"
    BY <1>5 DEF StartDictation
  <2>3. /\ d.tray.up /\ d.tray.seen = tray.seen /\ Bare(d.tray.cfg) = Bare(tray.cfg)
        /\ d.tray.save \in {"no", "due"}
    <3>1. d.tray.save \in {"no", "due"}
      BY <1>0, <2>2, StartSaves
    <3>2. QED
      BY <1>0, <2>2, <3>1, StartTyped
  <2>4. KeepsTray /\ tray'.up
    BY <2>1, <2>2, <2>3 DEF KeepsTray, Writing, Saves
  <2>5. KeepsWorker
    BY <1>0, <2>1, <2>2 DEF KeepsWorker, Saves, Started, IsWorker, WorkerFields, WorkerKeys
  <2>6. QED
    BY <2>2, <2>4, <2>5, HarmlessStep
<1>6. CASE Killed
  <2>1. KeepsTray /\ KeepsWorker /\ ~worker'.up /\ UNCHANGED <<disk, edits, chosen, raced>>
    BY <1>6, <1>0 DEF Killed, KeepsTray, KeepsWorker
  <2>2. QED
    BY <2>1, HarmlessStep
<1>7. CASE Spawn
  <2>1. /\ worker'.up /\ worker'.state = "spawned" /\ worker'.save = "no"
        /\ tray.up /\ UNCHANGED <<tray, disk, edits, chosen, raced>>
    BY <1>7 DEF Spawn, Spawned
  <2>2. TrayIsOlder' /\ OnlyMigration'
    BY <2>1 DEF SurvivalInv, TrayIsOlder, OnlyMigration, Saves, Started
  <2>3. OneWriter => OneWriter'
    BY <2>1 DEF OneWriter, OwnTmp, Writing, Saves
  <2>4. FreshIsChosen => FreshIsChosen'
    BY <2>1 DEF FreshIsChosen, Saves
  <2>5. SettingsSurvive'
    BY <2>1 DEF SurvivalInv, SettingsSurvive
  <2>6. QED
    BY <2>1, <2>2, <2>3, <2>4, <2>5 DEF SurvivalInv
<1>8. CASE WorkerStart
  <2> DEFINE cfg == ConfigOf(disk)
             res == Probed(machine)
             save == IF Migrates(disk) THEN "due" ELSE "no"
             profile == AutoselectProfile(cfg.profile, cfg.autoSelect, machine)
             model == SelectWhisperModel(cfg.model, res, machine.cuda)
  <2>1. /\ worker.up /\ worker.state = "spawned"
        /\ worker' = [worker EXCEPT !.state = "loading", !.cfg = cfg, !.seen = edits,
                                    !.devices = plugged, !.save = save,
                                    !.profile = profile, !.model = model]
        /\ UNCHANGED <<disk, tray, edits, chosen, raced>>
    BY <1>8 DEF WorkerStart
  <2>2. /\ worker'.up /\ worker'.state = "loading" /\ worker'.cfg = ConfigOf(disk)
        /\ worker'.seen = edits
        /\ worker'.save = IF Migrates(disk) THEN "due" ELSE "no"
    <3> HIDE DEF profile, model
    <3>1. QED
      BY <1>0, <2>1 DEF IsWorker, WorkerFields, WorkerKeys
  <2>3. tray.up /\ tray.seen <= edits
    <3>1. tray.up
      BY <2>1 DEF SurvivalInv, TrayIsOlder
    <3>2. QED
      BY <1>0, <3>1 DEF IsTray, Types
  <2>4. TrayIsOlder'
    BY <2>1, <2>2, <2>3 DEF SurvivalInv, TrayIsOlder, Started
  <2>5. OnlyMigration'
    BY <2>1, <2>2 DEF SurvivalInv, OnlyMigration, Saves, Migrates
  <2>6. OneWriter => OneWriter'
    BY <2>1, <2>2 DEF OneWriter, OwnTmp, Writing, Saves
  <2>7. FreshIsChosen /\ ~raced => FreshIsChosen'
    BY <2>1, <2>2, LoadsChosen DEF FreshIsChosen, Saves
  <2>8. SettingsSurvive'
    BY <2>1 DEF SurvivalInv, SettingsSurvive
  <2>9. QED
    BY <2>1, <2>4, <2>5, <2>6, <2>7, <2>8 DEF SurvivalInv
<1>9. CASE WorkerSaves
  <2>1. SaveStep(worker, tray) /\ worker' = [worker EXCEPT !.save = NextStep(worker.save)]
        /\ UNCHANGED <<tray, edits>> /\ worker.up /\ Saves(worker)
    BY <1>9 DEF WorkerSaves, SaveStep, OpenTmp, WriteTmp, ReplaceFile, Saves
  <2>2. IsWorker(worker) /\ IsValid(worker.cfg) /\ worker.seen \in 0..edits
    BY <1>0, <2>1 DEF IsWorker
  <2>3. /\ worker'.up /\ worker'.seen = worker.seen /\ worker'.cfg = worker.cfg
        /\ worker'.save = NextStep(worker.save) /\ worker'.state = worker.state
    BY <2>1, <2>2 DEF IsWorker, WorkerFields, WorkerKeys
  <2>4. TrayIsOlder' /\ OnlyMigration'
    BY <2>1, <2>2, <2>3, SaveKeepsMigration
       DEF SurvivalInv, TrayIsOlder, OnlyMigration, Saves, Started
  <2>5. CASE raced'
    BY <2>4, <2>5 DEF SurvivalInv, SettingsSurvive
  <2>6. CASE ~raced'
    <3>0. ~raced
      BY <2>1, <2>2, <2>6, SaveEffect
    <3>1. OneWriter /\ FreshIsChosen /\ OnlyMigration /\ SettingsSurvive
      BY <3>0 DEF SurvivalInv
    <3>2. /\ SettingsSurvive'
          /\ worker.save = "due" => ~Writing(tray) /\ disk'.tmp = Torn
          /\ worker.save = "opened" => disk'.tmp = ToDict(worker.cfg)
          /\ worker.save \in {"due", "opened", "written"}
          /\ chosen' = chosen \/ worker.seen # edits
      BY <2>1, <2>2, <2>6, <3>1, SaveKeeps DEF OneWriter, FreshIsChosen
    <3>3. OneWriter'
      <4>1. ~Writing(tray)
        BY <2>1, <3>1, <3>2 DEF OneWriter, Writing, Saves
      <4>2. QED
        BY <2>1, <2>3, <3>2, <4>1 DEF OneWriter, OwnTmp, Writing, Saves, NextStep
    <3>4. FreshIsChosen'
      <4>1. CASE chosen' = chosen
        BY <2>1, <2>3, <3>1, <4>1 DEF FreshIsChosen, Saves
      <4>2. CASE worker.seen # edits
        <5>1. tray.up /\ tray.seen # edits
          <6>1. tray.up /\ tray.seen <= worker.seen
            BY <2>1 DEF SurvivalInv, TrayIsOlder, Saves
          <6>2. QED
            BY <1>0, <6>1, <2>2, <4>2 DEF IsTray
        <5>2. QED
          BY <2>1, <2>3, <4>2, <5>1 DEF FreshIsChosen, Saves
      <4>3. QED
        BY <3>2, <4>1, <4>2
    <3>5. QED
      BY <2>4, <3>2, <3>3, <3>4 DEF SurvivalInv
  <2>7. QED
    BY <2>5, <2>6
<1>10. CASE WorkerSaveFails
  <2>1. KeepsTray /\ KeepsWorker /\ UNCHANGED <<disk, edits, chosen, raced>>
        /\ tray' = tray /\ worker.up
    BY <1>0, <1>10 DEF WorkerSaveFails, KeepsTray, KeepsWorker, Writing, Saves, Started, IsWorker,
                      WorkerFields, WorkerKeys
  <2>2. QED
    BY <2>1, HarmlessStep DEF SurvivalInv, TrayIsOlder
<1>11. CASE WorkerLoads
  <2>1. \E loaded, refused : \E state \in {"failed", "preopen"} :
           worker' = [worker EXCEPT !.loaded = loaded, !.refused = refused, !.state = state]
    <3>1. PICK lacking \in BOOLEAN :
             LET load == Loaded(machine, worker.cfg.device, worker.cfg.compute, lacking)
             IN  worker' = [worker EXCEPT !.loaded = load.loaded, !.refused = load.refused,
                                !.state = IF load.loaded = NotLoaded THEN "failed" ELSE "preopen"]
      BY <1>11 DEF WorkerLoads
    <3>2. QED
      BY <3>1
  <2>b. PICK loaded, refused, state :
           /\ state \in {"failed", "preopen"}
           /\ worker' = [worker EXCEPT !.loaded = loaded, !.refused = refused, !.state = state]
    BY <2>1
  <2>a. /\ worker.up /\ worker.state = "loading"
        /\ UNCHANGED <<disk, edits, chosen, raced, tray>>
    BY <1>11 DEF WorkerLoads
  <2>2. KeepsTray /\ KeepsWorker
    BY <1>0, <2>a, <2>b DEF KeepsTray, KeepsWorker, Writing, Saves, Started, IsWorker,
                           WorkerFields, WorkerKeys
  <2>3. QED
    BY <2>a, <2>2, HarmlessStep DEF SurvivalInv, TrayIsOlder
<1>12. CASE PreOpen
  <2>1. PICK c : worker' = [worker EXCEPT !.capture = c, !.state = "loop"]
    BY <1>12 DEF PreOpen
  <2>2. worker.up /\ UNCHANGED <<disk, edits, chosen, raced, tray>> /\ worker.state = "preopen"
    BY <1>12 DEF PreOpen
  <2>3. KeepsTray /\ KeepsWorker
    BY <1>0, <2>1, <2>2 DEF KeepsTray, KeepsWorker, Writing, Saves, Started, IsWorker,
                           WorkerFields, WorkerKeys
  <2>4. QED
    BY <2>2, <2>3, HarmlessStep DEF SurvivalInv, TrayIsOlder
<1>13. CASE TakeStart
  <2>1. PICK c : worker' = [worker EXCEPT !.capture = c, !.session = (c # NoIndex),
                                         !.command = NoIndex]
    BY <1>13 DEF TakeStart
  <2>2. worker.up /\ UNCHANGED <<disk, edits, chosen, raced, tray>>
    BY <1>13 DEF TakeStart
  <2>3. KeepsTray /\ KeepsWorker
    BY <1>0, <2>1, <2>2 DEF KeepsTray, KeepsWorker, Writing, Saves, Started, IsWorker,
                           WorkerFields, WorkerKeys
  <2>4. QED
    BY <2>2, <2>3, HarmlessStep DEF SurvivalInv, TrayIsOlder
<1>14. CASE EndSession
  <2>1. PICK c : worker' = [worker EXCEPT !.capture = c, !.session = FALSE]
    BY <1>14 DEF EndSession
  <2>2. worker.up /\ UNCHANGED <<disk, edits, chosen, raced, tray>>
    BY <1>14 DEF EndSession
  <2>3. KeepsTray /\ KeepsWorker
    BY <1>0, <2>1, <2>2 DEF KeepsTray, KeepsWorker, Writing, Saves, Started, IsWorker,
                           WorkerFields, WorkerKeys
  <2>4. QED
    BY <2>2, <2>3, HarmlessStep DEF SurvivalInv, TrayIsOlder
<1>15. CASE WorkerEnds
  <2>1. KeepsTray /\ KeepsWorker /\ ~worker'.up /\ UNCHANGED <<disk, edits, chosen, raced>>
    BY <1>15, <1>0 DEF WorkerEnds, KeepsTray, KeepsWorker, Writing, Saves
  <2>2. QED
    BY <2>1, HarmlessStep
<1>16. CASE Edit
  <2>1. PICK f \in UserFiles : disk' = [disk EXCEPT !.json = f] /\ chosen' = f
    BY <1>16 DEF Edit
  <2>2. edits' = edits + 1 /\ edits \in Nat /\ UNCHANGED <<tray, worker, raced>>
    BY <1>16, SettingsAssumption DEF Edit, Types
  <2>3. IsFile(f) /\ f # NoFile
    BY SettingsAssumption DEF IsFile, Torn, Holding, NoFile
  <2>4. disk'.json = f /\ disk'.tmp = disk.tmp
    BY <2>1 DEF Types
  <2>5. TrayIsOlder' /\ OnlyMigration'
    BY <2>2, <2>3, <2>4 DEF SurvivalInv, TrayIsOlder, OnlyMigration, Saves, Started
  <2>6. OneWriter => OneWriter'
    BY <2>2, <2>4 DEF OneWriter, OwnTmp, Writing, Saves
  <2>7. FreshIsChosen'
    <3>1. tray.up => tray.seen # edits + 1
      BY <1>0, <2>2 DEF IsTray
    <3>2. worker.up => worker.seen # edits + 1
      BY <1>0, <2>2 DEF IsWorker
    <3>3. QED
      BY <2>2, <3>1, <3>2 DEF FreshIsChosen, Saves
  <2>8. SettingsSurvive'
    BY <2>1, <2>4 DEF SettingsSurvive, Settings
  <2>9. QED
    BY <2>2, <2>5, <2>6, <2>7, <2>8 DEF SurvivalInv
<1>17. CASE Replug \/ UNCHANGED settingsVars
  <2>1. UNCHANGED <<disk, edits, chosen, raced, tray, worker>>
    BY <1>17 DEF Replug, settingsVars
  <2>2. KeepsTray /\ KeepsWorker
    BY <2>1 DEF KeepsTray, KeepsWorker, Writing, Saves, Started
  <2>3. QED
    BY <2>1, <2>2, HarmlessStep DEF SurvivalInv, TrayIsOlder
<1>18. QED
  BY <1>1, <1>2, <1>3, <1>4, <1>5, <1>6, <1>7, <1>8, <1>9, <1>10, <1>11, <1>12, <1>13,
     <1>14, <1>15, <1>16, <1>17 DEF SettingsNext

-----------------------------------------------------------------------------
(* The microphone.                                                         *)

\* The device that a start command leads to.
LEMMA OpensRight ==
    ASSUME NEW devices \in DeviceLists \cup {<<>>}, NEW index \in Nat, NEW name,
           NEW c \in Opened(devices, DeviceToOpen(devices, index, name)), c # NoIndex
    PROVE  /\ c \in Inputs(devices)
           /\ (\E i \in Inputs(devices) : devices[i].name = name) => InfoName(devices, c) = name
<1> DEFINE found == ResolveDeviceName(devices, name)
<1>1. /\ c \in Inputs(devices)
      /\ DeviceToOpen(devices, index, name) # NoIndex => c = DeviceToOpen(devices, index, name)
  BY DEF Opened
<1>2. ASSUME \E i \in Inputs(devices) : devices[i].name = name
      PROVE  InfoName(devices, c) = name
  <2>1. name # NoName
    BY <1>2, Named
  <2>2. found \in Inputs(devices) /\ InfoName(devices, found) = name /\ found # NoIndex
    BY <1>2, ResolvesName, Named DEF NoIndex
  <2>3. c = found
    BY <1>1, <2>1, <2>2 DEF DeviceToOpen
  <2>4. QED
    BY <2>2, <2>3
<1>3. QED
  BY <1>1, <1>2

LEMMA MicrophoneStep ==
    Types /\ MicrophoneInv /\ [SettingsNext]_settingsVars => MicrophoneInv'
<1> SUFFICES ASSUME Types, MicrophoneInv, [SettingsNext]_settingsVars,
                    worker'.up
             PROVE  MicrophoneInv'
  BY DEF MicrophoneInv
<1>0. /\ worker.up => IsWorker(worker) /\ WorkerFields(worker)
      /\ ~Down.up
  BY DEF Types, Down, IsWorker
<1> DEFINE Same == /\ worker.up /\ worker'.state = worker.state
                   /\ worker'.devices = worker.devices
                   /\ worker'.capture = worker.capture /\ worker'.session = worker.session
                   /\ worker'.command = worker.command /\ worker'.asked = worker.asked
<1>1. Same => MicrophoneInv'
  BY DEF MicrophoneInv
<1>2. CASE TrayStart \/ TraySaves \/ TraySaveFails \/ Edit \/ Replug
           \/ UNCHANGED settingsVars
  <2>1. worker' = worker
    BY <1>2 DEF TrayStart, TraySaves, TraySaveFails, Edit, Replug, settingsVars
  <2>2. QED
    BY <1>1, <2>1
<1>3. ASSUME NEW i \in 1..Len(plugged), SetInputDevice(i) PROVE MicrophoneInv'
  BY <1>1, <1>3 DEF SetInputDevice
<1>4. CASE StartDictation
  <2>1. PICK d \in StartDevices :
            worker' = [worker EXCEPT !.command = d.index,
                                     !.asked = InfoName(tray.devices, d.index)]
    BY <1>4 DEF StartDictation
  <2>2. worker.up /\ ~worker.session
    BY <1>4 DEF StartDictation
  <2>3. worker'.devices = worker.devices /\ worker'.capture = worker.capture
        /\ worker'.session = worker.session /\ worker'.state = worker.state
    BY <1>0, <2>1, <2>2 DEF WorkerFields, WorkerKeys
  <2>4. QED
    BY <2>2, <2>3 DEF MicrophoneInv
<1>5. CASE Spawn
  BY <1>5 DEF Spawn, Spawned, MicrophoneInv
<1>6. CASE WorkerStart
  <2> DEFINE cfg == ConfigOf(disk)
             res == Probed(machine)
             save == IF Migrates(disk) THEN "due" ELSE "no"
             profile == AutoselectProfile(cfg.profile, cfg.autoSelect, machine)
             model == SelectWhisperModel(cfg.model, res, machine.cuda)
  <2>1. /\ worker.up
        /\ worker' = [worker EXCEPT !.state = "loading", !.cfg = cfg, !.seen = edits,
                                    !.devices = plugged, !.save = save,
                                    !.profile = profile, !.model = model]
    BY <1>6 DEF WorkerStart
  <2> HIDE DEF cfg, save, profile, model
  <2>2. worker'.devices = plugged /\ worker'.capture = worker.capture
        /\ worker'.session = worker.session
    BY <1>0, <2>1 DEF WorkerFields, WorkerKeys
  <2>3. worker.capture = NoIndex /\ ~worker.session
    BY <1>6, <2>1 DEF WorkerStart, MicrophoneInv
  <2>4. QED
    BY <2>2, <2>3 DEF MicrophoneInv
<1>7. CASE WorkerSaves \/ WorkerSaveFails
  <2>1. PICK s : worker.up /\ worker' = [worker EXCEPT !.save = s]
    BY <1>7 DEF WorkerSaves, WorkerSaveFails, SaveStep, OpenTmp, WriteTmp, ReplaceFile, Saves
  <2>2. Same
    BY <1>0, <2>1 DEF WorkerFields, WorkerKeys
  <2>3. QED
    BY <1>1, <2>2
<1>8. CASE WorkerLoads
  <2>1. \E loaded, refused : \E state \in {"failed", "preopen"} :
           worker' = [worker EXCEPT !.loaded = loaded, !.refused = refused, !.state = state]
    <3>1. PICK lacking \in BOOLEAN :
             LET load == Loaded(machine, worker.cfg.device, worker.cfg.compute, lacking)
             IN  worker' = [worker EXCEPT !.loaded = load.loaded, !.refused = load.refused,
                                !.state = IF load.loaded = NotLoaded THEN "failed" ELSE "preopen"]
      BY <1>8 DEF WorkerLoads
    <3>2. QED
      BY <3>1
  <2>b. PICK loaded, refused, state :
           /\ state \in {"failed", "preopen"}
           /\ worker' = [worker EXCEPT !.loaded = loaded, !.refused = refused, !.state = state]
    BY <2>1
  <2>2. worker.up /\ worker.state = "loading"
    BY <1>8 DEF WorkerLoads
  <2>3. worker'.devices = worker.devices /\ worker'.capture = worker.capture
        /\ worker'.session = worker.session /\ worker'.state = state
    BY <1>0, <2>2, <2>b DEF WorkerFields, WorkerKeys
  <2>4. QED
    BY <2>2, <2>3, <2>b DEF MicrophoneInv
<1>9. CASE PreOpen
  <2>1. PICK c \in {NoIndex} \cup Opened(worker.devices,
                        DeviceToOpen(worker.devices, worker.cfg.index, worker.cfg.name)) :
            worker' = [worker EXCEPT !.capture = c, !.state = "loop"]
    BY <1>9 DEF PreOpen
  <2>2. worker.up /\ worker.state = "preopen"
    BY <1>9 DEF PreOpen
  <2>3. c \in {NoIndex} \cup Inputs(worker.devices)
    BY DEF Opened
  <2>4. worker'.devices = worker.devices /\ worker'.capture = c
        /\ worker'.session = worker.session /\ worker'.state = "loop"
    BY <1>0, <2>1, <2>2 DEF WorkerFields, WorkerKeys
  <2>5. QED
    BY <2>2, <2>3, <2>4 DEF MicrophoneInv
<1>10. CASE TakeStart
  <2> DEFINE i == DeviceToOpen(worker.devices, worker.command, worker.asked)
  <2>1. PICK c \in IF worker.capture # NoIndex /\ SameMicrophone THEN {worker.capture}
                   ELSE Opened(worker.devices, i) :
            worker' = [worker EXCEPT !.capture = c, !.session = (c # NoIndex),
                                     !.command = NoIndex]
    BY <1>10 DEF TakeStart
  <2>2. worker.up /\ IsWorker(worker) /\ worker.state = "loop"
    BY <1>0, <1>10 DEF TakeStart
  <2>3. worker.devices \in DeviceLists \cup {<<>>} /\ worker.command \in Nat
    BY <2>2 DEF IsWorker
  <2>4. /\ worker'.devices = worker.devices /\ worker'.capture = c
        /\ worker'.session = (c # NoIndex) /\ worker'.command = NoIndex
        /\ worker'.asked = worker.asked /\ worker'.state = "loop"
    BY <1>0, <2>1, <2>2 DEF WorkerFields, WorkerKeys
  <2>5. c \in {NoIndex} \cup Inputs(worker.devices)
    BY <2>1, <2>2 DEF MicrophoneInv, Opened
  <2>6. ASSUME c # NoIndex,
               \E k \in Inputs(worker.devices) : worker.devices[k].name = worker.asked
        PROVE  InfoName(worker.devices, c) = worker.asked
    <3>1. CASE worker.capture # NoIndex /\ SameMicrophone
      BY <2>1, <3>1 DEF SameMicrophone
    <3>2. CASE ~(worker.capture # NoIndex /\ SameMicrophone)
      BY <2>1, <2>3, <2>6, <3>2, OpensRight
    <3>3. QED
      BY <3>1, <3>2
  <2>7. QED
    BY <2>4, <2>5, <2>6 DEF MicrophoneInv
<1>11. CASE EndSession
  <2>1. PICK c \in {worker.capture, NoIndex} :
            worker' = [worker EXCEPT !.capture = c, !.session = FALSE]
    BY <1>11 DEF EndSession
  <2>2. worker.up
    BY <1>11 DEF EndSession
  <2>3. worker'.devices = worker.devices /\ worker'.capture = c /\ ~worker'.session
        /\ worker'.state = worker.state
    BY <1>0, <2>1, <2>2 DEF WorkerFields, WorkerKeys
  <2>4. QED
    BY <2>1, <2>2, <2>3 DEF MicrophoneInv
<1>12. CASE Killed \/ WorkerEnds
  BY <1>0, <1>12 DEF Killed, WorkerEnds
<1>13. QED
  BY <1>2, <1>3, <1>4, <1>5, <1>6, <1>7, <1>8, <1>9, <1>10, <1>11, <1>12 DEF SettingsNext

LEMMA MicrophoneIsRight == Types /\ MicrophoneInv => RightMicrophone
<1> SUFFICES ASSUME Types, MicrophoneInv, worker.up, worker.session PROVE RightMicrophone
  BY DEF RightMicrophone
<1>1. worker.devices \in DeviceLists \cup {<<>>}
  BY DEF Types, Down, IsWorker
<1>2. worker.capture \in Inputs(worker.devices)
  BY DEF MicrophoneInv
<1>3. QED
  BY <1>1, <1>2, Named DEF MicrophoneInv, RightMicrophone

-----------------------------------------------------------------------------
(* The hardware.                                                           *)

LEMMA ChosenStep ==
    Types /\ ChosenForMachine /\ [SettingsNext]_settingsVars => ChosenForMachine'
<1> SUFFICES ASSUME Types, ChosenForMachine, [SettingsNext]_settingsVars, worker'.up
             PROVE  ChosenForMachine'
  BY DEF ChosenForMachine, Started
<1>0. /\ worker.up => IsWorker(worker) /\ WorkerFields(worker)
      /\ ~Down.up
  BY DEF Types, Down, IsWorker
<1>a. machine' = machine
  <2>1. CASE UNCHANGED settingsVars
    BY <2>1 DEF settingsVars
  <2>2. CASE SettingsNext
    BY <2>2, Zenon DEF SettingsNext, TrayStart, TraySaves, TraySaveFails, SetInputDevice,
         StartDictation, Killed, Spawn, WorkerStart, WorkerSaves, WorkerSaveFails, WorkerLoads,
         PreOpen, TakeStart, EndSession, WorkerEnds, Edit, Replug
  <2>3. QED
    BY <2>1, <2>2
<1> DEFINE Same == /\ worker.up /\ worker'.profile = worker.profile
                   /\ worker'.cfg = worker.cfg /\ worker'.loaded = worker.loaded
                   /\ worker'.refused = worker.refused
<1>1. Same /\ worker'.state = worker.state => ChosenForMachine'
  BY <1>0, <1>a DEF ChosenForMachine, Started
<1>2. CASE TrayStart \/ TraySaves \/ TraySaveFails \/ Edit \/ Replug
           \/ UNCHANGED settingsVars
  <2>1. worker' = worker
    BY <1>2 DEF TrayStart, TraySaves, TraySaveFails, Edit, Replug, settingsVars
  <2>2. QED
    BY <1>0, <1>a, <1>1, <2>1
<1>3. ASSUME NEW i \in 1..Len(plugged), SetInputDevice(i) PROVE ChosenForMachine'
  BY <1>0, <1>a, <1>1, <1>3 DEF SetInputDevice
<1>4. CASE StartDictation
  <2>1. PICK d \in StartDevices :
            worker' = [worker EXCEPT !.command = d.index,
                                     !.asked = InfoName(tray.devices, d.index)]
    BY <1>4 DEF StartDictation
  <2>2. worker.up
    BY <1>4 DEF StartDictation
  <2>3. Same /\ worker'.state = worker.state
    BY <1>0, <2>1, <2>2 DEF WorkerFields, WorkerKeys
  <2>4. QED
    BY <1>1, <2>3
<1>5. CASE Spawn
  BY <1>5 DEF Spawn, Spawned, Started, ChosenForMachine
<1>6. CASE WorkerStart
  <2> DEFINE cfg == ConfigOf(disk)
             res == Probed(machine)
             save == IF Migrates(disk) THEN "due" ELSE "no"
             profile == AutoselectProfile(cfg.profile, cfg.autoSelect, machine)
             model == SelectWhisperModel(cfg.model, res, machine.cuda)
  <2>1. /\ worker.up /\ worker.state = "spawned"
        /\ worker' = [worker EXCEPT !.state = "loading", !.cfg = cfg, !.seen = edits,
                                    !.devices = plugged, !.save = save,
                                    !.profile = profile, !.model = model]
    BY <1>6 DEF WorkerStart
  <2>2. worker'.state = "loading" /\ worker'.cfg = cfg /\ worker'.profile = profile
        /\ worker'.loaded = worker.loaded
    <3> HIDE DEF cfg, save, profile, model
    <3>1. QED
      BY <1>0, <2>1 DEF WorkerFields, WorkerKeys
  <2>3. worker.loaded = NotLoaded
    BY <2>1 DEF ChosenForMachine
  <2>4. QED
    <3> HIDE DEF cfg, save, model
    <3>1. profile = AutoselectProfile(worker'.cfg.profile, worker'.cfg.autoSelect, machine')
      BY <1>a, <2>2
    <3> HIDE DEF profile
    <3>2. QED
      BY <2>2, <2>3, <3>1 DEF ChosenForMachine
<1>7. CASE WorkerSaves \/ WorkerSaveFails
  <2>1. PICK s : worker.up /\ worker' = [worker EXCEPT !.save = s]
    BY <1>7 DEF WorkerSaves, WorkerSaveFails, SaveStep, OpenTmp, WriteTmp, ReplaceFile, Saves
  <2>2. Same /\ worker'.state = worker.state
    BY <1>0, <2>1 DEF WorkerFields, WorkerKeys
  <2>3. QED
    BY <1>1, <2>2
<1>8. CASE WorkerLoads
  <2>1. PICK lacking \in BOOLEAN :
           LET load == Loaded(machine, worker.cfg.device, worker.cfg.compute, lacking)
           IN  worker' = [worker EXCEPT !.loaded = load.loaded, !.refused = load.refused,
                              !.state = IF load.loaded = NotLoaded THEN "failed" ELSE "preopen"]
    BY <1>8 DEF WorkerLoads
  <2> DEFINE load == Loaded(machine, worker.cfg.device, worker.cfg.compute, lacking)
             state == IF load.loaded = NotLoaded THEN "failed" ELSE "preopen"
  <2>2. /\ worker.up /\ worker.state = "loading" /\ state \in {"failed", "preopen"}
        /\ state = "failed" => load.loaded = NotLoaded
        /\ worker' = [worker EXCEPT !.loaded = load.loaded, !.refused = load.refused,
                                    !.state = state]
    BY <1>8, <2>1 DEF WorkerLoads
  <2>3. /\ worker'.profile = worker.profile /\ worker'.cfg = worker.cfg
        /\ worker'.loaded = load.loaded /\ worker'.refused = load.refused
        /\ worker'.state = state
    <3> HIDE DEF load, state
    <3>1. QED
      BY <1>0, <2>2 DEF WorkerFields, WorkerKeys
  <2>4. worker.profile = AutoselectProfile(worker.cfg.profile, worker.cfg.autoSelect, machine)
    BY <2>2 DEF ChosenForMachine, Started
  <2>5. load = Load(load.loaded, load.refused)
    BY DEF Loaded, Load
  <2>6. Load(worker'.loaded, worker'.refused)
           = Loaded(machine', worker'.cfg.device, worker'.cfg.compute, lacking)
    BY <1>a, <2>3, <2>5
  <2> HIDE DEF state, load
  <2>7. QED
    BY <1>a, <2>2, <2>3, <2>4, <2>6 DEF ChosenForMachine
<1>9. CASE PreOpen
  <2>1. PICK c : worker' = [worker EXCEPT !.capture = c, !.state = "loop"]
    BY <1>9 DEF PreOpen
  <2>2. worker.up /\ worker.state = "preopen"
    BY <1>9 DEF PreOpen
  <2>3. Same /\ worker'.state = "loop"
    BY <1>0, <2>1, <2>2 DEF WorkerFields, WorkerKeys
  <2>4. QED
    BY <1>a, <2>2, <2>3 DEF ChosenForMachine, Started
<1>10. CASE TakeStart
  <2>1. PICK c : worker' = [worker EXCEPT !.capture = c, !.session = (c # NoIndex),
                                         !.command = NoIndex]
    BY <1>10 DEF TakeStart
  <2>2. worker.up
    BY <1>10 DEF TakeStart
  <2>3. Same /\ worker'.state = worker.state
    BY <1>0, <2>1, <2>2 DEF WorkerFields, WorkerKeys
  <2>4. QED
    BY <1>1, <2>3
<1>11. CASE EndSession
  <2>1. PICK c : worker' = [worker EXCEPT !.capture = c, !.session = FALSE]
    BY <1>11 DEF EndSession
  <2>2. worker.up
    BY <1>11 DEF EndSession
  <2>3. Same /\ worker'.state = worker.state
    BY <1>0, <2>1, <2>2 DEF WorkerFields, WorkerKeys
  <2>4. QED
    BY <1>1, <2>3
<1>12. CASE Killed \/ WorkerEnds
  BY <1>0, <1>12 DEF Killed, WorkerEnds
<1>13. QED
  BY <1>2, <1>3, <1>4, <1>5, <1>6, <1>7, <1>8, <1>9, <1>10, <1>11, <1>12 DEF SettingsNext

\* load() fails only when the CPU refused, with a type it takes or one asked for.
LEMMA LoadingWorks ==
    ASSUME NEW m, NEW device, NEW compute \in ComputeTypes, NEW lacking,
           NEW loaded, NEW refused,
           Load(loaded, refused) = Loaded(m, device, compute, lacking)
    PROVE  /\ loaded = NotLoaded =>
                 \E target \in refused :
                    /\ target.device = "cpu"
                    /\ target.compute \in CpuComputes \cup {compute}
           /\ loaded.beam = 5 <=> loaded.device = "cuda"
<1> DEFINE first == FirstTarget(m, device, compute)
           retry == Target("cpu", "int8")
<1>1. /\ first.device \in {"cpu", "cuda"}
      /\ first.device = "cpu" => first.compute \in CpuComputes \cup {compute}
  BY DEF FirstTarget, Target, ResolveDevice, ResolveCompute, CpuComputes
<1>2. retry.device = "cpu" /\ retry.compute \in CpuComputes
  BY DEF Target, CpuComputes
<1>3. \A l, r : Load(loaded, refused) = Load(l, r) => loaded = l /\ refused = r
  BY DEF Load
<1>4. \A target : target.device \in {"cpu", "cuda"} =>
         On(target) # NotLoaded /\ (On(target).beam = 5 <=> On(target).device = "cuda")
  BY DEF On, NotLoaded
<1>5. NotLoaded.beam = 2 /\ NotLoaded.device = "unloaded"
  BY DEF NotLoaded
<1>6. \/ loaded = On(first)
      \/ loaded = On(retry)
      \/ loaded = NotLoaded /\ first.device = "cpu" /\ refused = {first}
      \/ loaded = NotLoaded /\ refused = {first, retry}
  BY <1>3 DEF Loaded
<1> HIDE DEF first, retry
<1>7. QED
  BY <1>1, <1>2, <1>4, <1>5, <1>6

\* Of the profiles some one is the largest, the first of those of its size.
LEMMA LargestExists ==
    ASSUME NEW rank, NEW n \in Nat, \A i \in 1..n : rank[i] \in Nat,
           NEW S \in SUBSET (1..n), S # {}
    PROVE  \E i \in S : \A j \in S : rank[i] > rank[j] \/ (rank[i] = rank[j] /\ i <= j)
<1> DEFINE Best(T, i) == \A j \in T : rank[i] > rank[j] \/ (rank[i] = rank[j] /\ i <= j)
           P(m) == \A T \in SUBSET (1..m) : T # {} => \E i \in T : Best(T, i)
           Bad == {m \in 0..n : ~P(m)}
<1>1. Bad = {}
  <2> SUFFICES ASSUME Bad # {} PROVE FALSE
    OBVIOUS
  <2>1. PICK m \in Bad : \A k \in Bad : m <= k
    <3>1. Bad \in SUBSET Nat
      OBVIOUS
    <3> HIDE DEF Bad
    <3>2. QED
      BY <3>1, Smallest
  <2>2. PICK T \in SUBSET (1..m) : T # {} /\ ~\E i \in T : Best(T, i)
    BY <2>1
  <2>3. m # 0
    <3>1. 1..0 = {}
      OBVIOUS
    <3>2. QED
      BY <2>2, <3>1
  <2>4. m - 1 \in 0..n /\ m \in Nat
    BY <2>1, <2>3
  <2>5. P(m - 1)
    <3> HIDE DEF P
    <3>1. m - 1 \notin Bad
      BY <2>1, <2>4
    <3>2. QED
      BY <2>4, <3>1
  <2>6. T \ {m} \in SUBSET (1..(m - 1))
    BY <2>4
  <2>7. CASE T \ {m} = {}
    <3>1. T = {m}
      <4>1. \A j \in T : j = m
        BY <2>7
      <4>2. QED
        BY <2>2, <4>1
    <3>2. Best(T, m)
      BY <3>1, <2>4
    <3>3. QED
      BY <2>2, <3>1, <3>2
  <2>8. CASE T \ {m} # {}
    <3>1. PICK i \in T \ {m} : Best(T \ {m}, i)
      BY <2>5, <2>6, <2>8
    <3>2. \A j \in T : rank[j] \in Nat /\ j \in 1..n
      BY <2>1
    <3>3. CASE m \notin T
      BY <2>2, <3>1, <3>3
    <3>4. CASE m \in T /\ rank[m] > rank[i]
      <4>1. Best(T, m)
        BY <3>1, <3>2, <3>4, <2>4
      <4>2. QED
        BY <2>2, <3>4, <4>1
    <3>5. CASE m \in T /\ ~(rank[m] > rank[i])
      <4>1. i < m
        BY <2>6, <3>1, <2>4
      <4>2. Best(T, i)
        BY <3>1, <3>2, <3>5, <4>1
      <4>3. QED
        BY <2>2, <4>2
    <3>6. QED
      BY <3>3, <3>4, <3>5
  <2>9. QED
    BY <2>7, <2>8
<1>2. P(n)
  BY <1>1
<1>3. QED
  BY <1>2

LEMMA FloorIsNat ==
    ASSUME NEW i \in DOMAIN Profiles
    PROVE  ProfileFloor(Profiles[i]).vram \in Nat /\ ProfileFloor(Profiles[i]).ram \in Nat
<1>1. Profiles[i].tenths \in Nat
  BY SettingsAssumption
<1>2. EstimatedFloor(Profiles[i]).vram \in Nat /\ EstimatedFloor(Profiles[i]).ram \in Nat
  BY <1>1 DEF EstimatedFloor
<1>3. QED
  BY <1>2 DEF ProfileFloor, LocalModelTiers, Tier

\* The local profile that is taken is one of those that fit, and the largest.
LEMMA LargestIsLargest ==
    ASSUME NEW res
    PROVE  LET fits == {i \in DOMAIN Profiles :
                          ~IsCloudProfile(Profiles[i]) /\ ProfileFits(Profiles[i], res)}
           IN  /\ LargestFitting(res) \subseteq fits
               /\ fits # {} => LargestFitting(res) # {}
               /\ \A i \in LargestFitting(res), j \in fits :
                     ProfileFloor(Profiles[i]).vram >= ProfileFloor(Profiles[j]).vram
<1> DEFINE fits == {i \in DOMAIN Profiles :
                      ~IsCloudProfile(Profiles[i]) /\ ProfileFits(Profiles[i], res)}
           n == Len(Profiles)
           rank == [i \in 1..n |-> ProfileFloor(Profiles[i]).vram]
           Best(i) == \A j \in fits : rank[i] > rank[j] \/ (rank[i] = rank[j] /\ i <= j)
<1>1. n \in Nat /\ DOMAIN Profiles = 1..n /\ \A i \in 1..n : rank[i] \in Nat
  BY SettingsAssumption, FloorIsNat DEF IsList
<1>2. fits \in SUBSET (1..n) /\ \A i \in fits : rank[i] = ProfileFloor(Profiles[i]).vram
  BY <1>1
<1>3. LargestFitting(res) = {i \in fits : Best(i)}
  BY <1>2 DEF LargestFitting
<1> HIDE DEF fits, rank
<1>4. fits # {} => \E i \in fits : Best(i)
  BY <1>1, <1>2, LargestExists
<1>5. \A i \in fits, j \in fits : Best(i) => rank[i] >= rank[j]
  BY <1>1, <1>2
<1>6. QED
  BY <1>2, <1>3, <1>4, <1>5 DEF fits

\* select_profile: what fits is kept, else something that fits is taken, the
\* largest local profile before a cloud.
LEMMA SelectsFitting ==
    ASSUME NEW name, NEW res, NEW i \in DOMAIN Profiles, ProfileFits(Profiles[i], res)
    PROVE  /\ \E k \in DOMAIN Profiles : /\ ProfileFits(Profiles[k], res)
                                         /\ Profiles[k].name = SelectProfile(name, res)
           /\ Profiles[i].name = name => SelectProfile(name, res) = name
           /\ (SelectProfile(name, res) # name /\ ~IsCloudProfile(Profiles[i])) =>
                 \A k \in DOMAIN Profiles : Profiles[k].name = SelectProfile(name, res) =>
                    ProfileFloor(Profiles[k]).vram >= ProfileFloor(Profiles[i]).vram
<1> DEFINE configured == {k \in DOMAIN Profiles : Profiles[k].name = name}
           clouds == {k \in DOMAIN Profiles : IsCloudProfile(Profiles[k])}
           largest == LargestFitting(res)
           fits == {k \in DOMAIN Profiles :
                      ~IsCloudProfile(Profiles[k]) /\ ProfileFits(Profiles[k], res)}
           taken == SelectProfile(name, res)
<1>1. CASE \E k \in configured : ProfileFits(Profiles[k], res)
  BY <1>1 DEF SelectProfile
<1>2. CASE ~(\E k \in configured : ProfileFits(Profiles[k], res)) /\ largest # {}
  <2> DEFINE k == CHOOSE k \in largest : TRUE
  <2>1. k \in largest
    BY <1>2
  <2>2. taken = Profiles[k].name
    BY <1>2 DEF SelectProfile
  <2>3. k \in DOMAIN Profiles /\ ProfileFits(Profiles[k], res)
    BY <2>1, LargestIsLargest
  <2>4. ~IsCloudProfile(Profiles[i]) =>
            ProfileFloor(Profiles[k]).vram >= ProfileFloor(Profiles[i]).vram
    BY <2>1, LargestIsLargest
  <2>5. \A j \in DOMAIN Profiles : Profiles[j].name = Profiles[k].name => j = k
    BY <2>3, SettingsAssumption
  <2> HIDE DEF k
  <2>6. QED
    BY <1>2, <2>2, <2>3, <2>4, <2>5
<1>3. CASE ~(\E k \in configured : ProfileFits(Profiles[k], res)) /\ largest = {}
  <2>1. IsCloudProfile(Profiles[i])
    BY <1>3, LargestIsLargest
  <2>2. clouds # {} /\ clouds \in SUBSET Nat
    BY <2>1, SettingsAssumption DEF IsList
  <2> DEFINE k == CHOOSE k \in clouds : \A j \in clouds : k <= j
  <2>3. k \in clouds
    <3> HIDE DEF clouds
    <3>1. \E j \in clouds : \A m \in clouds : j <= m
      BY <2>2, Smallest
    <3>2. QED
      BY <3>1
  <2>4. taken = Profiles[k].name
    BY <1>3, <2>2 DEF SelectProfile
  <2>5. ProfileFits(Profiles[k], res)
    BY <2>3 DEF ProfileFits
  <2> HIDE DEF k
  <2>6. QED
    BY <1>3, <2>1, <2>3, <2>4, <2>5
<1>4. QED
  BY <1>1, <1>2, <1>3

\* recommend_local_model: the machine can run the tier it names.
LEMMA TierFits ==
    ASSUME NEW res, RecommendLocalModel(res).key \in {"35b", "9b"}
    PROVE  \E i \in {1, 2} :
              /\ RecommendLocalModel(res) = LocalModelTiers[i]
              /\ res.vram >= LocalModelTiers[i].vram \/ res.ram >= LocalModelTiers[i].ram
<1> DEFINE tiers == LocalModelTiers
           passes == [i \in DOMAIN tiers |->
                        res.vram >= tiers[i].vram \/ res.ram >= tiers[i].ram]
           First(i) == passes[i] /\ \A j \in 1..(i - 1) : ~passes[j]
           T == {i \in DOMAIN tiers : passes[i]}
<1>1. DOMAIN tiers = 1..4
  BY DEF LocalModelTiers
<1>2. T # {}
  BY DEF RecommendLocalModel, FirstOf, NoTier, Tier
<1>3. \E i \in DOMAIN tiers : First(i)
  <2>1. T \in SUBSET Nat
    BY <1>1
  <2>2. PICK i \in T : \A j \in T : i <= j
    <3> HIDE DEF T
    <3>1. QED
      BY <1>2, <2>1, Smallest
  <2>3. \A j \in 1..(i - 1) : j \in DOMAIN tiers /\ j \notin T
    BY <1>1, <2>2
  <2>4. QED
    BY <2>2, <2>3
<1> DEFINE i == CHOOSE i \in DOMAIN tiers : First(i)
<1>4. i \in 1..4 /\ passes[i]
  BY <1>1, <1>3
<1>5. RecommendLocalModel(res) = tiers[i]
  BY <1>2 DEF RecommendLocalModel, FirstOf
<1> HIDE DEF i
<1>6. i \in {1, 2}
  BY <1>4, <1>5 DEF LocalModelTiers, Tier
<1>7. res.vram >= tiers[i].vram \/ res.ram >= tiers[i].ram
  BY <1>1, <1>4
<1>8. QED
  BY <1>5, <1>6, <1>7

\* A profile made for that tier fits.
LEMMA MadeForTier ==
    ASSUME NEW res, RecommendLocalModel(res).key \in {"35b", "9b"},
           NEW k \in DOMAIN Profiles,
           ProfileFloor(Profiles[k]).vram = RecommendLocalModel(res).vram
    PROVE  ProfileFits(Profiles[k], res) /\ ~IsCloudProfile(Profiles[k])
<1> DEFINE p == Profiles[k]
           tiers == LocalModelTiers
<1>1. PICK i \in {1, 2} :
         /\ RecommendLocalModel(res) = tiers[i]
         /\ res.vram >= tiers[i].vram \/ res.ram >= tiers[i].ram
  BY TierFits
<1>2. /\ tiers[1].vram = 22000 /\ tiers[1].ram = 40000
      /\ tiers[2].vram = 8000 /\ tiers[2].ram = 12000
  BY DEF LocalModelTiers, Tier
<1>3. ProfileFloor(p).vram = tiers[i].vram
  BY <1>1
<1>4. ~IsCloudProfile(p)
  BY <1>2, <1>3 DEF ProfileFloor
<1>5. p.name \in {"local", "local35"}
  <2> SUFFICES ASSUME p.name \notin {"local", "local35"} PROVE FALSE
    OBVIOUS
  <2>1. ProfileFloor(p) = EstimatedFloor(p)
    BY <1>4 DEF ProfileFloor
  <2>2. p.tenths \in Nat
    BY SettingsAssumption
  <2>3. PICK t \in Nat : EstimatedFloor(p).vram = t * 90 + 1500
    BY <2>2 DEF EstimatedFloor
  <2>4. t * 90 + 1500 \in {22000, 8000}
    BY <1>2, <1>3, <2>1, <2>3
  <2>5. QED
    BY <2>4
<1>6. ProfileFloor(p).ram = tiers[i].ram /\ tiers[i].ram > 0
  BY <1>2, <1>3, <1>4, <1>5 DEF ProfileFloor
<1>7. QED
  BY <1>1, <1>3, <1>4, <1>6 DEF ProfileFits

LEMMA FitsMachine == Types /\ ChosenForMachine => WorkerFitsMachine
<1> SUFFICES ASSUME Types, ChosenForMachine, worker.up, worker.state # "spawned"
             PROVE  WorkerFitsMachine
  BY DEF WorkerFitsMachine
<1> DEFINE res == Probed(machine)
           fits == {i \in DOMAIN Profiles : ProfileFits(Profiles[i], res)}
           best == RecommendLocalModel(res)
           taken == {i \in fits : Profiles[i].name = worker.profile}
           cfg == worker.cfg
           select == SelectProfile(cfg.profile, res)
<1>1. cfg.compute \in ComputeTypes
  BY DEF Types, Down, IsWorker, IsValid
<1>2. worker.profile = IF cfg.autoSelect /\ ~machine.keepsProfile THEN select ELSE cfg.profile
  BY DEF ChosenForMachine, Started, AutoselectProfile
<1>3. worker.state = "failed" =>
         \E target \in worker.refused :
            target.device = "cpu" /\ target.compute \in CpuComputes \cup {cfg.compute}
  BY <1>1, LoadingWorks DEF ChosenForMachine
<1>4. worker.loaded.beam = 5 <=> worker.loaded.device = "cuda"
  <2>1. CASE worker.state \in {"spawned", "loading"}
    BY <2>1 DEF ChosenForMachine, NotLoaded
  <2>2. CASE worker.state \notin {"spawned", "loading"}
    BY <1>1, <2>2, LoadingWorks DEF ChosenForMachine
  <2>3. QED
    BY <2>1, <2>2
<1>5. cfg.autoSelect /\ ~machine.keepsProfile /\ fits # {} => taken # {}
  BY <1>2, SelectsFitting
<1>6. (\E i \in fits : Profiles[i].name = cfg.profile) => worker.profile = cfg.profile
  BY <1>2, SelectsFitting
<1>7. ASSUME worker.profile # cfg.profile, best.key \in {"35b", "9b"},
             NEW i \in DOMAIN Profiles, ProfileFloor(Profiles[i]).vram = best.vram,
             NEW k \in taken
      PROVE  ProfileFloor(Profiles[k]).vram >= best.vram
  <2>1. ProfileFits(Profiles[i], res) /\ ~IsCloudProfile(Profiles[i])
    BY <1>7, MadeForTier
  <2>2. worker.profile = select /\ select # cfg.profile
    BY <1>2, <1>7
  <2>3. QED
    BY <1>7, <2>1, <2>2, SelectsFitting
<1> HIDE DEF best, select
<1>8. QED
  BY <1>3, <1>4, <1>5, <1>6, <1>7 DEF WorkerFitsMachine, best

-----------------------------------------------------------------------------
(* The theorems.                                                           *)

LEMMA SettingsInitially == SettingsInit => SettingsInv
<1> SUFFICES ASSUME SettingsInit PROVE SettingsInv
  OBVIOUS
<1>1. PICK json \in {NoFile} \cup UserFiles, legacy \in {NoFile} \cup LegacyFiles :
          /\ disk = [json |-> json, tmp |-> NoFile, legacy |-> legacy]
          /\ chosen = IF Migrates(disk) THEN legacy ELSE json
  BY DEF SettingsInit
<1>2. /\ tray = Down /\ worker = Down /\ ~Down.up /\ edits = 0 /\ replugs = 0 /\ raced = FALSE
      /\ machine \in Machines /\ plugged \in DeviceLists
  BY DEF SettingsInit, Down
<1>3. disk.json = json /\ disk.tmp = NoFile /\ disk.legacy = legacy
  BY <1>1
<1>4. (json = NoFile \/ IsFile(json)) /\ (legacy = NoFile \/ IsFile(legacy))
  BY SettingsAssumption
<1>5. Types
  <2>1. edits \in 0..EditLimit /\ replugs \in 0..ReplugLimit
    BY <1>2, SettingsAssumption
  <2>2. \A f \in {disk.json, disk.tmp, disk.legacy} : f = NoFile \/ IsFile(f)
    BY <1>3, <1>4
  <2>3. disk = [json |-> disk.json, tmp |-> disk.tmp, legacy |-> disk.legacy]
    BY <1>1, <1>3
  <2>4. QED
    BY <1>2, <2>1, <2>2, <2>3 DEF Types
<1>6. SurvivalInv
  <2>1. TrayIsOlder /\ OneWriter /\ FreshIsChosen
    BY <1>2 DEF TrayIsOlder, OneWriter, OwnTmp, Writing, Saves, FreshIsChosen, Started
  <2>2. OnlyMigration
    BY <1>1, <1>2, <1>3 DEF OnlyMigration, Saves
  <2>3. SettingsSurvive
    <3>1. CASE Migrates(disk)
      BY <1>1, <1>3, <3>1 DEF SettingsSurvive, Migrates
    <3>2. CASE ~Migrates(disk)
      BY <1>1, <1>3, <3>2 DEF SettingsSurvive
    <3>3. QED
      BY <3>1, <3>2
  <2>4. QED
    BY <2>1, <2>2, <2>3 DEF SurvivalInv
<1>7. MicrophoneInv /\ ChosenForMachine
  BY <1>2 DEF MicrophoneInv, ChosenForMachine, Started
<1>8. QED
  BY <1>5, <1>6, <1>7 DEF SettingsInv

LEMMA SettingsAlways == SettingsSpec => []SettingsInv
<1>1. SettingsInv /\ [SettingsNext]_settingsVars => SettingsInv'
  BY TypesStep, SurvivalStep, MicrophoneStep, ChosenStep DEF SettingsInv
<1>2. QED
  BY <1>1, SettingsInitially, PTL DEF SettingsSpec

\* Whatever the file says, tray and worker run with values in range that are
\* saved and loaded unchanged.
THEOREM SettingsTypeCorrect == SettingsSpec => []SettingsTypeOK
<1>1. SettingsInv => SettingsTypeOK
  <2> SUFFICES ASSUME Types PROVE SettingsTypeOK
    BY DEF SettingsInv
  <2>1. /\ disk.json.kind \in {"none", "torn", "ok"}
        /\ disk.tmp.kind \in {"none", "torn", "ok"}
    BY DEF Types, IsFile, Torn, NoFile, Holding
  <2>2. ASSUME NEW p \in {tray, worker}, p.up
        PROVE  /\ p.save \in {"no", "due", "opened", "written"} /\ p.seen \in 0..edits
               /\ IsValid(p.cfg)
    BY <2>2 DEF Types, Down, IsTray, IsWorker, Steps
  <2>3. ASSUME NEW p \in {tray, worker}, p.up
        PROVE  /\ p.cfg.device \in {"auto", "cuda", "cpu"} /\ p.cfg.compute \in ComputeTypes
               /\ 2 <= p.cfg.minInfer /\ p.cfg.minInfer <= p.cfg.infer
               /\ p.cfg.infer <= 100 /\ p.cfg.profile \in ProfileNames \cup {"local"}
               /\ FromFile(ToDict(p.cfg)) = p.cfg
    BY <2>2, <2>3, SavedAndLoaded DEF IsValid
  <2>4. QED
    BY <2>1, <2>2, <2>3 DEF SettingsTypeOK, Types
<1>2. QED
  BY <1>1, SettingsAlways, PTL

\* The next start finds the user's own settings, whatever was killed in the middle
\* of a save, but for the exceptions the property names.
THEOREM SettingsAreKept == SettingsSpec => []SettingsSurvive
<1>1. SettingsInv => SettingsSurvive
  BY DEF SettingsInv, SurvivalInv
<1>2. QED
  BY <1>1, SettingsAlways, PTL

\* A session listens to the microphone that the tray named, if the worker knows
\* one of that name.
THEOREM MicrophoneChosen == SettingsSpec => []RightMicrophone
<1>1. SettingsInv => RightMicrophone
  BY MicrophoneIsRight DEF SettingsInv
<1>2. QED
  BY <1>1, SettingsAlways, PTL

\* On any machine the worker gives up loading the model only once the CPU refused
\* it, with a compute type the CPU takes unless another was asked for; and the
\* profile it takes fits if one does, the largest local one before a cloud.
THEOREM MachineSuffices == SettingsSpec => []WorkerFitsMachine
<1>1. SettingsInv => WorkerFitsMachine
  BY FitsMachine DEF SettingsInv
<1>2. QED
  BY <1>1, SettingsAlways, PTL
=============================================================================
