------------------------------ MODULE Hardware ------------------------------
(***************************************************************************)
(* What a machine can run: the probes and choices of wldictate/hardware.py *)
(* and the loading of the Whisper model of wldictate/transcriber.py.       *)
(* Memory is in MB, as in the code's tables.  A machine is what the probes *)
(* find: the memory of each GPU that nvidia-smi and rocm-smi list (no GPU  *)
(* when the tool is missing or fails), the RAM, whether CTranslate2 counts *)
(* a CUDA device, whether a model does load on it, and whether             *)
(* WL_DICTATE_NO_AUTOSELECT turns the choice of a profile off.             *)
(***************************************************************************)
EXTENDS Integers, Sequences

CONSTANTS
    Profiles    \* contextual.profiles: a sequence, in the order of the dict

Machine(nvidia, amd, ram, cuda, loads, keepsProfile) ==
    [nvidia |-> nvidia, amd |-> amd, ram |-> ram, cuda |-> cuda, loads |-> loads,
     keepsProfile |-> keepsProfile]

Largest(sizes) == IF sizes = {} THEN 0 ELSE CHOOSE m \in sizes : \A n \in sizes : n <= m

\* probe_resources: the AMD tool is asked only when no NVIDIA GPU was found.
Probed(machine) ==
    LET nvidia == Largest(machine.nvidia)
    IN  [vram |-> IF nvidia = 0 THEN Largest(machine.amd) ELSE nvidia, ram |-> machine.ram]

-----------------------------------------------------------------------------
(* Model tiers, largest first.                                             *)

Tier(key, vram, ram) == [key |-> key, vram |-> vram, ram |-> ram]

LocalModelTiers ==
    << Tier("35b", 22000, 40000), Tier("9b", 8000, 12000),
       Tier("4b", 4200, 6000), Tier("1.7b", 2200, 3500) >>

NoTier == Tier("none", 0, 0)

\* The first of a sequence that passes, or `none'.
FirstOf(seq, passes, none) ==
    IF \E i \in DOMAIN seq : passes[i]
    THEN seq[CHOOSE i \in DOMAIN seq : passes[i] /\ \A j \in 1..(i - 1) : ~passes[j]]
    ELSE none

\* recommend_local_model
RecommendLocalModel(res) ==
    FirstOf(LocalModelTiers,
            [i \in DOMAIN LocalModelTiers |->
                res.vram >= LocalModelTiers[i].vram \/ res.ram >= LocalModelTiers[i].ram],
            NoTier)

WhisperGpuTiers ==
    << [vram |-> 6000, model |-> "large-v3"], [vram |-> 3000, model |-> "medium.en"],
       [vram |-> 0, model |-> "small.en"] >>
WhisperCpuModel == "base.en"

\* select_whisper_model
SelectWhisperModel(model, res, cuda) ==
    IF model # "auto" THEN model
    ELSE IF ~cuda THEN WhisperCpuModel
    ELSE FirstOf(WhisperGpuTiers,
                 [i \in DOMAIN WhisperGpuTiers |-> res.vram >= WhisperGpuTiers[i].vram],
                 [vram |-> 0, model |-> WhisperCpuModel]).model

-----------------------------------------------------------------------------
(* Contextual profiles.  `tenths' is the number of parameters that the     *)
(* model's name tells of, in tenths of a billion; 0 when it tells none.    *)

Profile(name, backend, localUrl, tenths) ==
    [name |-> name, backend |-> backend, localUrl |-> localUrl, tenths |-> tenths]

ProfileNames == {Profiles[i].name : i \in DOMAIN Profiles}

IsCloudProfile(p) == p.backend = "anthropic" \/ ~p.localUrl

\* _estimate_local_floor
EstimatedFloor(p) ==
    LET tenths == IF p.tenths = 0 THEN 80 ELSE p.tenths
    IN  [vram |-> tenths * 90 + 1500, ram |-> tenths * 110 + 2500]

\* profile_floor
ProfileFloor(p) ==
    CASE IsCloudProfile(p) -> [vram |-> 0, ram |-> 0]
      [] ~IsCloudProfile(p) /\ p.name = "local" ->
            [vram |-> LocalModelTiers[2].vram, ram |-> LocalModelTiers[2].ram]
      [] ~IsCloudProfile(p) /\ p.name = "local35" ->
            [vram |-> LocalModelTiers[1].vram, ram |-> LocalModelTiers[1].ram]
      [] OTHER -> EstimatedFloor(p)

\* profile_fits
ProfileFits(p, res) ==
    \/ IsCloudProfile(p)
    \/ res.vram >= ProfileFloor(p).vram
    \/ ProfileFloor(p).ram > 0 /\ res.ram >= ProfileFloor(p).ram

\* The local profiles that fit, sorted by _local_rank, largest first: the first
\* of them.
SmallestFitting(res) ==
    LET fits == {i \in DOMAIN Profiles :
                    ~IsCloudProfile(Profiles[i]) /\ ProfileFits(Profiles[i], res)}
        rank(i) == ProfileFloor(Profiles[i]).vram
    IN  {i \in fits : \A j \in fits : rank(i) < rank(j) \/ (rank(i) = rank(j) /\ i <= j)}
LargestFitting(res) ==
    LET fits == {i \in DOMAIN Profiles :
                    ~IsCloudProfile(Profiles[i]) /\ ProfileFits(Profiles[i], res)}
        rank(i) == ProfileFloor(Profiles[i]).vram
    IN  {i \in fits : \A j \in fits : rank(i) > rank(j) \/ (rank(i) = rank(j) /\ i <= j)}

\* select_profile
SelectProfile(name, res) ==
    LET configured == {i \in DOMAIN Profiles : Profiles[i].name = name}
        clouds == {i \in DOMAIN Profiles : IsCloudProfile(Profiles[i])}
    IN  IF \E i \in configured : ProfileFits(Profiles[i], res) THEN name
        ELSE IF LargestFitting(res) # {}
             THEN Profiles[CHOOSE i \in LargestFitting(res) : TRUE].name
        ELSE IF clouds # {}
             THEN Profiles[CHOOSE i \in clouds : \A j \in clouds : i <= j].name
        ELSE name

\* autoselect_profile
AutoselectProfile(name, autoSelect, machine) ==
    IF autoSelect /\ ~machine.keepsProfile THEN SelectProfile(name, Probed(machine)) ELSE name

-----------------------------------------------------------------------------
(* FasterWhisperTranscriber.                                               *)

ComputeTypes == {"auto", "float16", "float32", "int8", "int8_float16"}

\* _resolve_target
ResolveDevice(device, cuda) ==
    IF device = "cpu" \/ ~cuda THEN "cpu" ELSE "cuda"
ResolveCompute(compute, device) ==
    IF compute # "auto" THEN compute
    ELSE IF device = "cuda" THEN "float16" ELSE "int8"

\* Can WhisperModel be built?  Not without the model, and on a CPU neither with too
\* little memory nor with half precision.  (A GPU short of memory has ~loads.)
Target(device, compute) == [device |-> device, compute |-> compute]
CpuComputes == {"int8", "float32"}

CanLoad(machine, target, lacking) ==
    /\ ~lacking
    /\ IF target.device = "cuda" THEN machine.loads ELSE target.compute \in CpuComputes

NotLoaded == [device |-> "unloaded", compute |-> "unloaded", beam |-> 2]
On(target) ==
    [device |-> target.device, compute |-> target.compute,
     beam |-> IF target.device = "cuda" THEN 5 ELSE 2]

\* load: a failure on the GPU is tried again on the CPU, with int8.  `refused' are
\* the targets that failed.
Load(loaded, refused) == [loaded |-> loaded, refused |-> refused]

FirstTarget(machine, device, compute) ==
    LET target == ResolveDevice(device, machine.cuda)
    IN  Target(target, ResolveCompute(compute, target))

LoadedAsIs(machine, device, compute, lacking) ==
    LET first == FirstTarget(machine, device, compute)
    IN  IF CanLoad(machine, first, lacking) THEN Load(On(first), {})
        ELSE Load(NotLoaded, {first})
Loaded(machine, device, compute, lacking) ==
    LET first == FirstTarget(machine, device, compute)
        retry == Target("cpu", "int8")
    IN  IF CanLoad(machine, first, lacking) THEN Load(On(first), {})
        ELSE IF first.device = "cpu" THEN Load(NotLoaded, {first})
        ELSE IF CanLoad(machine, retry, lacking) THEN Load(On(retry), {first})
        ELSE Load(NotLoaded, {first, retry})
=============================================================================
