------------------------------ MODULE MCSettings ------------------------------
(* A few files a user may write, taken to a few machines, with microphones   *)
(* that come, go and change places.                                          *)
EXTENDS Settings

MCProfiles ==
    << Profile("local", "openai", TRUE, 90), Profile("cloud", "openai", FALSE, 300),
       Profile("local35", "openai", TRUE, 350), Profile("small", "openai", TRUE, 17) >>

\* A small laptop, with and without WL_DICTATE_NO_AUTOSELECT, a GPU whose libraries
\* are broken, and a large GPU beside a small one.
MCMachines ==
    { Machine({}, {}, 4000, FALSE, FALSE, FALSE), Machine({}, {}, 4000, FALSE, FALSE, TRUE),
      Machine({8000}, {}, 4000, TRUE, FALSE, FALSE),
      Machine({4000, 24000}, {}, 32000, TRUE, TRUE, FALSE) }

Empty ==
    [model |-> Unset, device |-> Unset, compute |-> Unset, infer |-> UnsetNumber,
     minInfer |-> UnsetNumber, profile |-> Unset, autoSelect |-> TRUE,
     index |-> NoIndex, name |-> NoName]

MCUserFiles ==
    { Torn,
      Holding([Empty EXCEPT !.device = "tpu", !.compute = "int4", !.infer = 200, !.minInfer = 50,
                            !.profile = "nobody", !.name = "Mic", !.index = 2]),
      Holding([Empty EXCEPT !.infer = 4, !.compute = "float16", !.model = "auto",
                            !.profile = "local35", !.autoSelect = FALSE]) }

MCLegacyFiles == { Holding([Empty EXCEPT !.model = "auto", !.profile = "local35"]) }

Mic == Device("Mic", TRUE)
OtherMic == Device("Mic (front)", TRUE)
Speakers == Device("Speakers", FALSE)
MCDeviceLists ==
    { << OtherMic, Mic >>, << Speakers, OtherMic >> }
MCWithin == { <<"Mic", "Mic (front)">> }
=============================================================================
