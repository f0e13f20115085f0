SPECIFICATION SettingsSpec
CONSTANTS
    Profiles <- MCProfiles
    Machines <- MCMachines
    UserFiles <- MCUserFiles
    LegacyFiles <- MCLegacyFiles
    DeviceLists <- MCDeviceLists
    Within <- MCWithin
    EditLimit = 1
    ReplugLimit = 1
INVARIANTS
    SettingsTypeOK
    SettingsSurvive
    RightMicrophone
    WorkerFitsMachine
