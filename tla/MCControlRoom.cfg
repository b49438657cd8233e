SPECIFICATION Spec

CONSTANTS
    Runs = {r1, r2}
    NoRun = NoRun
    NoManifest = NoManifest
    NoReplay = NoReplay
    MaxRegistrations = 2
    MaxEvents <- MCMaxEvents

INVARIANTS
    LiveViewIsRun
    ManifestIsOneRecording
    ReplayTellsTheSame
    FinalityNeverFallsBack
