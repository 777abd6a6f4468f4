SPECIFICATION Spec
CONSTANTS
    d1 = d1
    d2 = d2
    d3 = d3
    Absent = Absent
    Torn = Torn
    Docs = {d1, d2, d3}
    HeldOut <- MCHeldOut
    Steps = 2
    SaveLimit = 2
    MaxCrashes = 2
INVARIANTS
    SftInv
    ExportIsTheReusableAdapter
    PredictionsMatchManifest
    ReportCoversDataset
