SPECIFICATION EnvSpec
CONSTANTS
    Floor <- MCFloor
    MultiSession = 1
    ServiceTypes = {"URLLC", "eMBB"}
    Catalogs <- MCCatalogs
    Designs <- MCDesigns
    Revisions <- MCRevisions
    Dirs = {"out", "out/graphs"}
    Graphs <- MCGraphs
    SplitMode <- MCSplitMode
    Seeds <- MCSeeds
    MaxFailedWrites = 2
    None = None
    Foreign = Foreign
    NoFile = NoFile
INVARIANTS SimulationRunsTheDesign AnswerIsOneDesign RejectionIsRepairable
PROPERTIES ForeignFilesKept
