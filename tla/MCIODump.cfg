SPECIFICATION FairSpec
CONSTANTS
    Unset = Unset
    None = None
    NoFile = NoFile
    norm = norm  mm = mm  t1 = t1  t2 = t2  path = path
    Ops = {norm, mm}
    Managed = {norm}
    ModuleOf <- MCModuleOf
    Threads = {t1}
    Main = t1
    Workers = 2
    Envs <- MCEnvs
    Yamls <- MCYamls
    Apis <- MCApis
    MaxStep = 2
    MaxDepth = 2
    MaxNum = 2
    MaxSessions = 1
    MaxFaults = 1
INVARIANTS LinesInOrder CompleteUpToHole OutputsFiledWithInputs ChildInherits
PROPERTIES FlushEnds
CHECK_DEADLOCK FALSE
