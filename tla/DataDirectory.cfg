SPECIFICATION Spec
CONSTANTS
    repo = repo
    server = server
    build = build
    appData = appData
    temp = temp
    Bases = {repo, server, build, appData, temp}
    Path <- MCPath
    AppDir = build
    AppData = appData
    Temp = temp
    Cwds = {repo, build}
    ServerDir = server
    DataDirs <- MCDataDirs
    Closed <- MCClosed
    Packaged <- MCPackaged
    Envs <- MCEnvs
    NoDir = NoDir
INVARIANTS
    TypeOK
    FindsWhatItSaved
    ServerFindsItsFiles
