--------------------------- MODULE MCDataDirectory ---------------------------
(* The repository with its server's directory and the client built in a    *)
(* directory below its root.                                               *)
EXTENDS DataDirectory

CONSTANTS repo, server, build, appData, temp

MCPath == (build :> <<build, repo>>) @@ (server :> <<server, repo>>) @@ (repo :> <<repo>>)
          @@ (appData :> <<appData>>) @@ (temp :> <<temp>>)

MCDataDirs == {Data(repo), Data(server)}
MCPackaged == {Data(repo), Data(server)}
MCClosed == {{}, {Data(repo)}, {Data(server), Own(appData), Own(build), Own(temp)}}
MCEnvs == {NoDir, Data(server)}
=============================================================================
