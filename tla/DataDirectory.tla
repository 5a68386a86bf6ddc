---------------------------- MODULE DataDirectory ----------------------------
(***************************************************************************)
(* Where the two programs keep identity.db and messages.db.  The client    *)
(* looks for a directory each time it reads or writes one of them          *)
(* (AppController::resolveDataDirectory); the server resolves the two      *)
(* paths once, when it starts (storage.ResolveDataPath).  Both search the  *)
(* directories above the one they are started in, so they may come to use  *)
(* the same files, in formats of their own.                                *)
(*                                                                         *)
(* A directory is a base or the directory "data" in a base.  The client    *)
(* may be stopped and started from another directory, with another         *)
(* SM_DATA_DIR or after permissions changed; the server is always started  *)
(* in the same directory and may write wherever it looks.                  *)
(***************************************************************************)
EXTENDS Integers, Sequences, SequencesExt

CONSTANTS Bases,
          Path,       \* base -> the bases from it up to the root
          AppDir,     \* QCoreApplication::applicationDirPath()
          AppData,    \* QStandardPaths::AppDataLocation
          Temp,       \* QDir::tempPath()
          Cwds,       \* from which the client may be started
          ServerDir,  \* from which the server is started
          DataDirs,   \* directories "data" that may be there from the beginning
          Closed,     \* sets of directories: those in one of them the client may not write to
          Packaged,   \* directories that may hold files from the beginning
          Envs,       \* values of SM_DATA_DIR
          NoDir

Own(base) == <<base, "">>
Data(base) == <<base, "data">>
Dirs == {Own(base) : base \in Bases} \cup {Data(base) : base \in Bases}

ASSUME BasesAssumption == /\ {AppDir, AppData, Temp, ServerDir} \cup Cwds \subseteq Bases
                          /\ DataDirs \cup (UNION Closed) \cup Packaged \cup (Envs \ {NoDir}) \subseteq Dirs
                          /\ NoDir \notin Dirs
ASSUME PathAssumption == /\ Path \in [Bases -> Seq(Bases)]
                         /\ \A base \in Bases : Path[base] # << >> /\ Head(Path[base]) = base

Artifacts == {"identity.db", "messages.db"}

VARIABLES files,     \* directory -> artifact -> "none" or the program whose format it has
          made,      \* the directories there are
          writable,  \* those the client may write to
          env,       \* SM_DATA_DIR
          cwd,       \* QDir::currentPath()
          home,      \* artifact -> the directory the server uses for it
          saved      \* history: artifacts the client wrote, while nothing else moved or changed them

layout == <<writable, env, cwd>>
vars == <<files, made, layout, home, saved>>

(* What the client may write to.                                           *)
Permissions == {Dirs \ closed : closed \in Closed}

(* Any of the directories may hold either of the files, or both, in the    *)
(* server's format.                                                        *)
Init == /\ made \in {{Own(base) : base \in Bases} \cup there : there \in SUBSET DataDirs}
        /\ \E packaged \in SUBSET ((made \cap Packaged) \X Artifacts) :
              files = [dir \in Dirs |-> [a \in Artifacts |->
                         IF <<dir, a>> \in packaged THEN "server" ELSE "none"]]
        /\ writable \in Permissions
        /\ env \in Envs
        /\ cwd \in Cwds
        /\ home = [a \in Artifacts |-> NoDir]
        /\ saved = {}

-------------------------------------------------------------------------------
(* resolveDataDirectory.                                                   *)

HasArtifacts(dir) == dir \in made /\ \E a \in Artifacts : files[dir][a] # "none"

(* canonicalIfValid: the directory itself, or "data" in it.                *)
Canonical(dir) == IF dir \notin made THEN NoDir
                  ELSE IF HasArtifacts(dir) THEN dir
                  ELSE IF dir[2] = "" /\ HasArtifacts(Data(dir[1])) THEN Data(dir[1])
                  ELSE NoDir

Match(base) == Canonical(Own(base))

(* The first of some directories that is one.                              *)
First(dirs) == LET hits == {i \in DOMAIN dirs : dirs[i] # NoDir}
               IN  IF hits = {} THEN NoDir ELSE dirs[Min(hits)]

(* The first match on the way up.                                          *)
SearchParents(base) == First([i \in DOMAIN Path[base] |-> Match(Path[base][i])])

(* data, ../data and ../../data of the application's directory.            *)
Explicit(i) == LET up == Path[AppDir]
               IN  IF i \in DOMAIN up /\ HasArtifacts(Data(up[i])) THEN Data(up[i]) ELSE NoDir

(* What is tried, in this order.                                           *)
Candidates == <<IF env = NoDir THEN NoDir ELSE Canonical(env),
                Explicit(1), Explicit(2), Explicit(3),
                SearchParents(AppDir), SearchParents(cwd)>>

Found == LET dirs == Candidates
         IN  First([i \in DOMAIN dirs |-> IF dirs[i] \in writable THEN dirs[i] ELSE NoDir])

(* readOnlyMatch at the end.                                               *)
LastMatch == LET dirs == Candidates
                 hits == {i \in DOMAIN dirs : dirs[i] # NoDir}
             IN  IF hits = {} THEN NoDir ELSE dirs[Max(hits)]

BugFallback == IF Own(AppData) \in writable THEN Own(AppData)
               ELSE IF Own(cwd) \in writable THEN Data(cwd)
               ELSE NoDir

(* A match in the working directory was met by SearchParents(cwd).         *)
Fallback == IF Own(AppData) \in writable THEN Own(AppData)
            ELSE IF Own(cwd) \in writable THEN Own(cwd)
            ELSE NoDir

BugDirectory == IF Found # NoDir THEN Found ELSE Fallback

Directory == LET found == Found
             IN  IF found # NoDir THEN found
                 ELSE IF Fallback # NoDir THEN Fallback
                 ELSE IF Own(Temp) \in writable THEN Own(Temp)
                 ELSE Own(cwd)

BugCarried == LET from == LastMatch
              IN  IF Found # NoDir \/ Fallback = NoDir \/ from = NoDir
                  THEN files
                  ELSE [files EXCEPT ![Fallback] = [a \in Artifacts |->
                          IF files[from][a] # "none" THEN files[from][a] ELSE @[a]]]

(* On the way the last match that cannot be written is copied to the       *)
(* fallback, but for what is there.                                        *)
Carried == LET from == LastMatch
           IN  IF Found # NoDir \/ Fallback = NoDir \/ from = NoDir
               THEN files
               ELSE [files EXCEPT ![Fallback] = [a \in Artifacts |->
                       IF @[a] = "none" THEN files[from][a] ELSE @[a]]]

-------------------------------------------------------------------------------
Resolve(dir, result) == /\ files' = result
                        /\ made' = made \cup {dir}
                        /\ UNCHANGED <<layout, home>>

(* initializeLogging, loadCredentials, loadServerData.                     *)
Look == Resolve(Directory, Carried) /\ UNCHANGED saved

(* persistCredentials and persistMessageHistory: the file becomes the      *)
(* client's JSON.  Users in a JSON file are kept, those in the server's    *)
(* gob file are not.                                                       *)
ClientWrites(a) == LET dir == Directory
                   IN  /\ dir \in writable
                       /\ Resolve(dir, [Carried EXCEPT ![dir][a] = "client"])
                       /\ saved' = saved \cup {a}

ClientCannotWrite == Directory \notin writable /\ Look

(* The client stops and is started differently: from another directory,    *)
(* with another SM_DATA_DIR or after permissions changed (two changes are  *)
(* two such steps).  Started as before it finds everything as it was: that *)
(* is Look again.                                                          *)
StartsDifferently == /\ \/ writable' \in Permissions /\ UNCHANGED <<env, cwd>>
                        \/ env' \in Envs /\ UNCHANGED <<writable, cwd>>
                        \/ cwd' \in Cwds /\ UNCHANGED <<writable, env>>
                     /\ layout' # layout
                     /\ saved' = {}
                     /\ UNCHANGED <<files, made, home>>

-------------------------------------------------------------------------------
(* storage.ResolveDataPath.                                                *)

(* Of the directories above the server's the highest whose "data" is among *)
(* these.                                                                  *)
Highest(dirs, otherwise) ==
    LET up == Path[ServerDir]
        hits == {i \in DOMAIN up : Data(up[i]) \in dirs}
    IN  IF hits = {} THEN otherwise ELSE Data(up[Max(hits)])

CreateAt == Highest(made, Data(ServerDir))

(* The highest copy is the one to use; a new file goes where the highest   *)
(* "data" is.                                                              *)
ServerPath(a) == Highest({dir \in Dirs : files[dir][a] # "none"}, CreateAt)

(* Where the client looks for files, but for the fallback it uses when it  *)
(* finds none.                                                             *)
Searched == LET bases == Range(Path[AppDir]) \cup Range(Path[cwd])
                            \cup {base \in Bases : env \in {Own(base), Data(base)}}
            IN  {Own(base) : base \in bases} \cup {Data(base) : base \in bases}

(* The server starts: logging creates data/logs where it is started, both  *)
(* paths are resolved, files that are not there are seeded, the client's   *)
(* JSON is read as a file of an earlier release and written back as gob    *)
(* (the key is recorded, passwords are hashed).                            *)
ServerStarts ==
    LET at == [a \in Artifacts |-> ServerPath(a)]
        here == Directory
    IN  /\ home' = at
        /\ made' = made \cup {at[a] : a \in Artifacts} \cup {Data(ServerDir)}
        /\ files' = [dir \in Dirs |-> [a \in Artifacts |->
                       IF at[a] = dir THEN "server" ELSE files[dir][a]]]
        /\ saved' = IF \E a \in Artifacts : /\ files[at[a]][a] = "none"
                                            /\ at[a] \in Searched \ {here}
                    THEN {}
                    ELSE {a \in saved : at[a] # here}
        /\ UNCHANGED layout

(* It writes what it has in memory, as gob.                                *)
ServerWrites(a) == /\ home[a] # NoDir
                   /\ files' = [files EXCEPT ![home[a]][a] = "server"]
                   /\ saved' = IF home[a] = Directory THEN saved \ {a} ELSE saved
                   /\ UNCHANGED <<made, layout, home>>

Next == \/ Look
        \/ \E a \in Artifacts : ClientWrites(a)
        \/ ClientCannotWrite
        \/ StartsDifferently
        \/ ServerStarts
        \/ \E a \in Artifacts : ServerWrites(a)

Spec == Init /\ [][Next]_vars

-------------------------------------------------------------------------------
(* Every variable has its type.                                            *)
TypeOK == /\ files \in [Dirs -> [Artifacts -> {"none", "client", "server"}]]
          /\ made \subseteq Dirs
          /\ writable \subseteq Dirs
          /\ env \in Dirs \cup {NoDir}
          /\ cwd \in Bases
          /\ home \in [Artifacts -> Dirs \cup {NoDir}]
          /\ saved \subseteq Artifacts

(* What the client has saved it finds when it looks again, in the same run *)
(* or after a restart from the same directory with the same SM_DATA_DIR    *)
(* and permissions: neither its own files nor copies of read-only ones     *)
(* move it to another directory, whatever files lay where.  Only the       *)
(* server can: by overwriting the file, or by creating one in another      *)
(* directory that the client searches.                                     *)
FindsWhatItSaved == \A a \in saved : files[Directory][a] = "client"

(* A server that uses both files in one directory uses them again when it  *)
(* is started the next time, whatever the client has written meanwhile:    *)
(* nothing of the client's comes to lie above them.  With the two files in *)
(* two directories it may be moved: the client then writes messages.db     *)
(* beside an identity.db that lies above the server's messages.db.         *)
ServerFindsItsFiles ==
    \A dir \in Dirs : (\A a \in Artifacts : home[a] = dir) => \A a \in Artifacts : ServerPath(a) = dir
===============================================================================
