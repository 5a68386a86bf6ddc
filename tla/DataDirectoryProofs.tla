-------------------------- MODULE DataDirectoryProofs --------------------------
(***************************************************************************)
(* Theorems about DataDirectory for any tree of directories, any place of  *)
(* the two programs in it, any directories that may not be written to, any *)
(* SM_DATA_DIR and either or both files in any directories: the client     *)
(* finds what it saved until it is started differently or the server's     *)
(* files move it, and a server with both files in one directory finds them *)
(* again, whatever the client wrote in between.                            *)
(***************************************************************************)
EXTENDS DataDirectory, Intervals, SequenceTheorems, TLAPS

(* Every directory that is not a "data" is there; files are in directories *)
(* that are there.                                                         *)
Standing == /\ \A base \in Bases : Own(base) \in made
            /\ \A dir \in Dirs : \A a \in Artifacts : files[dir][a] # "none" => dir \in made

(* The server's files are where it uses them.                              *)
AtHome == \A a \in Artifacts : home[a] # NoDir => files[home[a]][a] # "none"

IInv == /\ TypeOK
        /\ Standing
        /\ AtHome
        /\ FindsWhatItSaved
        /\ ServerFindsItsFiles

-------------------------------------------------------------------------------
(* Directories and paths.                                                  *)

LEMMA DirsAre ==
    /\ \A base \in Bases : Own(base) \in Dirs /\ Own(base)[1] = base /\ Own(base)[2] = ""
    /\ \A base \in Bases : Data(base) \in Dirs /\ Data(base)[1] = base /\ Data(base)[2] = "data"
    /\ \A dir \in Dirs : \E base \in Bases : dir = Own(base) \/ dir = Data(base)
    /\ \A base \in Bases : \A other \in Bases :
          Own(base) # Data(other) /\ (Own(base) = Own(other) => base = other)
<1>1. \A base : Own(base)[1] = base /\ Own(base)[2] = "" /\ Data(base)[1] = base /\ Data(base)[2] = "data"
  BY DEF Own, Data
<1>2. \A base \in Bases : Own(base) \in Dirs /\ Data(base) \in Dirs
  BY DEF Dirs
<1>3. ASSUME NEW dir \in Dirs PROVE \E base \in Bases : dir = Own(base) \/ dir = Data(base)
  BY DEF Dirs
<1>4. ASSUME NEW base \in Bases, NEW other \in Bases
      PROVE  Own(base) # Data(other) /\ (Own(base) = Own(other) => base = other)
  <2>1. Own(base)[2] # Data(other)[2]
    BY <1>1
  <2>2. Own(base)[1] = base /\ Own(other)[1] = other
    BY <1>1
  <2> QED
    BY <2>1, <2>2
<1> QED
  BY <1>1, <1>2, <1>3, <1>4

LEMMA PathIs ==
    ASSUME NEW base \in Bases
    PROVE  /\ Len(Path[base]) \in Nat
           /\ DOMAIN Path[base] = 1..Len(Path[base])
           /\ \A i \in DOMAIN Path[base] : Path[base][i] \in Bases
           /\ 1 \in DOMAIN Path[base]
           /\ Path[base][1] = base
<1>1. Path[base] \in Seq(Bases) /\ Path[base] # << >> /\ Head(Path[base]) = base
  BY PathAssumption
<1>2. /\ Len(Path[base]) \in Nat /\ DOMAIN Path[base] = 1..Len(Path[base])
      /\ \A i \in DOMAIN Path[base] : Path[base][i] \in Bases
  BY <1>1, LenProperties, ElementOfSeq
<1>3. Len(Path[base]) # 0
  BY <1>1, EmptySeq
<1>4. Path[base][1] = base
  BY <1>1
<1> QED
  BY <1>2, <1>3, <1>4

LEMMA CanonicalIs ==
    ASSUME Standing
    PROVE  /\ \A base \in Bases :
                 Canonical(Own(base)) = IF HasArtifacts(Own(base)) THEN Own(base)
                                        ELSE IF HasArtifacts(Data(base)) THEN Data(base)
                                        ELSE NoDir
           /\ \A base \in Bases :
                 Canonical(Data(base)) = IF HasArtifacts(Data(base)) THEN Data(base) ELSE NoDir
<1>1. \A dir : HasArtifacts(dir) => dir \in made
  BY DEF HasArtifacts
<1>2. "" # "data"
  OBVIOUS
<1>3. ASSUME NEW base \in Bases
      PROVE  Canonical(Own(base)) = IF HasArtifacts(Own(base)) THEN Own(base)
                                    ELSE IF HasArtifacts(Data(base)) THEN Data(base)
                                    ELSE NoDir
  <2>1. Own(base) \in made /\ Own(base)[2] = "" /\ Own(base)[1] = base
    BY DirsAre DEF Standing
  <2> QED
    BY <2>1 DEF Canonical
<1>4. ASSUME NEW base \in Bases
      PROVE  Canonical(Data(base)) = IF HasArtifacts(Data(base)) THEN Data(base) ELSE NoDir
  <2>1. Data(base)[2] # ""
    BY <1>2, DirsAre
  <2> QED
    BY <1>1, <2>1 DEF Canonical
<1> QED
  BY <1>3, <1>4

(* What canonicalIfValid finds is a directory with files.                  *)
LEMMA CanonicalHas ==
    ASSUME Standing, NEW dir \in Dirs, Canonical(dir) # NoDir
    PROVE  Canonical(dir) \in Dirs /\ HasArtifacts(Canonical(dir))
<1>1. PICK base \in Bases : dir = Own(base) \/ dir = Data(base)
  BY DirsAre
<1>2. Own(base) \in Dirs /\ Data(base) \in Dirs
  BY DirsAre
<1> QED
  BY <1>1, <1>2, CanonicalIs

LEMMA FirstIs ==
    ASSUME NEW n \in Nat, NEW dirs, DOMAIN dirs = 1..n
    PROVE  \/ First(dirs) = NoDir /\ \A i \in DOMAIN dirs : dirs[i] = NoDir
           \/ First(dirs) # NoDir /\ \E i \in DOMAIN dirs :
                 First(dirs) = dirs[i] /\ \A j \in DOMAIN dirs : j < i => dirs[j] = NoDir
<1> DEFINE hits == {i \in DOMAIN dirs : dirs[i] # NoDir}
<1>1. First(dirs) = IF hits = {} THEN NoDir ELSE dirs[Min(hits)]
  BY DEF First
<1>2. CASE hits = {}
  BY <1>1, <1>2
<1>3. CASE hits # {}
  <2>1. hits \in SUBSET Nat
    OBVIOUS
  <2>2. Min(hits) \in hits /\ \A i \in hits : Min(hits) <= i
    <3> HIDE DEF hits
    <3> QED
      BY <1>3, <2>1, MinIs
  <2>3. ASSUME NEW j \in hits PROVE ~(j < Min(hits))
    <3> HIDE DEF hits
    <3>1. j \in Nat /\ Min(hits) \in Nat /\ Min(hits) <= j
      BY <2>1, <2>2
    <3> QED
      BY <3>1
  <2> QED
    BY <1>1, <1>3, <2>2, <2>3
<1> QED
  BY <1>2, <1>3

(* canonicalIfValid of the directories from base up.                       *)
Matched(base) == [i \in DOMAIN Path[base] |-> Match(Path[base][i])]

LEMMA SearchParentsHas ==
    ASSUME Standing, NEW base \in Bases, SearchParents(base) # NoDir
    PROVE  SearchParents(base) \in Dirs /\ HasArtifacts(SearchParents(base))
<1>1. SearchParents(base) = First(Matched(base)) /\ DOMAIN Matched(base) = DOMAIN Path[base]
  BY DEF SearchParents, Matched
<1>2. PICK i \in DOMAIN Path[base] : SearchParents(base) = Matched(base)[i]
  BY <1>1, FirstIs, PathIs
<1>3. Path[base][i] \in Bases
  BY PathIs
<1>4. Matched(base)[i] = Canonical(Own(Path[base][i]))
  BY DEF Match, Matched
<1>5. Own(Path[base][i]) \in Dirs
  BY <1>3, DirsAre
<1> QED
  BY <1>2, <1>4, <1>5, CanonicalHas

LEMMA ExplicitHas ==
    ASSUME NEW i, Explicit(i) # NoDir
    PROVE  Explicit(i) \in Dirs /\ HasArtifacts(Explicit(i))
<1>1. AppDir \in Bases
  BY BasesAssumption
<1>2. i \in DOMAIN Path[AppDir] /\ HasArtifacts(Data(Path[AppDir][i])) /\ Explicit(i) = Data(Path[AppDir][i])
  BY DEF Explicit
<1> QED
  BY <1>1, <1>2, PathIs, DirsAre

LEMMA CandidatesHave ==
    ASSUME TypeOK, Standing
    PROVE  /\ DOMAIN Candidates = 1..6
           /\ \A i \in 1..6 : Candidates[i] # NoDir =>
                 Candidates[i] \in Dirs /\ HasArtifacts(Candidates[i])
<1>1. AppDir \in Bases /\ cwd \in Bases /\ env \in Dirs \cup {NoDir}
  BY BasesAssumption DEF TypeOK
<1>2. /\ DOMAIN Candidates = 1..6
      /\ Candidates[1] = IF env = NoDir THEN NoDir ELSE Canonical(env)
      /\ Candidates[2] = Explicit(1) /\ Candidates[3] = Explicit(2) /\ Candidates[4] = Explicit(3)
      /\ Candidates[5] = SearchParents(AppDir) /\ Candidates[6] = SearchParents(cwd)
  BY DEF Candidates
<1>3. ASSUME NEW i \in 1..6, Candidates[i] # NoDir
      PROVE  Candidates[i] \in Dirs /\ HasArtifacts(Candidates[i])
  <2>1. CASE i = 1
    BY <1>1, <1>2, <1>3, <2>1, CanonicalHas
  <2>2. CASE i \in 2..4
    BY <1>2, <1>3, <2>2, ExplicitHas
  <2>3. CASE i \in 5..6
    BY <1>1, <1>2, <1>3, <2>3, SearchParentsHas
  <2> QED
    BY <2>1, <2>2, <2>3
<1> QED
  BY <1>2, <1>3

(* The client uses a directory with files that it may write to; without    *)
(* one a directory of its own.                                             *)
Usable == [i \in DOMAIN Candidates |-> IF Candidates[i] \in writable THEN Candidates[i] ELSE NoDir]

LEMMA DirectoryIs ==
    ASSUME TypeOK, Standing
    PROVE  /\ Found # NoDir => /\ Directory = Found
                               /\ Directory \in Dirs \cap writable
                               /\ HasArtifacts(Directory)
           /\ Found = NoDir => /\ \E base \in Bases : Directory = Own(base)
                               /\ Fallback # NoDir => Directory = Fallback
                               /\ \A i \in 1..6 : Candidates[i] \notin writable
           /\ Directory \in Dirs
           /\ Directory \in made
<1>1. {AppDir, AppData, Temp, cwd} \subseteq Bases /\ NoDir \notin Dirs /\ NoDir \notin writable
  BY BasesAssumption DEF TypeOK
<1>2. Found = First(Usable) /\ DOMAIN Usable = 1..6
  BY CandidatesHave DEF Found, Usable
<1>3. ASSUME Found # NoDir
      PROVE  /\ Directory = Found
             /\ Directory \in Dirs \cap writable
             /\ HasArtifacts(Directory)
  <2>1. PICK i \in 1..6 : Found = Usable[i]
    BY <1>2, <1>3, FirstIs
  <2>2. Found = Candidates[i] /\ Candidates[i] \in writable /\ Candidates[i] # NoDir
    BY <1>1, <1>2, <1>3, <2>1 DEF Usable
  <2>3. Directory = Found
    BY <1>3 DEF Directory
  <2> QED
    BY <2>2, <2>3, CandidatesHave
<1>4. ASSUME Found = NoDir
      PROVE  /\ \E base \in Bases : Directory = Own(base)
             /\ Fallback # NoDir => Directory = Fallback
             /\ \A i \in 1..6 : Candidates[i] \notin writable
  <2>1. \A i \in 1..6 : Usable[i] = NoDir
    BY <1>2, <1>4, FirstIs
  <2>2. \A i \in 1..6 : Candidates[i] \notin writable
    BY <1>1, <1>2, <2>1 DEF Usable
  <2> QED
    BY <1>1, <1>4, <2>2 DEF Directory, Fallback
<1>5. Directory \in Dirs
  BY <1>3, <1>4, DirsAre
<1>6. Directory \in made
  BY <1>3, <1>4 DEF HasArtifacts, Standing
<1> QED
  BY <1>3, <1>4, <1>5, <1>6

-------------------------------------------------------------------------------
(* What files more or less in a directory change for the client.           *)

(* What is searched, spelt out.                                            *)
LEMMA SearchedIs ==
    ASSUME TypeOK
    PROVE  /\ \A i \in DOMAIN Path[AppDir] :
                 Own(Path[AppDir][i]) \in Searched /\ Data(Path[AppDir][i]) \in Searched
           /\ \A i \in DOMAIN Path[cwd] :
                 Own(Path[cwd][i]) \in Searched /\ Data(Path[cwd][i]) \in Searched
           /\ \A base \in Bases : env \in {Own(base), Data(base)} =>
                 Own(base) \in Searched /\ Data(base) \in Searched
<1> DEFINE bases == Range(Path[AppDir]) \cup Range(Path[cwd])
                      \cup {base \in Bases : env \in {Own(base), Data(base)}}
<1>1. Searched = {Own(base) : base \in bases} \cup {Data(base) : base \in bases}
  BY DEF Searched
<1>2. \A base \in bases : Own(base) \in Searched /\ Data(base) \in Searched
  BY <1>1
<1>3. /\ \A i \in DOMAIN Path[AppDir] : Path[AppDir][i] \in bases
      /\ \A i \in DOMAIN Path[cwd] : Path[cwd][i] \in bases
      /\ \A base \in Bases : env \in {Own(base), Data(base)} => base \in bases
  BY DEF Range
<1> HIDE DEF bases
<1> QED
  BY <1>2, <1>3

(* The same directories have files among those it searches: it finds the   *)
(* same one.                                                               *)
LEMMA SameDirectory ==
    ASSUME TypeOK, Standing, Standing',
           UNCHANGED <<writable, env, cwd>>,
           \A dir \in Dirs \cap Searched : HasArtifacts(dir)' <=> HasArtifacts(dir)
    PROVE  Directory' = Directory
<1>1. AppDir \in Bases /\ cwd \in Bases /\ env \in Dirs \cup {NoDir}
  BY BasesAssumption DEF TypeOK
<1>2. ASSUME NEW base \in Bases, Own(base) \in Searched, Data(base) \in Searched
      PROVE  /\ HasArtifacts(Data(base))' <=> HasArtifacts(Data(base))
             /\ Canonical(Own(base))' = Canonical(Own(base))
             /\ Canonical(Data(base))' = Canonical(Data(base))
  <2>1. Own(base)[1] = base /\ Own(base)[2] = "" /\ Data(base)[2] = "data" /\ "" # "data"
    BY DirsAre
  <2>2. /\ HasArtifacts(Own(base))' <=> HasArtifacts(Own(base))
        /\ HasArtifacts(Data(base))' <=> HasArtifacts(Data(base))
    BY <1>2, DirsAre
  <2>3. Own(base) \in made /\ Own(base) \in made'
    BY DEF Standing
  <2>4. Canonical(Own(base))' = Canonical(Own(base))
    BY <2>1, <2>2, <2>3 DEF Canonical
  <2>5. Canonical(Data(base))' = Canonical(Data(base))
    BY <2>1, <2>2 DEF Canonical, HasArtifacts
  <2> QED
    BY <2>2, <2>4, <2>5
<1>3. ASSUME NEW base \in {AppDir, cwd} PROVE SearchParents(base)' = SearchParents(base)
  <2>1. \A i \in DOMAIN Path[base] : Match(Path[base][i])' = Match(Path[base][i])
    BY <1>1, <1>2, PathIs, SearchedIs DEF Match
  <2>2. Matched(base)' = Matched(base)
    BY <2>1 DEF Matched
  <2> QED
    BY <2>2 DEF SearchParents, Matched
<1>4. ASSUME NEW i PROVE Explicit(i)' = Explicit(i)
  <2>1. CASE i \in DOMAIN Path[AppDir]
    BY <1>1, <1>2, <2>1, PathIs, SearchedIs DEF Explicit
  <2>2. CASE i \notin DOMAIN Path[AppDir]
    BY <2>2 DEF Explicit
  <2> QED
    BY <2>1, <2>2
<1>5. env # NoDir => Canonical(env)' = Canonical(env)
  <2> HAVE env # NoDir
  <2>1. PICK base \in Bases : env = Own(base) \/ env = Data(base)
    BY <1>1, DirsAre
  <2> QED
    BY <1>2, <2>1, SearchedIs
<1>6. Candidates' = Candidates
  BY <1>3, <1>4, <1>5 DEF Candidates
<1>7. Found' = Found
  BY <1>6 DEF Found
<1> QED
  BY <1>6, <1>7 DEF Directory, Fallback

(* The directory of its own that the client fell back to gets files: it is *)
(* the one it finds, or nothing finds it and the client falls back again.  *)
LEMMA OwnDirectoryFilled ==
    ASSUME TypeOK, Standing, TypeOK', Standing',
           UNCHANGED <<made, writable, env, cwd>>,
           NEW home0 \in Bases, Directory = Own(home0),
           Found = NoDir, Own(home0) \in writable, HasArtifacts(Own(home0))',
           \A dir \in Dirs \ {Own(home0)} : HasArtifacts(dir)' <=> HasArtifacts(dir)
    PROVE  Directory' = Directory
<1> DEFINE F == Own(home0)
<1>2. Directory = F /\ F \in Dirs /\ F \in made /\ F \in writable
  BY DirectoryIs
<1>3. AppDir \in Bases /\ cwd \in Bases /\ env \in Dirs \cup {NoDir} /\ NoDir \notin Dirs
  BY BasesAssumption DEF TypeOK
<1>4. \A base \in Bases : Data(base) # F /\ (base # home0 => Own(base) # F)
  BY DirsAre
<1>5. \A base \in Bases : HasArtifacts(Data(base))' <=> HasArtifacts(Data(base))
  BY <1>4, DirsAre
<1>6. HasArtifacts(F)'
  OBVIOUS
<1>7. ASSUME NEW base \in Bases
      PROVE  /\ base # home0 => Canonical(Own(base))' = Canonical(Own(base))
             /\ Canonical(Own(home0))' = F
             /\ Canonical(Data(base))' = Canonical(Data(base))
  <2>1. Own(base)[1] = base /\ Own(base)[2] = "" /\ Data(base)[2] = "data" /\ "" # "data"
    BY DirsAre
  <2>2. Own(base) \in Dirs
    BY DirsAre
  <2>3. Canonical(Own(home0))' = F
    BY <1>2, <1>6 DEF Canonical
  <2>4. base # home0 => (HasArtifacts(Own(base))' <=> HasArtifacts(Own(base)))
    BY <1>2, <1>4, <2>2
  <2>5. base # home0 => Canonical(Own(base))' = Canonical(Own(base))
    BY <1>5, <2>1, <2>4 DEF Canonical
  <2>6. Canonical(Data(base))' = Canonical(Data(base))
    BY <1>5, <2>1 DEF Canonical
  <2> QED
    BY <2>3, <2>5, <2>6
<1> HIDE DEF F
<1>8. ASSUME NEW base \in Bases
      PROVE  SearchParents(base)' = SearchParents(base) \/ SearchParents(base)' = F
  <2> DEFINE n == Len(Path[base])
             old == Matched(base)
             new == Matched(base)'
  <2>1. /\ SearchParents(base) = First(old) /\ SearchParents(base)' = First(new)
        /\ DOMAIN old = 1..n /\ DOMAIN new = 1..n /\ n \in Nat
    BY PathIs DEF SearchParents, Matched
  <2>2. ASSUME NEW i \in 1..n PROVE new[i] = old[i] \/ new[i] = F
    <3>1. Path[base][i] \in Bases
      BY PathIs
    <3> QED
      BY <1>7, <2>1, <3>1 DEF Matched, Match
  <2>3. NoDir # F
    BY <1>2, <1>3
  <2> HIDE DEF n, old, new
  <2>4. CASE First(new) = NoDir
    <3>1. \A i \in 1..n : new[i] = NoDir
      BY <2>1, <2>4, FirstIs
    <3>2. \A i \in 1..n : old[i] = NoDir
      BY <2>2, <2>3, <3>1
    <3>3. First(old) = NoDir
      BY <2>1, <3>2, FirstIs
    <3> QED
      BY <2>1, <2>4, <3>3
  <2>5. CASE First(new) # NoDir /\ First(new) # F
    <3>1. PICK i \in 1..n : First(new) = new[i] /\ \A j \in 1..n : j < i => new[j] = NoDir
      BY <2>1, <2>5, FirstIs
    <3>2. old[i] = new[i] /\ \A j \in 1..n : j < i => old[j] = NoDir
      BY <2>2, <2>3, <2>5, <3>1
    <3>3. First(old) # NoDir
      BY <2>1, <2>5, <3>1, <3>2, FirstIs
    <3>4. PICK k \in 1..n : First(old) = old[k] /\ \A j \in 1..n : j < k => old[j] = NoDir
      BY <2>1, <3>3, FirstIs
    <3>5. ~(k < i) /\ ~(i < k)
      BY <2>5, <3>1, <3>2, <3>3, <3>4
    <3>6. k = i
      BY <2>1, <3>5
    <3> QED
      BY <2>1, <3>1, <3>2, <3>4, <3>6
  <2> QED
    BY <2>1, <2>4, <2>5
<1>9. ASSUME NEW i PROVE Explicit(i)' = Explicit(i)
  <2>1. CASE i \in DOMAIN Path[AppDir]
    <3>1. Path[AppDir][i] \in Bases
      BY <1>3, <2>1, PathIs
    <3> QED
      BY <1>5, <2>1, <3>1 DEF Explicit
  <2>2. CASE i \notin DOMAIN Path[AppDir]
    BY <2>2 DEF Explicit
  <2> QED
    BY <2>1, <2>2
<1>10. env # NoDir => Canonical(env)' = Canonical(env) \/ Canonical(env)' = F
  <2> HAVE env # NoDir
  <2>1. PICK base \in Bases : env = Own(base) \/ env = Data(base)
    BY <1>3, DirsAre
  <2> QED
    BY <1>7, <2>1
<1>11. \A i \in 1..6 : Candidates'[i] = Candidates[i] \/ Candidates'[i] = F
  <2>1. /\ Candidates[1] = IF env = NoDir THEN NoDir ELSE Canonical(env)
        /\ Candidates[2] = Explicit(1) /\ Candidates[3] = Explicit(2) /\ Candidates[4] = Explicit(3)
        /\ Candidates[5] = SearchParents(AppDir) /\ Candidates[6] = SearchParents(cwd)
    BY DEF Candidates
  <2>2. /\ Candidates'[1] = IF env = NoDir THEN NoDir ELSE Canonical(env)'
        /\ Candidates'[2] = Explicit(1)' /\ Candidates'[3] = Explicit(2)'
        /\ Candidates'[4] = Explicit(3)'
        /\ Candidates'[5] = SearchParents(AppDir)' /\ Candidates'[6] = SearchParents(cwd)'
    BY DEF Candidates
  <2> QED
    BY <1>3, <1>8, <1>9, <1>10, <2>1, <2>2
<1>12. CASE Found' = NoDir
  BY <1>12 DEF Directory, Fallback
<1>13. CASE Found' # NoDir
  <2>1. Found' = First(Usable') /\ DOMAIN Usable' = 1..6
    BY DEF Found, Usable, Candidates
  <2>2. PICK i \in 1..6 : Found' = Usable'[i]
    BY <1>13, <2>1, FirstIs
  <2>3. Usable'[i] = IF Candidates'[i] \in writable THEN Candidates'[i] ELSE NoDir
    BY <2>1 DEF Usable
  <2>4. Candidates'[i] \in writable /\ Found' = Candidates'[i]
    BY <1>13, <2>2, <2>3
  <2>5. Candidates[i] \notin writable
    BY DirectoryIs
  <2>6. Found' = F
    BY <1>11, <2>4, <2>5
  <2> QED
    BY <1>2, <1>13, <2>6 DEF Directory
<1> QED
  BY <1>12, <1>13

(* What is copied on the way goes to a directory of the client's own.      *)
LEMMA CarriedIs ==
    ASSUME TypeOK, Standing
    PROVE  /\ Carried \in [Dirs -> [Artifacts -> {"none", "client", "server"}]]
           /\ Found # NoDir => Carried = files
           /\ \A dir \in Dirs \ {Directory} : Carried[dir] = files[dir]
           /\ \A a \in Artifacts : files[Directory][a] # "none" => Carried[Directory][a] = files[Directory][a]
           /\ Carried = files \/ (Found = NoDir /\ Directory \in writable)
<1>1. files \in [Dirs -> [Artifacts -> {"none", "client", "server"}]] /\ NoDir \notin Dirs
  BY BasesAssumption DEF TypeOK
<1>2. CASE Found # NoDir \/ Fallback = NoDir \/ LastMatch = NoDir
  BY <1>1, <1>2 DEF Carried
<1>3. CASE Found = NoDir /\ Fallback # NoDir /\ LastMatch # NoDir
  <2>1. Directory = Fallback /\ Fallback \in Dirs /\ Fallback \in writable
    BY <1>3, DirectoryIs DEF Fallback
  <2>2. LastMatch \in Dirs
    <3> DEFINE hits == {i \in DOMAIN Candidates : Candidates[i] # NoDir}
    <3>1. LastMatch = IF hits = {} THEN NoDir ELSE Candidates[Max(hits)]
      BY DEF LastMatch
    <3>2. hits \in SUBSET (0..6) /\ 6 \in Nat
      BY CandidatesHave
    <3>3. hits # {} /\ (hits # {} => Max(hits) \in hits)
      <4>1. hits # {}
        BY <1>3, <3>1
      <4> HIDE DEF hits
      <4> QED
        BY <3>2, <4>1, MaxIs
    <3> QED
      BY <3>1, <3>3, CandidatesHave
  <2> DEFINE copied == [a \in Artifacts |-> IF files[Fallback][a] = "none" THEN files[LastMatch][a]
                                            ELSE files[Fallback][a]]
  <2>3. Carried = [files EXCEPT ![Fallback] = copied]
    BY <1>1, <1>3, <2>1 DEF Carried
  <2>4. copied \in [Artifacts -> {"none", "client", "server"}]
    BY <1>1, <2>1, <2>2
  <2>5. \A a \in Artifacts : files[Fallback][a] # "none" => copied[a] = files[Fallback][a]
    OBVIOUS
  <2> HIDE DEF copied
  <2> QED
    BY <1>1, <1>3, <2>1, <2>3, <2>4, <2>5
<1> QED
  BY <1>2, <1>3

-------------------------------------------------------------------------------
(* Where the server looks.                                                 *)
LEMMA HighestIs ==
    ASSUME NEW dirs, NEW otherwise
    PROVE  LET up == Path[ServerDir]
               hits == {i \in DOMAIN up : Data(up[i]) \in dirs}
           IN  /\ hits = {} => Highest(dirs, otherwise) = otherwise
               /\ hits # {} => \E i \in hits : /\ Highest(dirs, otherwise) = Data(up[i])
                                              /\ \A j \in hits : j <= i
<1> DEFINE up == Path[ServerDir]
           hits == {i \in DOMAIN up : Data(up[i]) \in dirs}
<1>1. Highest(dirs, otherwise) = IF hits = {} THEN otherwise ELSE Data(up[Max(hits)])
  BY DEF Highest
<1>2. Len(up) \in Nat /\ hits \in SUBSET (0..Len(up))
  BY BasesAssumption, PathIs
<1>3. hits # {} => Max(hits) \in hits /\ \A j \in hits : j <= Max(hits)
  <2> HIDE DEF hits
  <2> QED
    BY <1>2, MaxIs
<1> HIDE DEF hits
<1>4. hits # {} => \E i \in hits : /\ Highest(dirs, otherwise) = Data(up[i])
                                   /\ \A j \in hits : j <= i
  BY <1>1, <1>3
<1> QED
  BY <1>1, <1>4 DEF hits

(* A file that is nowhere is made in a "data" on the way up.               *)
LEMMA CreateAtIs ==
    \E i \in DOMAIN Path[ServerDir] : CreateAt = Data(Path[ServerDir][i])
<1>1. 1 \in DOMAIN Path[ServerDir] /\ Path[ServerDir][1] = ServerDir
  BY BasesAssumption, PathIs
<1> QED
  BY <1>1, HighestIs DEF CreateAt

(* Directories with this file.                                             *)
With(a) == {dir \in Dirs : files[dir][a] # "none"}

(* The highest directory with the file, if there is one.                   *)
LEMMA ServerPathIs ==
    ASSUME NEW a \in Artifacts
    PROVE  /\ \E i \in DOMAIN Path[ServerDir] : ServerPath(a) = Data(Path[ServerDir][i])
           /\ \A k \in DOMAIN Path[ServerDir] : Data(Path[ServerDir][k]) \in With(a) =>
                 \E i \in DOMAIN Path[ServerDir] :
                    /\ ServerPath(a) = Data(Path[ServerDir][i])
                    /\ Data(Path[ServerDir][i]) \in With(a)
                    /\ \A j \in DOMAIN Path[ServerDir] :
                          Data(Path[ServerDir][j]) \in With(a) => j <= i
<1>1. ServerPath(a) = Highest(With(a), CreateAt)
  BY DEF ServerPath, With
<1> HIDE DEF With
<1> QED
  BY <1>1, HighestIs, CreateAtIs

(* With the file in a directory, and in none above it, that is the         *)
(* server's (also in the next state).                                      *)
LEMMA ServerPathAt ==
    ASSUME NEW dirs, NEW otherwise, NEW i \in DOMAIN Path[ServerDir],
           Data(Path[ServerDir][i]) \in dirs,
           \A j \in DOMAIN Path[ServerDir] :
              Data(Path[ServerDir][j]) \in dirs => \/ j <= i
                                                 \/ Data(Path[ServerDir][j]) = Data(Path[ServerDir][i])
    PROVE  Highest(dirs, otherwise) = Data(Path[ServerDir][i])
<1>1. PICK m \in DOMAIN Path[ServerDir] :
        /\ Highest(dirs, otherwise) = Data(Path[ServerDir][m])
        /\ Data(Path[ServerDir][m]) \in dirs
        /\ i <= m
  BY HighestIs
<1>2. CASE m <= i
  <2>1. Len(Path[ServerDir]) \in Nat /\ DOMAIN Path[ServerDir] = 1..Len(Path[ServerDir])
    BY BasesAssumption, PathIs
  <2>2. m = i
    BY <1>1, <1>2, <2>1
  <2> QED
    BY <1>1, <2>2
<1>3. CASE ~(m <= i)
  BY <1>1, <1>3
<1> QED
  BY <1>2, <1>3

-------------------------------------------------------------------------------
(* The client.                                                             *)

LEMMA HasArtifactsIs ==
    ASSUME Standing, NEW dir \in Dirs
    PROVE  HasArtifacts(dir) <=> \E a \in Artifacts : files[dir][a] # "none"
BY DEF HasArtifacts, Standing

(* The client makes no file in a "data" that has none: the server's files  *)
(* stay where they are, and nothing comes to lie above them.               *)
LEMMA ClientKeepsServer ==
    ASSUME IInv, TypeOK', UNCHANGED <<made, home>>,
           \A dir \in Dirs : \A a \in Artifacts : files[dir][a] # "none" => files'[dir][a] # "none",
           \A base \in Bases : \A a \in Artifacts : files'[Data(base)][a] # "none" =>
               \E b \in Artifacts : files[Data(base)][b] # "none",
           \A dir \in Dirs : \A a \in Artifacts : files'[dir][a] # "none" => dir \in made
    PROVE  Standing' /\ AtHome' /\ ServerFindsItsFiles'
<1>1. Standing'
  BY DEF IInv, Standing
<1>2. AtHome'
  BY DEF IInv, AtHome, TypeOK
<1>3. \A i \in DOMAIN Path[ServerDir] : /\ Path[ServerDir][i] \in Bases
                                        /\ Data(Path[ServerDir][i]) \in Dirs
  BY BasesAssumption, PathIs, DirsAre
<1>4. ASSUME NEW h \in Dirs, \A a \in Artifacts : home[a] = h,
             NEW a \in Artifacts
      PROVE  ServerPath(a)' = h
  <2>1. \A b \in Artifacts : ServerPath(b) = h /\ h \in With(b)
    <3>1. h # NoDir
      BY BasesAssumption
    <3> QED
      BY <1>4, <3>1 DEF IInv, ServerFindsItsFiles, AtHome, With
  <2>2. \A b \in Artifacts : With(b) \subseteq With(b)'
    BY DEF With
  <2>3. \A j \in DOMAIN Path[ServerDir] : Data(Path[ServerDir][j]) \in With(a)' =>
           \E b \in Artifacts : Data(Path[ServerDir][j]) \in With(b)
    BY <1>3 DEF With
  <2>4. PICK i \in DOMAIN Path[ServerDir] :
           /\ h = Data(Path[ServerDir][i])
           /\ \A j \in DOMAIN Path[ServerDir] : Data(Path[ServerDir][j]) \in With(a) => j <= i
    BY <2>1, ServerPathIs
  <2>5. ASSUME NEW j \in DOMAIN Path[ServerDir], Data(Path[ServerDir][j]) \in With(a)'
        PROVE  j <= i \/ Data(Path[ServerDir][j]) = Data(Path[ServerDir][i])
    <3>1. PICK b \in Artifacts : Data(Path[ServerDir][j]) \in With(b)
      BY <2>3, <2>5
    <3>2. PICK k \in DOMAIN Path[ServerDir] :
             /\ h = Data(Path[ServerDir][k])
             /\ \A l \in DOMAIN Path[ServerDir] : Data(Path[ServerDir][l]) \in With(b) => l <= k
      BY <2>1, <3>1, ServerPathIs
    <3>3. j <= k
      BY <3>1, <3>2
    <3>4. Data(Path[ServerDir][k]) \in With(a)
      BY <2>1, <3>2
    <3>5. k <= i
      BY <2>4, <3>4
    <3>6. Len(Path[ServerDir]) \in Nat /\ DOMAIN Path[ServerDir] = 1..Len(Path[ServerDir])
      BY BasesAssumption, PathIs
    <3>7. i \in Nat /\ j \in Nat /\ k \in Nat
      BY <3>6
    <3>8. j <= i
      BY <3>3, <3>5, <3>7
    <3> QED
      BY <3>8
  <2>6. h \in With(a)'
    BY <2>1, <2>2
  <2>7. Highest(With(a)', CreateAt') = h
    BY <2>4, <2>5, <2>6, ServerPathAt
  <2>8. ServerPath(a)' = Highest(With(a)', CreateAt')
    BY DEF ServerPath, With, Highest, CreateAt
  <2> QED
    BY <2>7, <2>8
<1>5. ServerFindsItsFiles'
  BY <1>4 DEF ServerFindsItsFiles
<1> QED
  BY <1>1, <1>2, <1>5

(* The client has looked, and written files or not.                        *)
LEMMA ResolvedInv ==
    ASSUME IInv, NEW result, Resolve(Directory, result),
           result \in [Dirs -> [Artifacts -> {"none", "client", "server"}]],
           \A dir \in Dirs \ {Directory} : result[dir] = files[dir],
           \A a \in Artifacts : files[Directory][a] # "none" => result[Directory][a] # "none",
           result = files \/ Directory \in writable,
           saved' \subseteq Artifacts,
           \A a \in saved' : result[Directory][a] = "client"
    PROVE  IInv'
<1>1. files' = result /\ made' = made \cup {Directory} /\ UNCHANGED <<writable, env, cwd, home>>
  BY DEF Resolve, layout
<1>2. Directory \in Dirs /\ Directory \in made /\ TypeOK /\ Standing
  BY DirectoryIs DEF IInv
<1>3. made' = made
  BY <1>1, <1>2
<1>4. TypeOK'
  BY <1>1, <1>3 DEF IInv, TypeOK
<1>5. \A dir \in Dirs : \A a \in Artifacts : files[dir][a] # "none" => files'[dir][a] # "none"
  BY <1>1
<1>6. \A dir \in Dirs : \A a \in Artifacts : files'[dir][a] # "none" => dir \in made
  BY <1>1, <1>2 DEF Standing
<1>7. \A base \in Bases : \A a \in Artifacts :
         files'[Data(base)][a] # "none" => \E b \in Artifacts : files[Data(base)][b] # "none"
  <2> SUFFICES ASSUME NEW base \in Bases, Data(base) = Directory
               PROVE  \E b \in Artifacts : files[Data(base)][b] # "none"
    BY <1>1, DirsAre
  <2>1. Found # NoDir
    BY <1>2, DirectoryIs, DirsAre
  <2>2. HasArtifacts(Data(base))
    BY <1>2, <2>1, DirectoryIs
  <2> QED
    BY <2>2 DEF HasArtifacts
<1>8. Standing' /\ AtHome' /\ ServerFindsItsFiles'
  BY <1>1, <1>3, <1>4, <1>5, <1>6, <1>7, ClientKeepsServer
<1>9. Directory' = Directory
  <2>1. PICK D : D = Directory
    OBVIOUS
  <2>2. \A dir \in Dirs : HasArtifacts(dir)' <=> \E a \in Artifacts : files'[dir][a] # "none"
    BY <1>3, <1>6 DEF HasArtifacts
  <2>3. \A dir \in Dirs \ {D} : HasArtifacts(dir)' <=> HasArtifacts(dir)
    BY <1>1, <1>2, <2>1, <2>2, HasArtifactsIs
  <2>4. HasArtifacts(D) => HasArtifacts(D)'
    BY <1>2, <1>5, <2>1, <2>2, HasArtifactsIs
  <2>5. CASE HasArtifacts(D)' <=> HasArtifacts(D)
    <3>1. \A dir \in Dirs : HasArtifacts(dir)' <=> HasArtifacts(dir)
      BY <2>3, <2>5
    <3> QED
      BY <1>1, <1>2, <1>8, <3>1, SameDirectory
  <2>6. CASE HasArtifacts(D)' /\ ~HasArtifacts(D)
    <3>1. Found = NoDir
      BY <1>2, <2>1, <2>6, DirectoryIs
    <3>2. result # files
      BY <1>1, <1>2, <2>1, <2>2, <2>6, HasArtifactsIs
    <3>3. PICK base \in Bases : Directory = Own(base)
      BY <1>2, <3>1, DirectoryIs
    <3>4. Own(base) \in writable /\ D = Own(base)
      BY <2>1, <3>2, <3>3
    <3>5. HasArtifacts(Own(base))'
      BY <2>6, <3>4
    <3> QED
      BY <1>1, <1>2, <1>3, <1>4, <1>8, <2>3, <3>1, <3>3, <3>4, <3>5, OwnDirectoryFilled
  <2> QED
    BY <2>4, <2>5, <2>6
<1>10. FindsWhatItSaved'
  BY <1>1, <1>9 DEF FindsWhatItSaved
<1> QED
  BY <1>4, <1>8, <1>10 DEF IInv

LEMMA LookInv ==
    ASSUME IInv, Look
    PROVE  IInv'
<1>1. Resolve(Directory, Carried) /\ saved' = saved /\ TypeOK /\ Standing
  BY DEF Look, IInv
<1>2. saved \subseteq Artifacts /\ \A a \in saved : files[Directory][a] = "client"
  BY DEF IInv, TypeOK, FindsWhatItSaved
<1>3. \A a \in saved : Carried[Directory][a] = "client"
  BY <1>1, <1>2, CarriedIs
<1>4. \A a \in Artifacts : files[Directory][a] # "none" => Carried[Directory][a] # "none"
  BY <1>1, CarriedIs
<1> QED
  BY <1>1, <1>2, <1>3, <1>4, CarriedIs, ResolvedInv

LEMMA ClientWritesInv ==
    ASSUME IInv, NEW a \in Artifacts, ClientWrites(a)
    PROVE  IInv'
<1> DEFINE result == [Carried EXCEPT ![Directory][a] = "client"]
<1>1. Directory \in writable /\ Resolve(Directory, result) /\ saved' = saved \cup {a} /\ TypeOK /\ Standing
  BY DEF ClientWrites, IInv
<1>2. /\ saved \subseteq Artifacts /\ \A b \in saved : files[Directory][b] = "client"
      /\ Directory \in Dirs
  BY <1>1, DirectoryIs DEF IInv, TypeOK, FindsWhatItSaved
<1>3. /\ Carried \in [Dirs -> [Artifacts -> {"none", "client", "server"}]]
      /\ \A dir \in Dirs \ {Directory} : Carried[dir] = files[dir]
      /\ \A b \in Artifacts : files[Directory][b] # "none" => Carried[Directory][b] = files[Directory][b]
  BY <1>1, CarriedIs
<1>4. /\ result \in [Dirs -> [Artifacts -> {"none", "client", "server"}]]
      /\ \A dir \in Dirs \ {Directory} : result[dir] = Carried[dir]
      /\ result[Directory][a] = "client"
      /\ \A b \in Artifacts : b # a => result[Directory][b] = Carried[Directory][b]
  BY <1>2, <1>3
<1> HIDE DEF result
<1>5. \A b \in Artifacts : files[Directory][b] # "none" => result[Directory][b] # "none"
  BY <1>3, <1>4
<1>6. \A b \in saved' : result[Directory][b] = "client"
  BY <1>1, <1>2, <1>3, <1>4
<1>7. saved' \subseteq Artifacts /\ \A dir \in Dirs \ {Directory} : result[dir] = files[dir]
  BY <1>1, <1>2, <1>3, <1>4
<1> QED
  BY <1>1, <1>4, <1>5, <1>6, <1>7, ResolvedInv

-------------------------------------------------------------------------------
(* The server.                                                             *)

LEMMA ServerStartsInv ==
    ASSUME IInv, ServerStarts
    PROVE  IInv'
<1> DEFINE at == [a \in Artifacts |-> ServerPath(a)]
           moved == \E a \in Artifacts : files[at[a]][a] = "none" /\ at[a] \in Searched \ {Directory}
<1>1. /\ home' = at
      /\ made' = made \cup {at[a] : a \in Artifacts} \cup {Data(ServerDir)}
      /\ files' = [dir \in Dirs |-> [a \in Artifacts |->
                     IF at[a] = dir THEN "server" ELSE files[dir][a]]]
      /\ saved' = IF moved THEN {} ELSE {a \in saved : at[a] # Directory}
      /\ UNCHANGED <<writable, env, cwd>>
  BY DEF ServerStarts, layout
<1>2. /\ TypeOK /\ Standing /\ AtHome
      /\ files \in [Dirs -> [Artifacts -> {"none", "client", "server"}]]
      /\ made \subseteq Dirs /\ saved \subseteq Artifacts
  BY DEF IInv, TypeOK
<1>3. \A i \in DOMAIN Path[ServerDir] : /\ Path[ServerDir][i] \in Bases
                                        /\ Data(Path[ServerDir][i]) \in Dirs
  BY BasesAssumption, PathIs, DirsAre
<1>4. \A a \in Artifacts : /\ at[a] = ServerPath(a) /\ at[a] \in Dirs
                           /\ \E base \in Bases : at[a] = Data(base)
  BY <1>3, ServerPathIs
<1>5. Data(ServerDir) \in Dirs
  BY BasesAssumption, DirsAre
<1>6. at \in [Artifacts -> Dirs]
  BY <1>4
<1> HIDE DEF at
<1>7. /\ files' \in [Dirs -> [Artifacts -> {"none", "client", "server"}]]
      /\ \A dir \in Dirs : \A a \in Artifacts :
            files'[dir][a] # "none" <=> (dir = at[a] \/ files[dir][a] # "none")
  BY <1>1, <1>2
<1>8. TypeOK'
  <2>1. made' \subseteq Dirs /\ saved' \subseteq Artifacts /\ home' \in [Artifacts -> Dirs \cup {NoDir}]
    BY <1>1, <1>2, <1>5, <1>6
  <2> QED
    BY <1>1, <1>2, <1>7, <2>1 DEF TypeOK
<1>9. Standing'
  BY <1>1, <1>2, <1>7 DEF Standing
<1>10. AtHome'
  BY <1>1, <1>6, <1>7 DEF AtHome
<1>11. ASSUME NEW h \in Dirs, NEW a \in Artifacts, at[a] = h
       PROVE  ServerPath(a)' = h
  <2>1. With(a)' = With(a) \cup {h}
    BY <1>7, <1>11 DEF With
  <2>2. PICK i \in DOMAIN Path[ServerDir] :
           /\ h = Data(Path[ServerDir][i])
           /\ \A j \in DOMAIN Path[ServerDir] : Data(Path[ServerDir][j]) \in With(a) => j <= i
    BY <1>4, <1>11, ServerPathIs
  <2>3. Highest(With(a)', CreateAt') = h
    BY <2>1, <2>2, ServerPathAt
  <2>4. ServerPath(a)' = Highest(With(a)', CreateAt')
    BY DEF ServerPath, With, Highest, CreateAt
  <2> QED
    BY <2>3, <2>4
<1>12. ServerFindsItsFiles'
  BY <1>1, <1>11 DEF ServerFindsItsFiles
<1>13. FindsWhatItSaved'
  <2> SUFFICES ASSUME NEW a \in saved', ~moved, a \in saved, at[a] # Directory
               PROVE  files'[Directory'][a] = "client"
    BY <1>1 DEF FindsWhatItSaved
  <2>1. \A dir \in Dirs : HasArtifacts(dir)' <=> \E b \in Artifacts : files'[dir][b] # "none"
    BY <1>9 DEF HasArtifacts, Standing
  <2>2. ASSUME NEW dir \in Dirs \cap Searched PROVE HasArtifacts(dir)' <=> HasArtifacts(dir)
    <3>1. HasArtifacts(dir) => HasArtifacts(dir)'
      BY <1>2, <1>7, <2>1, HasArtifactsIs
    <3>2. ASSUME HasArtifacts(dir)', ~HasArtifacts(dir) PROVE FALSE
      <4>1. PICK b \in Artifacts : files[dir][b] = "none" /\ dir = at[b]
        BY <1>2, <1>7, <2>1, <3>2, HasArtifactsIs
      <4>2. dir = Directory
        BY <4>1 DEF moved
      <4>3. \E base \in Bases : Directory = Data(base)
        BY <1>4, <4>1, <4>2
      <4>4. Found # NoDir
        BY <1>2, <4>3, DirectoryIs, DirsAre
      <4> QED
        BY <1>2, <3>2, <4>2, <4>4, DirectoryIs
    <3> QED
      BY <3>1, <3>2
  <2>3. Directory' = Directory
    BY <1>1, <1>2, <1>9, <2>2, SameDirectory
  <2>4. files[Directory][a] = "client" /\ Directory \in Dirs
    BY <1>2, DirectoryIs DEF IInv, FindsWhatItSaved
  <2> QED
    BY <1>1, <1>2, <2>3, <2>4
<1> QED
  BY <1>8, <1>9, <1>10, <1>12, <1>13 DEF IInv

LEMMA ServerWritesInv ==
    ASSUME IInv, NEW a \in Artifacts, ServerWrites(a)
    PROVE  IInv'
<1>1. /\ home[a] # NoDir /\ files' = [files EXCEPT ![home[a]][a] = "server"]
      /\ saved' = IF home[a] = Directory THEN saved \ {a} ELSE saved
      /\ UNCHANGED <<made, writable, env, cwd, home>>
  BY DEF ServerWrites, layout
<1>2. /\ TypeOK /\ Standing /\ AtHome
      /\ files \in [Dirs -> [Artifacts -> {"none", "client", "server"}]]
      /\ home[a] \in Dirs /\ files[home[a]][a] # "none"
  BY <1>1 DEF IInv, TypeOK, AtHome
<1>3. /\ files' \in [Dirs -> [Artifacts -> {"none", "client", "server"}]]
      /\ \A dir \in Dirs : \A b \in Artifacts : files'[dir][b] # "none" <=> files[dir][b] # "none"
      /\ \A dir \in Dirs : \A b \in Artifacts :
            b # a \/ dir # home[a] => files'[dir][b] = files[dir][b]
  BY <1>1, <1>2
<1>4. TypeOK'
  BY <1>1, <1>2, <1>3 DEF TypeOK
<1>5. Standing' /\ AtHome' /\ ServerFindsItsFiles'
  <2>1. \A dir \in Dirs : \A b \in Artifacts : files'[dir][b] # "none" => dir \in made
    BY <1>2, <1>3 DEF Standing
  <2> QED
    BY <1>1, <1>3, <1>4, <2>1, DirsAre, ClientKeepsServer
<1>6. Directory' = Directory
  <2>1. \A dir \in Dirs : HasArtifacts(dir)' <=> HasArtifacts(dir)
    BY <1>1, <1>3 DEF HasArtifacts
  <2> QED
    BY <1>1, <1>2, <1>5, <2>1, SameDirectory
<1>7. FindsWhatItSaved'
  <2>1. Directory \in Dirs /\ saved \subseteq Artifacts
    BY <1>2, DirectoryIs DEF TypeOK
  <2>2. \A b \in saved : files[Directory][b] = "client"
    BY DEF IInv, FindsWhatItSaved
  <2> QED
    BY <1>1, <1>3, <1>6, <2>1, <2>2 DEF FindsWhatItSaved
<1> QED
  BY <1>4, <1>5, <1>7 DEF IInv

-------------------------------------------------------------------------------
(* The client is started differently.                                      *)

LEMMA StartsDifferentlyInv ==
    ASSUME IInv, StartsDifferently
    PROVE  IInv'
<1>1. /\ saved' = {} /\ UNCHANGED <<files, made, home>>
      /\ writable' \subseteq Dirs /\ env' \in Dirs \cup {NoDir} /\ cwd' \in Bases
  <2>1. /\ \A dirs \in Permissions : dirs \subseteq Dirs
        /\ Envs \subseteq Dirs \cup {NoDir} /\ Cwds \subseteq Bases
    BY BasesAssumption DEF Permissions
  <2>2. writable \subseteq Dirs /\ env \in Dirs \cup {NoDir} /\ cwd \in Bases
    BY DEF IInv, TypeOK
  <2> QED
    BY <2>1, <2>2 DEF StartsDifferently
<1>2. TypeOK' /\ Standing' /\ AtHome' /\ FindsWhatItSaved'
  BY <1>1 DEF IInv, TypeOK, Standing, AtHome, FindsWhatItSaved
<1>3. \A a \in Artifacts : ServerPath(a)' = ServerPath(a)
  BY <1>1 DEF ServerPath, Highest, CreateAt
<1>4. ServerFindsItsFiles'
  BY <1>1, <1>3 DEF IInv, ServerFindsItsFiles
<1> QED
  BY <1>2, <1>4 DEF IInv

-------------------------------------------------------------------------------
(* The invariant and what it says.                                         *)

LEMMA InvInit ==
    ASSUME Init
    PROVE  IInv
<1>1. PICK there \in SUBSET DataDirs : made = {Own(base) : base \in Bases} \cup there
  BY DEF Init
<1>2. PICK packaged \in SUBSET ((made \cap Packaged) \X Artifacts) :
         files = [dir \in Dirs |-> [a \in Artifacts |->
                    IF <<dir, a>> \in packaged THEN "server" ELSE "none"]]
  BY DEF Init
<1>3. \A base \in Bases : Own(base) \in {Own(b) : b \in Bases}
  OBVIOUS
<1>4. {Own(base) : base \in Bases} \subseteq Dirs
  BY DEF Dirs
<1>5. DataDirs \subseteq Dirs /\ Envs \subseteq Dirs \cup {NoDir} /\ Cwds \subseteq Bases
  BY BasesAssumption
<1>6. made \subseteq Dirs
  BY <1>1, <1>4, <1>5
<1>7. files \in [Dirs -> [Artifacts -> {"none", "client", "server"}]]
  BY <1>2
<1>8. TypeOK
  BY <1>5, <1>6, <1>7 DEF Init, Permissions, TypeOK
<1>9. \A dir \in Dirs : \A a \in Artifacts : files[dir][a] # "none" => dir \in made
  BY <1>2
<1>10. Standing
  BY <1>1, <1>3, <1>9 DEF Standing
<1>11. AtHome /\ FindsWhatItSaved /\ ServerFindsItsFiles
  <2>1. saved = {} /\ \A a \in Artifacts : home[a] = NoDir
    BY DEF Init
  <2>2. "identity.db" \in Artifacts /\ NoDir \notin Dirs
    BY BasesAssumption DEF Artifacts
  <2> QED
    BY <2>1, <2>2 DEF AtHome, FindsWhatItSaved, ServerFindsItsFiles
<1> QED
  BY <1>8, <1>10, <1>11 DEF IInv

LEMMA InvNext ==
    ASSUME IInv, Next
    PROVE  IInv'
<1>1. CASE Look \/ ClientCannotWrite
  BY <1>1, LookInv DEF ClientCannotWrite
<1>2. CASE \E a \in Artifacts : ClientWrites(a)
  BY <1>2, ClientWritesInv
<1>3. CASE ServerStarts
  BY <1>3, ServerStartsInv
<1>4. CASE \E a \in Artifacts : ServerWrites(a)
  BY <1>4, ServerWritesInv
<1>5. CASE StartsDifferently
  BY <1>5, StartsDifferentlyInv
<1> QED
  BY <1>1, <1>2, <1>3, <1>4, <1>5 DEF Next

LEMMA InvStutter ==
    ASSUME IInv, UNCHANGED vars
    PROVE  IInv'
<1>1. UNCHANGED <<files, made, writable, env, cwd, home, saved>>
  BY DEF vars, layout
<1>2. TypeOK' /\ Standing' /\ AtHome'
  BY <1>1 DEF IInv, TypeOK, Standing, AtHome
<1>3. \A dir \in Dirs : HasArtifacts(dir)' <=> HasArtifacts(dir)
  BY <1>1 DEF HasArtifacts
<1>4. Directory' = Directory
  BY <1>1, <1>2, <1>3, SameDirectory DEF IInv
<1>5. FindsWhatItSaved'
  BY <1>1, <1>4 DEF IInv, FindsWhatItSaved
<1>6. \A a \in Artifacts : ServerPath(a)' = ServerPath(a)
  BY <1>1 DEF ServerPath, Highest, CreateAt
<1>7. ServerFindsItsFiles'
  BY <1>1, <1>6 DEF IInv, ServerFindsItsFiles
<1> QED
  BY <1>2, <1>5, <1>7 DEF IInv

(* Directories and files agree, whatever resolveDataDirectory and          *)
(* ResolveDataPath find and the two programs write, in any order.          *)
THEOREM Invariance == Spec => []IInv
<1>1. IInv /\ [Next]_vars => IInv'
  BY InvNext, InvStutter
<1> QED
  BY <1>1, InvInit, PTL DEF Spec

(* Every directory chosen is one of the tree.                              *)
THEOREM TypeCorrect == Spec => []TypeOK
BY Invariance, PTL DEF IInv

(* What persistCredentials and persistMessageHistory saved is where        *)
(* resolveDataDirectory leads next time, in every tree, until the client   *)
(* is started differently or the server overwrites it or creates a file in *)
(* another directory that is searched: the first file in a directory, and  *)
(* a copy of a read-only match, make the client find the directory it fell *)
(* back to, and no other.                                                  *)
THEOREM ClientFinds == Spec => []FindsWhatItSaved
BY Invariance, PTL DEF IInv

(* ResolveDataPath leads a server that is started again to the files it    *)
(* had, if they were in one directory: a "data" above them has no file,    *)
(* and the client makes none in a "data" that has none.                    *)
THEOREM ServerFinds == Spec => []ServerFindsItsFiles
BY Invariance, PTL DEF IInv
================================================================================
