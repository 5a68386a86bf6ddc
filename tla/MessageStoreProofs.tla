-------------------------- MODULE MessageStoreProofs --------------------------
(***************************************************************************)
(* Theorems about MessageStore for every set of messages, slots and keys,  *)
(* every bound, and a disk that may fail.                                  *)
(***************************************************************************)
EXTENDS MessageStore, TLAPS

Loaded == phase \in {"adopting", "up"}

(* Identifiers in the file are positions; a file that is not a snapshot    *)
(* holds nothing.                                                          *)
FileOK == /\ \A i \in DOMAIN disk.messages : disk.messages[i].id = i
          /\ disk.file # "snapshot" => disk = Blank(disk.file)
          /\ phase = "seedWrite" => disk.file = "empty"

(* Only a running store is called, and it has a key.                       *)
PhaseOK == /\ phase # "up" => call = Idle
           /\ phase # "down" => key \in Keys
           /\ phase = "adopting" => disk.fingerprint = NoKey
           /\ phase = "up" => disk.fingerprint = key
           /\ Loaded => keyFingerprint = key

(* Memory is the file, plus the one record a Save is writing.              *)
MemoryOK ==
    /\ ~Loaded => records = << >>
    /\ Loaded =>
        /\ nextID = Len(records)
        /\ call.op # "save" => records = disk.messages
        /\ call.op = "save" =>
              \E m \in Messages :
                  records = Append(disk.messages,
                                   [id |-> Len(disk.messages) + 1, msg |-> m])
        /\ call.op = "saved" => Len(records) > 0
        /\ \A s \in Slots : readMarkers[s] >= disk.markers[s]

IInv == TypeOK /\ FileOK /\ PhaseOK /\ MemoryOK /\ ToldIsDurable

-------------------------------------------------------------------------------
LEMMA MaxOfRange == ASSUME NEW n \in Nat PROVE Max(0..n) = n
<1>1. n \in 0..n /\ \A y \in 0..n : n >= y
  OBVIOUS
<1>2. \A x \in 0..n : (\A y \in 0..n : x >= y) => x = n
  <2>1. ASSUME NEW x \in 0..n, \A y \in 0..n : x >= y PROVE x = n
    <3>1. x >= n
      BY <2>1, <1>1
    <3> QED
      BY <3>1
  <2> QED
    BY <2>1
<1> QED
  BY <1>1, <1>2 DEF Max

(* On a file whose identifiers are positions, load's maxID is the number   *)
(* of messages.                                                            *)
LEMMA MaxIDIsLen ==
    ASSUME NEW msgs \in Seq(Record), \A i \in DOMAIN msgs : msgs[i].id = i
    PROVE  MaxID(msgs) = Len(msgs)
<1>1. DOMAIN msgs = 1..Len(msgs) /\ Len(msgs) \in Nat
  OBVIOUS
<1>2. {0} \cup {msgs[i].id : i \in DOMAIN msgs} = 0..Len(msgs)
  BY <1>1
<1> QED
  BY <1>1, <1>2, MaxOfRange DEF MaxID

(* Appending a record keeps every entry in its place.                      *)
LEMMA EntriesAppend ==
    ASSUME NEW s \in Seq(Record), NEW r \in Record
    PROVE  /\ Append(s, r) \in Seq(Record)
           /\ Entries(Append(s, r)) = Entries(s) \cup {r}
           /\ Len(Append(s, r)) = Len(s) + 1
           /\ \A i \in DOMAIN s : Append(s, r)[i] = s[i]
           /\ SubSeq(Append(s, r), 1, Len(s)) = s
<1>1. Len(s) \in Nat /\ DOMAIN s = 1..Len(s)
  OBVIOUS
<1>2. DOMAIN Append(s, r) = 1..(Len(s) + 1)
  BY <1>1
<1>3. /\ \A i \in DOMAIN s : Append(s, r)[i] = s[i]
      /\ Append(s, r)[Len(s) + 1] = r
  BY <1>1
<1>4. Entries(Append(s, r)) = Entries(s) \cup {r}
  BY <1>1, <1>2, <1>3 DEF Entries
<1> QED
  BY <1>1, <1>3, <1>4

-------------------------------------------------------------------------------
LEMMA InitInv == Init => IInv
  BY KeysAssumption
  DEF Init, IInv, TypeOK, FileOK, PhaseOK, MemoryOK, ToldIsDurable, Loaded, Phases,
      Record, Calls, Idle, NoMarkers, Files, Blank, Entries

(* Start-up moves the file from absent to empty to the seeded snapshot,    *)
(* and memory from nothing to a copy of the file.                          *)
LEMMA StartupInv == ASSUME IInv, Startup PROVE IInv'
<1> USE DEF IInv
<1>1. ASSUME NEW k \in Keys, Boot(k) PROVE IInv'
  BY <1>1 DEF Boot, TypeOK, FileOK, PhaseOK, MemoryOK, ToldIsDurable, Loaded, Phases, history
<1>2. ASSUME SeedCreate PROVE IInv'
  <2>1. disk = Blank("absent") /\ told = {}
    BY <1>2 DEF SeedCreate, SeedNeeded, TypeOK, FileOK, ToldIsDurable, Files, Blank, Entries
  <2>2. TypeOK'
    BY <1>2 DEF SeedCreate, TypeOK, Phases, memory, history, Files, Blank, NoMarkers
  <2> QED
    BY <1>2, <2>1, <2>2 DEF SeedCreate, FileOK, PhaseOK, MemoryOK, ToldIsDurable, Loaded,
       memory, history, Blank, Entries
<1>3. ASSUME SeedWrite PROVE IInv'
  <2>1. disk = Blank("empty") /\ told = {}
    BY <1>3 DEF SeedWrite, FileOK, ToldIsDurable, Blank, Entries
  <2>2. TypeOK'
    BY <1>3 DEF SeedWrite, TypeOK, Phases, memory, history, Files, Blank, NoMarkers
  <2> QED
    BY <1>3, <2>1, <2>2 DEF SeedWrite, FileOK, PhaseOK, MemoryOK, ToldIsDurable, Loaded,
       memory, history, Blank, Entries
<1>4. ASSUME SeedSkip PROVE IInv'
  BY <1>4 DEF SeedSkip, TypeOK, FileOK, PhaseOK, MemoryOK, ToldIsDurable, Loaded, Phases,
     memory, history
<1>5. ASSUME Load PROVE IInv'
  <2>1. nextID' = Len(disk.messages)
    BY <1>5, MaxIDIsLen DEF Load, TypeOK, FileOK, Files
  <2>2. TypeOK'
    BY <1>5, <2>1 DEF Load, LoadedMarkers, TypeOK, Phases, history, Files
  <2> QED
    BY <1>5, <2>1, <2>2 DEF Load, LoadedMarkers, KeyAccepted, FileOK, PhaseOK, MemoryOK,
       ToldIsDurable, Loaded, history, TypeOK, Files, Idle
<1>6. ASSUME RefuseKey PROVE IInv'
  BY <1>6 DEF RefuseKey, Forget, TypeOK, FileOK, PhaseOK, MemoryOK, ToldIsDurable, Loaded,
     Phases, history, Calls, Idle, NoMarkers
<1>7. ASSUME Adopt PROVE IInv'
  <2>1. call = Idle /\ records = disk.messages /\ keyFingerprint = key
    BY <1>7 DEF Adopt, PhaseOK, MemoryOK, Loaded, Idle
  <2>2. TypeOK'
    BY <1>7 DEF Adopt, Snapshot, TypeOK, Phases, memory, history, Files
  <2> QED
    BY <1>7, <2>1, <2>2 DEF Adopt, Snapshot, FileOK, PhaseOK, MemoryOK, ToldIsDurable, Loaded,
       memory, history, TypeOK, Files, Idle
<1> QED
  BY <1>1, <1>2, <1>3, <1>4, <1>5, <1>6, <1>7 DEF Startup

LEMMA CrashInv == ASSUME IInv, Crash PROVE IInv'
  BY DEF IInv, Crash, Forget, TypeOK, FileOK, PhaseOK, MemoryOK, ToldIsDurable, Loaded,
     Phases, history, Calls, Idle, NoMarkers

(* Save: memory runs one record ahead of the file, then the file catches   *)
(* up or memory falls back.                                                *)
LEMMA SavingInv == ASSUME IInv, Saving PROVE IInv'
<1> USE DEF IInv
<1>1. ASSUME NEW m \in Messages, SaveAppend(m) PROVE IInv'
  <2>1. /\ records = disk.messages /\ nextID = Len(records) /\ phase = "up"
        /\ [id |-> nextID + 1, msg |-> m] \in Record
    BY <1>1 DEF SaveAppend, NewID, Unlocked, MemoryOK, Loaded, Idle, TypeOK, Record
  <2>2. /\ records' \in Seq(Record)
        /\ nextID' = Len(records')
    BY <1>1, <2>1, EntriesAppend DEF SaveAppend, NewID, TypeOK
  <2>3. TypeOK'
    BY <1>1, <2>2 DEF SaveAppend, NewID, TypeOK, history, Calls
  <2> QED
    BY <1>1, <2>1, <2>2, <2>3 DEF SaveAppend, NewID, FileOK, PhaseOK, MemoryOK, ToldIsDurable,
       Loaded, history
<1>2. ASSUME SavePersist PROVE IInv'
  <2>1. phase = "up"
    BY <1>2 DEF SavePersist, PhaseOK, Idle
  <2>2. PICK m \in Messages :
          records = Append(disk.messages, [id |-> Len(disk.messages) + 1, msg |-> m])
    BY <1>2, <2>1 DEF SavePersist, MemoryOK, Loaded
  <2>3. disk.messages \in Seq(Record)
    BY DEF TypeOK, Files
  <2>4. [id |-> Len(disk.messages) + 1, msg |-> m] \in Record
    BY <2>3 DEF Record
  <2>5. /\ Entries(disk.messages) \subseteq Entries(records)
        /\ Len(records) = Len(disk.messages) + 1
        /\ \A i \in DOMAIN records : records[i].id = i
    BY <2>2, <2>3, <2>4, EntriesAppend DEF FileOK
  <2>6. TypeOK'
    BY <1>2 DEF SavePersist, Snapshot, TypeOK, memory, history, Files, Calls
  <2> QED
    BY <1>2, <2>1, <2>3, <2>5, <2>6 DEF SavePersist, Snapshot, FileOK, PhaseOK, MemoryOK,
       ToldIsDurable, Loaded, memory, history, TypeOK
<1>3. ASSUME SaveFail PROVE IInv'
  <2>1. phase = "up"
    BY <1>3 DEF SaveFail, PhaseOK, Idle
  <2>2. PICK m \in Messages :
          records = Append(disk.messages, [id |-> Len(disk.messages) + 1, msg |-> m])
    BY <1>3, <2>1 DEF SaveFail, MemoryOK, Loaded
  <2>3. disk.messages \in Seq(Record)
    BY DEF TypeOK, Files
  <2>4. [id |-> Len(disk.messages) + 1, msg |-> m] \in Record
    BY <2>3 DEF Record
  <2>5. /\ records' = disk.messages
        /\ nextID' = Len(disk.messages)
    BY <1>3, <2>1, <2>2, <2>3, <2>4, EntriesAppend DEF SaveFail, RollBack, MemoryOK, Loaded
  <2>6. TypeOK'
    BY <1>3, <2>3, <2>5 DEF SaveFail, TypeOK, history, Calls, Idle
  <2> QED
    BY <1>3, <2>1, <2>5, <2>6 DEF SaveFail, FileOK, PhaseOK, MemoryOK, ToldIsDurable, Loaded,
       history, Idle
<1>4. ASSUME SaveReturn PROVE IInv'
  <2>1. records = disk.messages /\ Len(records) > 0 /\ phase = "up"
    BY <1>4 DEF SaveReturn, PhaseOK, MemoryOK, Loaded, Idle
  <2>2. /\ records[Len(records)] \in Record
        /\ records[Len(records)] \in Entries(disk.messages)
    BY <2>1 DEF TypeOK, Entries
  <2>3. TypeOK'
    BY <1>4, <2>2 DEF SaveReturn, TypeOK, memory, Calls, Idle
  <2> QED
    BY <1>4, <2>1, <2>2, <2>3 DEF SaveReturn, FileOK, PhaseOK, MemoryOK, ToldIsDurable,
       Loaded, memory, Idle
<1> QED
  BY <1>1, <1>2, <1>3, <1>4 DEF Saving

(* Read markers: memory may be ahead of the file, never behind it.         *)
LEMMA MarkingInv == ASSUME IInv, Marking PROVE IInv'
<1> USE DEF IInv
<1>1. ASSUME NEW s \in Slots, NEW k \in 1..MaxMarker, MarkStale(s, k) PROVE IInv'
  <2>1. acked' \in [Slots -> Nat]
    BY <1>1, BoundsAssumption DEF MarkStale, Acknowledge, TypeOK
  <2>2. TypeOK'
    BY <1>1, <2>1 DEF MarkStale, TypeOK, memory
  <2> QED
    BY <1>1, <2>2 DEF MarkStale, FileOK, PhaseOK, MemoryOK, ToldIsDurable, Loaded, memory
<1>2. ASSUME NEW s \in Slots, NEW k \in 1..MaxMarker, MarkSet(s, k) PROVE IInv'
  <2>1. TypeOK'
    BY <1>2, BoundsAssumption DEF MarkSet, TypeOK, history, Calls
  <2>2. \A t \in Slots : readMarkers'[t] >= disk.markers[t]
    BY <1>2, BoundsAssumption DEF MarkSet, Newer, Unlocked, MemoryOK, Loaded, TypeOK, Files
  <2> QED
    BY <1>2, <2>1, <2>2 DEF MarkSet, Unlocked, FileOK, PhaseOK, MemoryOK, ToldIsDurable, Loaded,
       history, Idle
<1>3. ASSUME MarkPersist PROVE IInv'
  <2>1. phase = "up" /\ records = disk.messages /\ keyFingerprint = key
    BY <1>3 DEF MarkPersist, PhaseOK, MemoryOK, Loaded, Idle
  <2>2. call' \in Calls /\ call'.op = "marked"
    BY <1>3 DEF MarkPersist, TypeOK, Calls
  <2>3. TypeOK'
    BY <1>3, <2>2 DEF MarkPersist, Snapshot, TypeOK, memory, history, Files
  <2> QED
    BY <1>3, <2>1, <2>2, <2>3 DEF MarkPersist, Snapshot, FileOK, PhaseOK, MemoryOK,
       ToldIsDurable, Loaded, memory, history, TypeOK
<1>4. ASSUME MarkFail PROVE IInv'
  BY <1>4 DEF MarkFail, TypeOK, FileOK, PhaseOK, MemoryOK, ToldIsDurable, Loaded, memory,
     history, Calls, Idle
<1>5. ASSUME MarkReturn PROVE IInv'
  <2>1. call.slot \in Slots
    BY <1>5 DEF MarkReturn, TypeOK, Calls
  <2>2. TypeOK'
    BY <1>5, <2>1 DEF MarkReturn, Acknowledge, TypeOK, memory, Calls, Idle
  <2> QED
    BY <1>5, <2>2 DEF MarkReturn, FileOK, PhaseOK, MemoryOK, ToldIsDurable, Loaded, memory, Idle
<1> QED
  BY <1>1, <1>2, <1>3, <1>4, <1>5 DEF Marking

LEMMA ReadingInv == ASSUME IInv, Reading PROVE IInv'
<1>1. PICK a \in 0..MaxRecords : ForEachSince(a)
  BY DEF Reading
<1>2. records = disk.messages
  BY <1>1 DEF IInv, ForEachSince, Unlocked, MemoryOK, Loaded, Idle
<1>3. Entries(records) \subseteq Record
  BY DEF IInv, TypeOK, Entries
<1> QED
  BY <1>1, <1>2, <1>3 DEF IInv, ForEachSince, TypeOK, FileOK, PhaseOK, MemoryOK, ToldIsDurable,
     Loaded, memory

LEMMA StutterInv == ASSUME IInv, UNCHANGED vars PROVE IInv'
  BY DEF IInv, vars, memory, history, TypeOK, FileOK, PhaseOK, MemoryOK, ToldIsDurable, Loaded

(* The inductive invariant holds in every reachable state.                 *)
THEOREM Invariance == Spec => []IInv
<1>1. Init => IInv
  BY InitInv
<1>2. IInv /\ [Next]_vars => IInv'
  BY StartupInv, SavingInv, MarkingInv, ReadingInv, CrashInv, StutterInv DEF Next
<1> QED
  BY <1>1, <1>2, PTL DEF Spec

-------------------------------------------------------------------------------
(* What the invariant says of the properties the runs check.               *)

(* Every variable of the store keeps its type.                             *)
THEOREM TypeCorrect == Spec => []TypeOK
<1>1. IInv => TypeOK
  BY DEF IInv
<1> QED
  BY Invariance, <1>1, PTL

(* What Save returned or ForEachSince delivered is in the file, whatever   *)
(* fails and however often the process restarts.                           *)
THEOREM ToldStaysDurable == Spec => []ToldIsDurable
<1>1. IInv => ToldIsDurable
  BY DEF IInv
<1> QED
  BY Invariance, <1>1, PTL

(* No identifier is ever seen on two messages.                             *)
THEOREM IdsAreUnique == Spec => []IdsNeverReused
<1>1. ASSUME IInv PROVE IdsNeverReused
  <2>1. \A i \in DOMAIN disk.messages : disk.messages[i].id = i
    BY <1>1 DEF IInv, FileOK
  <2>2. \A a \in told : \E i \in DOMAIN disk.messages : a = disk.messages[i]
    BY <1>1 DEF IInv, ToldIsDurable, Entries
  <2> QED
    BY <2>1, <2>2 DEF IdsNeverReused
<1> QED
  BY Invariance, <1>1, PTL

(* File order is identifier order, in memory and on disk.                  *)
THEOREM IdsIncrease == Spec => []MonotonicIds
<1>1. ASSUME IInv PROVE MonotonicIds
  <2>1. disk.messages \in Seq(Record) /\ \A i \in DOMAIN disk.messages : disk.messages[i].id = i
    BY <1>1 DEF IInv, FileOK, TypeOK, Files
  <2>2. Increasing(disk.messages)
    BY <2>1 DEF Increasing
  <2>3. CASE Loaded /\ call.op # "save"
    BY <1>1, <2>2, <2>3 DEF IInv, MemoryOK, MonotonicIds
  <2>4. CASE Loaded /\ call.op = "save"
    <3>1. PICK m \in Messages :
            records = Append(disk.messages, [id |-> Len(disk.messages) + 1, msg |-> m])
      BY <1>1, <2>4 DEF IInv, MemoryOK
    <3>2. \A i \in DOMAIN records : records[i].id = i
      BY <2>1, <3>1
    <3>3. records \in Seq(Record)
      BY <1>1 DEF IInv, TypeOK
    <3> QED
      BY <2>2, <3>2, <3>3 DEF MonotonicIds, Increasing
  <2>5. CASE ~Loaded
    <3>1. records = << >>
      BY <1>1, <2>5 DEF IInv, MemoryOK
    <3> QED
      BY <2>2, <3>1 DEF MonotonicIds, Increasing
  <2> QED
    BY <2>3, <2>4, <2>5
<1> QED
  BY Invariance, <1>1, PTL

(* Between calls, memory and the file hold the same messages.              *)
THEOREM MemoryAgreesWithFile == Spec => []MemoryMatchesFile
<1>1. ASSUME IInv PROVE MemoryMatchesFile
  <2> SUFFICES ASSUME Unlocked PROVE /\ records = disk.messages
                                     /\ nextID = MaxID(records)
                                     /\ \A s \in Slots : readMarkers[s] >= disk.markers[s]
    BY DEF MemoryMatchesFile
  <2>1. /\ records = disk.messages
        /\ nextID = Len(records)
        /\ \A s \in Slots : readMarkers[s] >= disk.markers[s]
    BY <1>1 DEF IInv, MemoryOK, Loaded, Unlocked, Idle
  <2>2. MaxID(records) = Len(records)
    BY <1>1, <2>1, MaxIDIsLen DEF IInv, FileOK, TypeOK
  <2> QED
    BY <2>1, <2>2
<1> QED
  BY Invariance, <1>1, PTL

(* A store that serves, serves a file written under its own key.           *)
THEOREM KeysAgree == Spec => []KeyAgreement
<1>1. IInv => KeyAgreement
  BY DEF IInv, PhaseOK, KeyAgreement, Loaded
<1> QED
  BY Invariance, <1>1, PTL

-------------------------------------------------------------------------------
(* How a step changes the file: not at all, by seeding or adopting it, by  *)
(* one more message, or by newer markers.                                  *)

FileUnchanged == UNCHANGED disk
FileMarkers == /\ disk'.messages = disk.messages
               /\ disk'.markers \in [Slots -> Nat]
               /\ \A s \in Slots : disk'.markers[s] >= disk.markers[s]
               /\ disk.fingerprint # NoKey => disk'.fingerprint = disk.fingerprint
               /\ told' = told
FileAppend == /\ \E m \in Messages :
                    disk'.messages = Append(disk.messages,
                                            [id |-> Len(disk.messages) + 1, msg |-> m])
              /\ disk'.markers \in [Slots -> Nat]
              /\ \A s \in Slots : disk'.markers[s] >= disk.markers[s]
              /\ disk'.fingerprint = disk.fingerprint
              /\ told' = told

LEMMA FileSteps ==
    ASSUME IInv, [Next]_vars
    PROVE  \/ FileUnchanged /\ told' = told
           \/ FileUnchanged /\ told \subseteq told' /\ told' \subseteq told \cup Entries(disk.messages)
           \/ FileMarkers
           \/ FileAppend
<1> USE DEF IInv
<1>1. CASE SeedCreate \/ SeedWrite
  <2>1. disk = Blank(disk.file)
    BY <1>1 DEF SeedCreate, SeedNeeded, SeedWrite, FileOK
  <2>2. /\ disk'.messages = << >> /\ disk'.markers = NoMarkers /\ told' = told
    BY <1>1 DEF SeedCreate, SeedWrite, Blank, history
  <2> QED
    BY <2>1, <2>2 DEF Blank, NoMarkers, FileMarkers
<1>2. CASE Adopt
  <2>1. /\ records = disk.messages
        /\ \A s \in Slots : readMarkers[s] >= disk.markers[s]
    BY <1>2 DEF Adopt, PhaseOK, MemoryOK, Loaded, Idle
  <2> QED
    BY <1>2, <2>1 DEF Adopt, Snapshot, FileMarkers, history, memory, PhaseOK, TypeOK
<1>3. CASE SavePersist
  <2>1. phase = "up"
    BY <1>3 DEF SavePersist, PhaseOK, Idle
  <2> QED
    BY <1>3, <2>1 DEF SavePersist, Snapshot, FileAppend, history, memory, PhaseOK, MemoryOK,
       Loaded, TypeOK
<1>4. CASE MarkPersist
  <2>1. phase = "up"
    BY <1>4 DEF MarkPersist, PhaseOK, Idle
  <2> QED
    BY <1>4, <2>1 DEF MarkPersist, Snapshot, FileMarkers, history, memory, PhaseOK, MemoryOK,
       Loaded, TypeOK
<1>5. CASE SaveReturn
  <2>1. records = disk.messages /\ Len(records) > 0
    BY <1>5 DEF SaveReturn, PhaseOK, MemoryOK, Loaded, Idle
  <2>2. records[Len(records)] \in Entries(disk.messages)
    BY <2>1 DEF TypeOK, Entries
  <2> QED
    BY <1>5, <2>2 DEF SaveReturn, FileUnchanged
<1>6. CASE Reading
  BY <1>6 DEF Reading, ForEachSince, Unlocked, FileUnchanged, MemoryOK, Loaded, Idle
<1>7. CASE \/ \E k \in Keys : Boot(k)
           \/ SeedSkip
           \/ Load
           \/ RefuseKey
           \/ \E m \in Messages : SaveAppend(m)
           \/ SaveFail
           \/ \E s \in Slots, k \in 1..MaxMarker : MarkStale(s, k) \/ MarkSet(s, k)
           \/ MarkFail
           \/ MarkReturn
           \/ Crash
           \/ UNCHANGED vars
  BY <1>7 DEF Boot, SeedSkip, Load, RefuseKey, Forget, SaveAppend, SaveFail, MarkStale, MarkSet,
     MarkFail, MarkReturn, Crash, vars, history, FileUnchanged
<1> QED
  BY <1>1, <1>2, <1>3, <1>4, <1>5, <1>6, <1>7 DEF Next, Startup, Saving, Marking

(* No step takes a message, a marker or the key fingerprint off the file.  *)
THEOREM FileNeverShrinks == Spec => FileOnlyGrows
<1> DEFINE Grows ==
      /\ Len(disk.messages) <= Len(disk'.messages)
      /\ \A i \in DOMAIN disk.messages : disk'.messages[i] = disk.messages[i]
      /\ \A s \in Slots : disk'.markers[s] >= disk.markers[s]
      /\ disk.fingerprint # NoKey => disk'.fingerprint = disk.fingerprint
<1>1. ASSUME IInv, [Next]_vars PROVE Grows
  <2>1. disk.messages \in Seq(Record) /\ disk.markers \in [Slots -> Nat]
    BY <1>1 DEF IInv, TypeOK, Files
  <2>2. CASE FileUnchanged
    BY <2>1, <2>2 DEF FileUnchanged
  <2>3. CASE FileMarkers
    BY <2>1, <2>3 DEF FileMarkers
  <2>4. CASE FileAppend
    BY <2>1, <2>4 DEF FileAppend
  <2> QED
    BY <1>1, <2>2, <2>3, <2>4, FileSteps
<1> QED
  BY Invariance, <1>1, PTL DEF Spec, FileOnlyGrows

(* The store, with its memory, lock, faults and restarts, is the append-   *)
(* only log DurableLog describes.                                          *)
THEOREM StoreImplementsLog == Spec => ImplementsLog
<1>1. Init => Log!Init
  BY DEF Init, Log!Init, Log!NoMarks, NoMarkers, Blank
<1>2. ASSUME IInv, [Next]_vars PROVE [Log!Next]_(Log!vars)
  <2>1. CASE FileUnchanged /\ told' = told
    BY <2>1 DEF FileUnchanged, Log!vars
  <2>2. CASE /\ FileUnchanged
             /\ told \subseteq told'
             /\ told' \subseteq told \cup Entries(disk.messages)
    BY <2>2 DEF FileUnchanged, Log!Next, Log!Tell, Log!Entries, Entries
  <2>3. CASE FileMarkers
    BY <2>3 DEF FileMarkers, Log!Next, Log!Advance, Log!MarksAdvance
  <2>4. CASE FileAppend
    BY <2>4 DEF FileAppend, Log!Next, Log!Commit, Log!MarksAdvance
  <2> QED
    BY <1>2, <2>1, <2>2, <2>3, <2>4, FileSteps
<1> QED
  BY Invariance, <1>1, <1>2, PTL DEF Spec, ImplementsLog, Log!Spec

-------------------------------------------------------------------------------
(* On a disk that never fails, only the marker a caller is writing differs *)
(* from the file.                                                          *)
MarkersOnFile == Loaded => \A s \in Slots :
                     readMarkers[s] # disk.markers[s] => call.op = "mark" /\ call.slot = s

ReliableInv == AckedMarkersDurable /\ MarkersOnFile

LEMMA ReliableStep ==
    ASSUME ~FaultyDisk, IInv, ReliableInv, [Next]_vars
    PROVE  ReliableInv'
<1>1. /\ acked \in [Slots -> Nat] /\ readMarkers \in [Slots -> Nat]
      /\ disk.markers \in [Slots -> Nat] /\ call \in Calls
  BY DEF IInv, TypeOK, Files
<1>2. CASE SeedCreate \/ SeedWrite
  <2>1. disk = Blank(disk.file)
    BY <1>2 DEF SeedCreate, SeedNeeded, SeedWrite, IInv, FileOK
  <2>2. disk'.markers = disk.markers /\ UNCHANGED <<memory, call, history>> /\ ~Loaded'
    BY <1>2, <2>1 DEF SeedCreate, SeedWrite, Blank, Loaded
  <2> QED
    BY <2>2 DEF ReliableInv, AckedMarkersDurable, MarkersOnFile, history
<1>3. CASE Load
  BY <1>3 DEF Load, LoadedMarkers, ReliableInv, AckedMarkersDurable, MarkersOnFile, history
<1>4. CASE Adopt \/ SavePersist \/ MarkPersist
  <2>1. Loaded /\ \A s \in Slots : readMarkers[s] >= disk.markers[s]
    BY <1>4 DEF Adopt, SavePersist, MarkPersist, IInv, PhaseOK, MemoryOK, Loaded, Idle
  <2>2. disk'.markers = readMarkers /\ UNCHANGED <<memory, history>>
    BY <1>4 DEF Adopt, SavePersist, MarkPersist, Snapshot
  <2>3. AckedMarkersDurable'
    BY <1>1, <2>1, <2>2 DEF ReliableInv, AckedMarkersDurable, history
  <2>4. MarkersOnFile'
    BY <2>2 DEF MarkersOnFile, memory
  <2> QED
    BY <2>3, <2>4 DEF ReliableInv
<1>5. ASSUME NEW s \in Slots, NEW k \in 1..MaxMarker, MarkStale(s, k) PROVE ReliableInv'
  <2>1. /\ k \in Nat /\ k <= readMarkers[s] /\ acked' = [acked EXCEPT ![s] = IF k > @ THEN k ELSE @]
        /\ UNCHANGED <<phase, memory, call, disk>>
    BY <1>1, <1>5, BoundsAssumption DEF MarkStale, Newer, Acknowledge
  <2>2. readMarkers[s] = disk.markers[s]
    BY <1>5 DEF MarkStale, Unlocked, Idle, Loaded, ReliableInv, MarkersOnFile
  <2>3. AckedMarkersDurable'
    BY <1>1, <2>1, <2>2 DEF ReliableInv, AckedMarkersDurable
  <2> QED
    BY <2>1, <2>3 DEF ReliableInv, MarkersOnFile, Loaded, memory
<1>6. ASSUME NEW s \in Slots, NEW k \in 1..MaxMarker, MarkSet(s, k) PROVE ReliableInv'
  <2>1. /\ readMarkers' = [readMarkers EXCEPT ![s] = k]
        /\ call' = [op |-> "mark", slot |-> s]
        /\ UNCHANGED <<disk, history>>
        /\ \A t \in Slots : readMarkers[t] = disk.markers[t]
    BY <1>6 DEF MarkSet, Unlocked, Idle, Loaded, ReliableInv, MarkersOnFile
  <2> QED
    BY <1>1, <2>1 DEF ReliableInv, AckedMarkersDurable, MarkersOnFile, history
<1>7. CASE MarkReturn
  <2>1. /\ call.op = "marked" /\ call' = Idle
        /\ acked' = [acked EXCEPT ![call.slot] =
                        IF readMarkers[call.slot] > @ THEN readMarkers[call.slot] ELSE @]
        /\ UNCHANGED <<phase, memory, disk>>
    BY <1>7 DEF MarkReturn, Acknowledge
  <2>2. \A s \in Slots : readMarkers[s] = disk.markers[s]
    BY <2>1 DEF IInv, PhaseOK, Idle, Loaded, ReliableInv, MarkersOnFile
  <2>3. AckedMarkersDurable'
    BY <1>1, <2>1, <2>2 DEF ReliableInv, AckedMarkersDurable
  <2> QED
    BY <2>1, <2>2, <2>3 DEF ReliableInv, MarkersOnFile, memory
<1>8. CASE \/ \E k \in Keys : Boot(k)
           \/ SeedSkip
           \/ RefuseKey
           \/ Crash
  BY <1>8 DEF Boot, SeedSkip, RefuseKey, Crash, Forget, ReliableInv, AckedMarkersDurable,
     MarkersOnFile, Loaded, history
<1>9. CASE \/ \E m \in Messages : SaveAppend(m)
           \/ SaveReturn
           \/ Reading
           \/ UNCHANGED vars
  <2>1. UNCHANGED <<phase, readMarkers, disk, acked>>
    BY <1>9 DEF SaveAppend, SaveReturn, Reading, ForEachSince, vars, memory, history
  <2>2. call.op = "mark" => call' = call
    <3>1. ASSUME NEW m \in Messages, SaveAppend(m) PROVE call.op # "mark"
      <4>1. call = Idle
        BY <3>1 DEF SaveAppend, Unlocked
      <4> QED
        BY <4>1 DEF Idle
    <3>2. CASE SaveReturn
      BY <3>2 DEF SaveReturn
    <3>3. CASE Reading \/ UNCHANGED vars
      BY <3>3 DEF Reading, ForEachSince, vars
    <3> QED
      BY <1>9, <3>1, <3>2, <3>3
  <2> QED
    BY <2>1, <2>2 DEF ReliableInv, AckedMarkersDurable, MarkersOnFile, Loaded
<1>10. ~SaveFail /\ ~MarkFail
  BY DEF SaveFail, MarkFail
<1> QED
  BY <1>2, <1>3, <1>4, <1>5, <1>6, <1>7, <1>8, <1>9, <1>10 DEF Next, Startup, Saving, Marking

(* With a disk that never fails, whatever the crashes and restarts, a read *)
(* marker that UpdateReadMarker acknowledged is in the file: the failed    *)
(* write, whose marker stays in memory, is the only way to lose one.       *)
THEOREM MarkersDurableOnReliableDisk ==
    ASSUME ~FaultyDisk PROVE Spec => []AckedMarkersDurable
<1>1. Init => IInv /\ ReliableInv
  <2> SUFFICES ASSUME Init PROVE ReliableInv
    BY InitInv
  <2> QED
    BY DEF Init, ReliableInv, AckedMarkersDurable, MarkersOnFile, Loaded, NoMarkers, Blank
<1>2. (IInv /\ ReliableInv) /\ [Next]_vars => (IInv /\ ReliableInv)'
  <2>1. ASSUME IInv, [Next]_vars PROVE IInv'
    BY <2>1, StartupInv, SavingInv, MarkingInv, ReadingInv, CrashInv, StutterInv DEF Next
  <2> QED
    BY <2>1, ReliableStep
<1>3. IInv /\ ReliableInv => AckedMarkersDurable
  BY DEF ReliableInv
<1> QED
  BY <1>1, <1>2, <1>3, PTL DEF Spec
===============================================================================
