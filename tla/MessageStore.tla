----------------------------- MODULE MessageStore -----------------------------
(***************************************************************************)
(* The server's fileStore (server/internal/messaging/store.go) over one    *)
(* snapshot file, with its seeding at start-up (seed.go) and the restarts  *)
(* of the process around it.                                               *)
(*                                                                         *)
(* The write lock s.mu is held from the first to the last step of Save and *)
(* of UpdateReadMarker, so one variable, call, is both the lock and the    *)
(* program counter of its holder.  The steps are separate because the      *)
(* process can die between them, and because writing the file can fail.    *)
(* The file is replaced by a rename: readers of the path see the old or    *)
(* the new snapshot.                                                       *)
(***************************************************************************)
EXTENDS Integers, Sequences, FiniteSetsExt

CONSTANTS Messages,     \* what an envelope carries
          Slots,        \* (conversation, user) pairs that own a read marker
          Keys,         \* fingerprints of the message keys the operator may configure
          NoKey,        \* the empty fingerprint
          MaxRecords,   \* bound: messages saved
          MaxMarker,    \* bound: largest identifier put in a read marker
          FaultyDisk    \* whether writing the snapshot may fail

ASSUME KeysAssumption == NoKey \notin Keys
ASSUME BoundsAssumption == MaxRecords \in Nat /\ MaxMarker \in Nat
ASSUME FaultyDiskAssumption == FaultyDisk \in BOOLEAN

VARIABLES phase,           \* of the process: see Phases
          key,             \* cipher.Fingerprint() of this process
          records,         \* s.records
          nextID,          \* s.nextID: the last identifier given out
          keyFingerprint,  \* s.keyFingerprint
          readMarkers,     \* s.readMarkers, 0 where the map has no entry
          call,            \* who holds s.mu, and where it stands
          disk,            \* the file at s.path
          told,            \* history: each [id, msg] returned to a caller
          acked            \* history: largest marker acknowledged per slot

memory == <<key, records, nextID, keyFingerprint, readMarkers>>
history == <<told, acked>>
vars == <<phase, memory, call, disk, history>>

Phases == {"down", "seeding", "seedWrite", "loading", "adopting", "up"}

Record == [id : Nat \ {0}, msg : Messages]

Calls == [op : {"idle", "save", "saved"}] \cup [op : {"mark", "marked"}, slot : Slots]

NoMarkers == [s \in Slots |-> 0]

Entries(s) == {s[i] : i \in DOMAIN s}

Files == [file : {"absent", "empty", "snapshot"}, messages : Seq(Record),
          fingerprint : Keys \cup {NoKey}, markers : [Slots -> Nat]]

(* A file without content.  An empty file decodes to the empty snapshot.   *)
Blank(kind) == [file |-> kind, messages |-> << >>, fingerprint |-> NoKey,
                markers |-> NoMarkers]

Idle == [op |-> "idle"]

Init == /\ phase = "down"
        /\ key = NoKey
        /\ records = << >>
        /\ nextID = 0
        /\ keyFingerprint = NoKey
        /\ readMarkers = NoMarkers
        /\ call = Idle
        /\ disk = Blank("absent")
        /\ told = {}
        /\ acked = NoMarkers

(* The snapshot persistLocked writes.                                      *)
Snapshot == [file |-> "snapshot", messages |-> records,
             fingerprint |-> keyFingerprint, markers |-> readMarkers]

-------------------------------------------------------------------------------
(* Start-up: EnsureSeedData, then NewStore.  log.Fatalf on the way ends    *)
(* the process as Crash does.                                              *)

Boot(k) == /\ phase = "down"
           /\ phase' = "seeding"
           /\ key' = k
           /\ UNCHANGED <<records, nextID, keyFingerprint, readMarkers, call, disk, history>>

BugSeedNeeded == TRUE
SeedNeeded == disk.file = "absent"

(* os.WriteFile creates the file and fills it in two system calls.         *)
SeedCreate == /\ phase = "seeding"
              /\ SeedNeeded
              /\ phase' = "seedWrite"
              /\ disk' = Blank("empty")
              /\ UNCHANGED <<memory, call, history>>

SeedWrite == /\ phase = "seedWrite"
             /\ phase' = "loading"
             /\ disk' = [file |-> "snapshot", messages |-> << >>,
                          fingerprint |-> key, markers |-> NoMarkers]
             /\ UNCHANGED <<memory, call, history>>

SeedSkip == /\ phase = "seeding"
            /\ ~SeedNeeded
            /\ phase' = "loading"
            /\ UNCHANGED <<memory, call, disk, history>>

BugKeyAccepted == TRUE
KeyAccepted == disk.fingerprint \in {NoKey, key}

BugMaxID(msgs) == 0
MaxID(msgs) == Max({0} \cup {msgs[i].id : i \in DOMAIN msgs})

LoadedMarkers == disk.markers

(* load, and the adoption of the process's key by a file without one.      *)
Load == /\ phase = "loading"
        /\ KeyAccepted
        /\ records' = disk.messages
        /\ nextID' = MaxID(disk.messages)
        /\ readMarkers' = LoadedMarkers
        /\ keyFingerprint' = IF disk.fingerprint = NoKey THEN key ELSE disk.fingerprint
        /\ phase' = IF disk.fingerprint = NoKey THEN "adopting" ELSE "up"
        /\ UNCHANGED <<key, call, disk, history>>

Forget == /\ phase' = "down"
          /\ key' = NoKey
          /\ records' = << >>
          /\ nextID' = 0
          /\ keyFingerprint' = NoKey
          /\ readMarkers' = NoMarkers
          /\ call' = Idle
          /\ UNCHANGED <<disk, history>>

RefuseKey == phase = "loading" /\ ~KeyAccepted /\ Forget

Adopt == /\ phase = "adopting"
         /\ phase' = "up"
         /\ disk' = Snapshot
         /\ UNCHANGED <<memory, call, history>>

(* The process is killed, or exits; what it had in memory is gone.         *)
Crash == phase # "down" /\ Forget

-------------------------------------------------------------------------------
(* Calls of a running store.                                               *)

Unlocked == phase = "up" /\ call = Idle

BugNewID == nextID
NewID == nextID + 1

(* Save: the record enters memory before the file is written.              *)
SaveAppend(m) == /\ Unlocked
                 /\ nextID < MaxRecords
                 /\ records' = Append(records, [id |-> NewID, msg |-> m])
                 /\ nextID' = NewID
                 /\ call' = [op |-> "save"]
                 /\ UNCHANGED <<phase, key, keyFingerprint, readMarkers, disk, history>>

SavePersist == /\ call.op = "save"
               /\ disk' = Snapshot
               /\ call' = [op |-> "saved"]
               /\ UNCHANGED <<phase, memory, history>>

BugKeepRecord == /\ records' = records
                 /\ nextID' = nextID - 1
BugKeepNextID == /\ records' = SubSeq(records, 1, Len(records) - 1)
                 /\ nextID' = nextID
RollBack == /\ records' = SubSeq(records, 1, Len(records) - 1)
            /\ nextID' = nextID - 1

SaveFail == /\ FaultyDisk
            /\ call.op = "save"
            /\ RollBack
            /\ call' = Idle
            /\ UNCHANGED <<phase, key, keyFingerprint, readMarkers, disk, history>>

SaveReturn == /\ call.op = "saved"
              /\ told' = told \cup {records[Len(records)]}
              /\ call' = Idle
              /\ UNCHANGED <<phase, memory, disk, acked>>

(* ForEachSince copies the records above afterID under the read lock and   *)
(* hands them to the caller after releasing it.                            *)
ForEachSince(afterID) == /\ Unlocked
                         /\ told' = told \cup {r \in Entries(records) : r.id > afterID}
                         /\ UNCHANGED <<phase, memory, call, disk, acked>>

BugNewer(slot, lastMsgID) == lastMsgID # readMarkers[slot]
Newer(slot, lastMsgID) == lastMsgID > readMarkers[slot]

Acknowledge(slot, marker) ==
    acked' = [acked EXCEPT ![slot] = IF marker > @ THEN marker ELSE @]

(* UpdateReadMarker: an old marker succeeds without touching the file.     *)
MarkStale(slot, lastMsgID) == /\ Unlocked
                              /\ ~Newer(slot, lastMsgID)
                              /\ Acknowledge(slot, lastMsgID)
                              /\ UNCHANGED <<phase, memory, call, disk, told>>

MarkSet(slot, lastMsgID) ==
    /\ Unlocked
    /\ Newer(slot, lastMsgID)
    /\ readMarkers' = [readMarkers EXCEPT ![slot] = lastMsgID]
    /\ call' = [op |-> "mark", slot |-> slot]
    /\ UNCHANGED <<phase, key, records, nextID, keyFingerprint, disk, history>>

MarkPersist == /\ call.op = "mark"
               /\ disk' = Snapshot
               /\ call' = [call EXCEPT !.op = "marked"]
               /\ UNCHANGED <<phase, memory, history>>

(* The error goes to the caller, but memory keeps the new marker.          *)
MarkFail == /\ FaultyDisk
            /\ call.op = "mark"
            /\ call' = Idle
            /\ UNCHANGED <<phase, memory, disk, history>>

MarkReturn == /\ call.op = "marked"
              /\ Acknowledge(call.slot, readMarkers[call.slot])
              /\ call' = Idle
              /\ UNCHANGED <<phase, memory, disk, told>>

-------------------------------------------------------------------------------
Startup == \/ \E k \in Keys : Boot(k)
           \/ SeedCreate
           \/ SeedWrite
           \/ SeedSkip
           \/ Load
           \/ RefuseKey
           \/ Adopt

Saving == \/ \E m \in Messages : SaveAppend(m)
          \/ SavePersist
          \/ SaveFail
          \/ SaveReturn

Marking == \/ \E s \in Slots, k \in 1..MaxMarker : MarkStale(s, k)
           \/ \E s \in Slots, k \in 1..MaxMarker : MarkSet(s, k)
           \/ MarkPersist
           \/ MarkFail
           \/ MarkReturn

Reading == \E afterID \in 0..MaxRecords : ForEachSince(afterID)

Next == \/ Startup
        \/ Saving
        \/ Marking
        \/ Reading
        \/ Crash

Spec == Init /\ [][Next]_vars

-------------------------------------------------------------------------------
(* Every variable has its type (the fields of fileStore and storeSnapshot).*)
TypeOK == /\ phase \in Phases
          /\ key \in Keys \cup {NoKey}
          /\ records \in Seq(Record)
          /\ nextID \in Nat
          /\ keyFingerprint \in Keys \cup {NoKey}
          /\ readMarkers \in [Slots -> Nat]
          /\ call \in Calls
          /\ disk \in Files
          /\ told \subseteq Record
          /\ acked \in [Slots -> Nat]

(* Whatever Save returned or ForEachSince delivered is in the file, in     *)
(* this run of the process and after every restart.                        *)
ToldIsDurable == told \subseteq Entries(disk.messages)

(* An identifier a caller has seen never comes to name another message,    *)
(* across failed saves, which give their identifier back, and restarts,    *)
(* which read the counter off the file.                                    *)
IdsNeverReused == \A a, b \in told : a.id = b.id => a = b

Increasing(msgs) == \A i, j \in DOMAIN msgs : i < j => msgs[i].id < msgs[j].id

(* The "monotonic identifier" of StoredEnvelope: file order is identifier  *)
(* order, in memory and in the file.                                       *)
MonotonicIds == Increasing(records) /\ Increasing(disk.messages)

(* When nobody holds the lock, memory and the file hold the same messages  *)
(* and the counter stands at the last of them.  A failed save leaves no    *)
(* trace.  Only markers may be ahead of the file.                          *)
MemoryMatchesFile ==
    Unlocked => /\ records = disk.messages
                /\ nextID = MaxID(records)
                /\ \A s \in Slots : readMarkers[s] >= disk.markers[s]

(* A running store serves a file marked with the key of its own cipher;    *)
(* with another key NewStore refuses to start.                             *)
KeyAgreement == phase = "up" => disk.fingerprint = key /\ keyFingerprint = key

(* The file only ever gains: messages are appended, no marker moves back,  *)
(* a key once recorded stays.                                              *)
FileOnlyGrows ==
    [][/\ Len(disk.messages) <= Len(disk'.messages)
       /\ \A i \in DOMAIN disk.messages : disk'.messages[i] = disk.messages[i]
       /\ \A s \in Slots : disk'.markers[s] >= disk.markers[s]
       /\ disk.fingerprint # NoKey => disk'.fingerprint = disk.fingerprint]_vars

(* A read marker the store acknowledged is in the file.  With a disk that  *)
(* never fails this holds; after a failed write it does not, because the   *)
(* caller's retry finds its marker in memory and is told it succeeded.     *)
AckedMarkersDurable == \A s \in Slots : acked[s] <= disk.markers[s]

(* The store implements the append-only log: the log is what the file      *)
(* holds.                                                                  *)
Log == INSTANCE DurableLog WITH log <- disk.messages, marks <- disk.markers
ImplementsLog == Log!Spec
===============================================================================
