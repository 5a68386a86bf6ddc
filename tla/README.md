# Secure Messenger: verification

TLA+ models of the messenger's server (Go, `server/`) and of its Qt client
(`client-qt/`), the TLC configurations that check them on small instances, and
proofs, for every instance, of the invariants those configurations check. For
every definition `PROJECT.json` lists the lines it stands for, for every run the
properties it checks, for every property a plausible bug it detects, and for
every theorem the property it states.

    tlc -workers 2 -config MessageStore.cfg MessageStore
    tlapm MessageStoreProofs.tla
    tlapm PullServiceProofs.tla
    tlapm ClientSyncProofs.tla
    tlapm IdentityManagerProofs.tla
    tlapm ClientSessionProofs.tla
    tlapm ReadReceiptsProofs.tla
    tlapm DataDirectoryProofs.tla
    tlapm Intervals.tla

## 1. The system

One server process holds a message store and an identity store, each a whole
file rewritten on every change, and serves them over gRPC with mutual TLS and
over HTTP with bearer tokens. Clients poll over HTTP; other programs may hold a
gRPC stream. Nothing else is shared between the processes.

| Component | State it keeps | Operations | Talks to |
| --- | --- | --- | --- |
| Message store (`messaging/store.go`, `seed.go`) | records, `nextID`, key fingerprint, read markers; the file | seed, load, `Save`, `ForEachSince`, `UpdateReadMarker`, `ReadMarkers` | called by the service and `handleList` |
| Messaging service (`messaging/service.go`) | set of subscriptions, a channel of 64 for each, overflow goroutines | `Send`, `broadcast`, `Pull`, `UpdateReadMarker` | store; gRPC streams |
| Messaging HTTP API (`messaging/http.go`) | none | list, send, read markers | service, store, tokens, cipher |
| Identity manager (`identity/manager.go`, `seed.go`) | accounts; the file | seed, load with migration, `RegisterUser`, `Authenticate`, `ValidateCertificate`, listings | auth and directory services, TLS handshake |
| Session tokens (`auth/tokens.go`) | token table | issue, validate, revoke | both HTTP APIs |
| Auth HTTP API (`auth/http.go`) | none | register, login, list users | identity manager, tokens |
| Auth and directory gRPC services | none | `WhoAmI`, `ListUsers`, `GetUser` | identity manager |
| Data path (`storage/path.go`), logging | the paths in use, fixed at start-up; the directory of the logs | resolve, create `data/logs` | `main`; the file system |
| Cipher, mutual TLS, configuration | none that changes while serving | run at start-up, or pure | `main` |
| Client session (`AppController.cpp`) | profile, token, credentials, busy flags, a stack of nested event loops; `QSettings`, local `identity.db` | login, register, renew, reset, directory refresh | auth HTTP API, QML |
| Client synchronisation (`AppController.cpp`) | conversations, known identifiers, cursor `m_lastServerMsgId`; local `messages.db` | poll, post, handle reply, load | messaging HTTP API |
| Client read markers (`AppController.cpp`) | own and peers' markers, ticks; `QSettings` | mark read, sync, apply, count unread | messaging HTTP API |
| Client data directory (`AppController.cpp`) | none: looked up anew each time | search, copy, fall back | the file system, where it meets the server |
| Client conversations | list and order | identifiers, visibility, order | QML |
| User interface (`Main.qml`) | the form's fields | form, buttons | controller |

What is hard in it:

- **Failure**: every change rewrites a file and the write may fail, after memory
  was changed; the process may die between any two steps, also while it seeds
  the file, also while it migrates passwords.
- **Concurrency on the server**: handlers run in parallel. `Send` stores and
  broadcasts in two steps; `broadcast` works on a copy of the subscriptions that
  `Pull` may remove meanwhile; a full channel starts goroutines that overtake.
  A token is looked up, the clock is read, the token is deleted: three steps.
- **Re-entrancy on the client**: `sendAuthRequest` waits in an event loop of its
  own, so timers, buttons and replies are served while a function waits for its
  own reply, and wait in loops nested in it.
- **Network**: replies are lost, late, out of order, overlapping; the same
  message comes by several ways; a reply may find another user logged in than
  the one who asked.
- **Two sources of a marker**: what a user has read is known to each of his
  devices and to the server, and moves between them in both directions; a reset
  clears some of it and leaves some.
- **Shared files**: client and server look for files of the same names in the
  directories above them, and each rewrites what it finds.

What makes each part correct:

- store: an answer given is in the file, for ever, under one identifier; memory
  is the file when nobody writes; messages under two keys never share a file;
- service: a stream carries what its client asked for, in order, once, with
  nothing left out; a send never waits for a reader and never fails once stored;
- identities: accounts differ in identifier, nickname and certificate, and are
  in the file when anybody hears of them; passwords do not stay plain; a session
  is of an account that exists;
- client synchronisation: each message of the user's conversations is shown
  once, and some time; nothing is skipped but what an own message overtook;
- read markers: what is open is read, what was read stays read, what is marked
  read was shown or passed by the cursor, a tick means that somebody else was
  shown the message, or passed it;
- data directories: a program that is started as before finds again what it has
  written;
- client session: one form at a time, that comes back if requests end; no token
  and no poll without a profile; the user on the screen is the registered one,
  and the saved one.

## 2. The modules

| Module | Models | Stands on |
| --- | --- | --- |
| `DurableLog` | abstract: an append-only log with identifiers 1, 2, 3..., markers that only advance, answers from the log | |
| `MessageStore` | store, seeding, crashes, restarts, changed keys | implements `DurableLog` |
| `MessageStoreProofs` | theorems about `MessageStore` | `MessageStore` |
| `MessageFeed` | abstract: streams that replay what was asked for without a gap, go live, forward in order, end | |
| `PullService` | senders, broadcast, channels, overflow goroutines, streams | a store as `DurableLog` promises it; implements `MessageFeed` |
| `PullServiceProofs` | theorems about `PullService` | `PullService` |
| `ClientSync` | one client's polling, posting, cursor, local file, against the server's log | the same |
| `ClientSyncProofs` | theorems about `ClientSync` | `ClientSync` |
| `ReadReceipts` | read markers and ticks of one installation on which users log in and out, the server's markers, the users' other devices | the same |
| `ReadReceiptsProofs` | theorems about `ReadReceipts` | `ReadReceipts`, `Intervals` |
| `MCReadReceipts` | a conversation of all users and one of a single user | `ReadReceipts` |
| `DataDirectory` | the directories both programs choose, and what they write there | |
| `DataDirectoryProofs` | theorems about `DataDirectory` | `DataDirectory`, `Intervals` |
| `MCDataDirectory` | the repository as a tree of directories, with what may be packaged, closed or named in the environment | `DataDirectory` |
| `AccountBook` | abstract: a growing set of accounts, none of which is opened beside one it clashes with; answers from it | |
| `IdentityManager` | identity manager, tokens, HTTP handlers over both | implements `AccountBook` |
| `IdentityManagerProofs` | theorems about `IdentityManager` | `IdentityManager` |
| `MCIdentityManager` | the files the server may find, and the symmetry TLC uses | `IdentityManager` |
| `ClientSession` | the client's profile, token, credentials, nested event loops, the form | |
| `ClientSessionProofs` | theorems about `ClientSession` | `ClientSession` |
| `Intervals` | lemmas about sets of numbers: smallest, largest, induction | |

How the state corresponds to the code:

- `MessageStore`. `records`, `nextID`, `keyFingerprint`, `readMarkers` are the
  fields of `fileStore`. The write lock is held through `Save` and
  `UpdateReadMarker`, so `call` is both the lock and the position of its holder
  (`SaveAppend`, then `SavePersist` or `SaveFail`, then `SaveReturn`; the same for
  a marker). `disk` is the snapshot at `s.path`: `persistLocked` writes a temporary
  file and renames it, so it changes in one step, but `EnsureSeedData` writes in
  place, so `SeedCreate` and `SeedWrite` are two. `told` and `acked` are history:
  what callers have been answered. A message's content is a value of `Messages`,
  a key is its fingerprint, a slot is a pair of conversation and user.
- `PullService`. `pc`, `rec`, `todo` are a sender's place in `Send` and
  `broadcast`; `ch`, `closed`, `subs` the channels and the service's set; `fresh`
  holds overflow goroutines that were started, `parked` those that block on a
  full channel, in their order, which is the order Go hands them room;
  `stage`, `snapshot`, `lastSent` a stream's place in `Pull`; `sent`, `order` and
  `backlog` are history: what each stream carried, what entered each channel, and
  how much was stored when a Pull subscribed. `select` with
  a `default` picks freely among the cases that are ready, as Go does. A send on
  a closed channel panics: in a handler of `net/http` that ends the request
  (`pc = "aborted"`), elsewhere the process (`crashed`).
- `ClientSync`. `view`, `known`, `cursor` are `m_conversations`,
  `m_knownServerMsgIds`, `m_lastServerMsgId`; `cache` is the local `messages.db`,
  rewritten with each message added; `wire` holds requests and replies in flight,
  received in any order; a history reply is handled message by message, and the
  client may be killed between two.
- `IdentityManager`. `users` is `m.users`, `disk` the file, `request` each
  handler's place; `Locked` is the write lock, held from the search for a clash
  to the end of the write. `tokens` maps a token to an account; `expired` is the
  clock's part. Nicknames come in classes of equal folding; a stored password is
  `plain` or `hash` of a word, and `LooksHashed` are the words that
  `isHashedPassword` takes for a hash. `Found` is what a file of an earlier run or
  release may hold: any number of accounts with identifiers of their own. `load`
  compares nothing else, so they may clash in nickname or certificate, and a
  lookup then answers with whichever the map yields first. `found` is history:
  the accounts that came so.
- `ReadReceipts`. `app` holds the client's messages in display order (`view`),
  `m_lastServerMsgId` (`cursor`), `m_conversationReadMarkers` (`own`),
  `m_peerReadMarkers` (`peer`) and the messages whose `readByPeer` is set
  (`ticks`); `stored` is `messaging/readMarkers` in `QSettings`, `cache` the local
  `messages.db`, which outlives a reset. `marks` are the server's markers; `out`
  holds the marker POSTs that were sent and have not arrived, one that is lost
  stays there. A handler that raises a marker sends any part of the POSTs it has to
  make: `syncReadMarkerWithServer` returns without one when no token is to be had,
  and nothing sends it later. `unsent` (history) remembers the largest such marker.
  A reply that comes while nobody is registered is handled for `Whom`: a late
  answer of the directory may have made `m_authenticatedUser` anybody. The handlers are functions on the client's state; `AddAll` is the loop
  of `handleMessagesResponse`, whose test of a message (`New`) sees what the
  messages before it have changed. `handleList` reads messages and
  markers under two locks, so it is two steps (`Collect`, `AnswerGet`). `read`,
  `seen` and `skipped` are history; `skipped` is kept for the installation, not for
  each of its users. Here a handler is one step; `ClientSync`
  has the steps within one, and failing writes of `messages.db`.
- `DataDirectory`. A directory is a base or `data` in one; `files` says for each
  directory and each of the two names which program wrote the file last, from
  any packaged files on: none, either or both, in any of several directories.
  `made` are the directories there are, `writable` those the client may write to.
  The client resolves its directory on every access (`Directory`), trying
  `Candidates` in the code's order: the first that can be written is `Found`, else
  the last match, `LastMatch`, is copied to the fallback (`Carried`). It may be
  stopped and started from another directory, with another `SM_DATA_DIR` or with
  other permissions (`StartsDifferently`). The server, always started in the same
  place, resolves two paths when it starts (`ServerPath`) and keeps them in `home`.
  `saved` is history: the artifacts the client wrote since it was started
  differently, less those the server has written over, and none once a server
  that starts has made a new file in another directory the client searches.
- `ClientSession`. `stack` holds the functions that wait in `sendAuthRequest`,
  innermost last; replies arrive for any of them and only the last can go on.
  `userId` is `m_registeredUserId` and `shown` is `m_authenticatedUser`: login,
  renewal and reset assign both, but a dialog that opens reads the local
  `identity.db` again (`RefreshUsers`) and assigns only the second, from the users
  the file lists (`Reloaded`); the directory's reply assigns the second and then
  copies it to the first (`BecomesListed`). `settings` is `registration/userId` in
  `QSettings`, `listing` the directory request. `identityFile` is the local
  `identity.db`: the users it lists and those of them it has a password of. A failed
  write leaves it, or, when the second attempt of `persistCredentials` has
  truncated it and broke off, leaves it `Spoiled`: not to be parsed.

## 3. The runs

| Run | Instance | What it shows |
| --- | --- | --- |
| `MessageStore` | 3 records, 2 messages, 2 slots, markers to 2, 2 keys, failing disk | typing, `ToldIsDurable`, `MonotonicIds`, `MemoryMatchesFile`, `KeyAgreement`, `FileOnlyGrows`, and that the store implements `DurableLog` |
| `MessageStoreFaultyDisk` | 2 records | **violated**: `AckedMarkersDurable` |
| `PullService` | 2 senders (one HTTP, one gRPC), 1 stream, 2 conversations, 3 messages, channel of 1 | typing, `SendNeverWaits`, `NothingLost`, `WantedIsDelivered`, and that the streams implement `MessageFeed` |
| `PullServiceTwoSenders` | 2 senders, channel of 3 | **violated**: `NothingSkipped` |
| `PullServiceAbortedSend` | 1 sender, 1 message | **violated**: `StoredSendReturns` |
| `ClientSync` | 3 messages, 2 connections, a visible and a foreign conversation, a user who reads and writes | typing, `NoDuplicates`, `KnownIsShown`, `OnlyOvertakenMissed`, `ShownInServerOrder`, `EventuallyShown` |
| `ClientSyncWriter` | the same | **violated**: `NothingMissed` |
| `ReadReceipts` | 2 users, a conversation of both and one of a single user, 1 connection, 2 messages | typing, `OpenIsRead`, `ReadStaysRead`, `TicksMatchMarkers`, `TicksAreTrue`, `MarkSentOrKnown`, `MarksCoverOnlySeen` |
| `DataDirectory` | 5 base directories, 2 possible `data`, each packaged with neither, either or both files, 3 sets of read-only directories, 2 values of `SM_DATA_DIR`, 2 directories to start the client from | typing, `FindsWhatItSaved`, `ServerFindsItsFiles` |
| `IdentityManager` | 2 handlers, 3 nicknames in 2 classes, 2 passwords, 2 certificates, 2 tokens, identifiers to 2, failing disk; files with no account, one, or two that clash | typing, `AccountsDistinct`, `MemoryMatchesFile`, `SessionsNameAccounts`, `NoPlainPasswords`, and that the manager implements `AccountBook` |
| `ClientSession` | 2 users, 3 nested loops, an `identity.db` that lists any of them at first | typing, `OneAuthAtATime`, `QuietWithoutProfile`, `SavedProfileIsShown`, `CredentialsMatchFile`, `FormComesBack` |
| `ClientSessionLateReply` | 2 nested loops | **violated**: `ResetHolds` |

Why the bounds are enough for what is asked. The store's steps look at one record
being written and at the file before it; with three records there is a record
before, one being written and one after a rollback or a restart, with two
messages to tell apart. The service's races are between two broadcasts and one
stream, and a channel of one is full after one message, as the code's channel of
64 is after 64; streams do not interact with each other except through the
sender's `todo`. The client's races need two requests in flight. Accounts clash in
pairs, so two in the file found are enough, one of them with a password that
looks hashed. Three nested loops allow a renewal in a renewal in a renewal, and a form
above two of them. Of read markers, two messages let one be read and the other
not, in one conversation or in two; one connection is enough for a reply that
finds another profile, because logins and resets do not need it and markers
travel beside it. The tree of `DataDirectory` is the repository's, with the client
built in a directory below its root and the server in another; both `data` that
come with a repository may be there, complete, with one file or empty. More
levels repeat the same search, and more changes between two starts are several
steps. The proofs of it have no such bounds.

What the conditional properties excuse. `Overtaken` in `PullService` is an
envelope that a later one preceded into the stream's channel; in `ClientSync` a
message below an own one whose identifier came with the reply to its POST. Both
are what the violated runs show; the passing runs show that there is no other
way to miss a message, under concurrent sends, full channels, lost and reordered
replies, and kills. `skipped` in `ReadReceipts` is the same for a client whose
cursor also comes from the `messages.db` of an earlier login: messages the
cursor of this installation has passed without showing them, for whichever of
its users, may be covered by a marker or carry a tick nobody has earned, all
others may not. `MarkSentOrKnown` excuses a marker that was never sent (`unsent`):
such a marker the server does not learn of, and the user's other devices keep
the messages unread. `AccountsDistinct` excuses two accounts that clash in the
file found at first, which nothing repairs. `NoPlainPasswords` excuses a word of
`LooksHashed`: src/README.md:390 says that plain passwords are migrated on load, the
code leaves one that consists of two base64 words joined by a colon as it is,
and its user cannot log in any more. `SavedProfileIsShown` excuses a registered
user of whom the client keeps no credential: a late reply of the directory that
does not list the registered user makes the first user listed the profile.
`CredentialsMatchFile` excuses a spoiled file: memory goes on with the credentials
it had and the next write restores them, but a restart before it loses them.
`FindsWhatItSaved` speaks of a client that is started as before: one started from
another directory or with another `SM_DATA_DIR` may look elsewhere, that is what
they are for. `ServerFindsItsFiles` speaks of a server with both files in one
directory; with `identity.db` alone in a higher `data` the client writes `messages.db`
beside it, and the next start takes that one.

Deadlock is checked except in the runs of `PullService`: there a panic ends the
server, and the bound on messages lets everything come to rest.

### What the violated runs show

- `MessageStoreFaultyDisk`: `UpdateReadMarker` changes memory before the write and
  does not undo it when the write fails. The retry finds nothing to do and
  succeeds; after a restart the marker is gone.
- `PullServiceTwoSenders`: `Save` and `broadcast` are separate, so of two Sends the
  later one may reach a stream first, and `rec.ID <= lastSent` drops the other.
- `PullServiceAbortedSend`: a Pull that returns closes the channel a running
  broadcast still holds; the Send panics though its envelope is stored.
- `ClientSyncWriter`: the reply to the user's own message moves the cursor past
  messages of others that were not fetched. Polling asks for what is above the
  cursor, so they stay away until the next login.
- `ClientSessionLateReply`: a token renewal that was waiting when the profile was
  reset registers its user again when the reply comes.

### Fairness

- `PullService.LiveSpec`: weak fairness of each sender's, each stream's and each
  overflow goroutine's own steps. The Go scheduler runs every runnable
  goroutine, and a stream whose peer reads comes back from `stream.Send`. An
  overflow goroutine that blocks on the full channel is served by the receiver,
  in order.
- `ClientSync.LiveSpec`: strong fairness of polling (a timer that repeats, also
  for a user who keeps writing), weak fairness of a handler's own steps and of
  a POST's end, by an answer or a loss; strong fairness of a fetch's answer and
  of its arrival: a network that does not lose every fetch for ever. The
  property is stated for runs in which the client is left running.
- `ClientSession.LiveSpec`: an innermost loop told to quit returns. That requests
  end is not assumed: `sendAuthRequest` sets no transfer timeout, so a server that
  accepts and never answers keeps the form hidden for ever. `FormComesBack` has it
  as a premise, and says that nothing else does: no reply that comes in another
  order, no function waiting below, no error path that forgets the flags.

## 4. The proofs

`MessageStoreProofs` proves, for all sets of messages, slots and keys, all bounds
and a disk that fails or not, from `KeysAssumption` (the empty fingerprint is not
the fingerprint of a key), `BoundsAssumption` and `FaultyDiskAssumption`:

| Theorem | Statement |
| --- | --- |
| `Invariance` | `Spec => []IInv` |
| `TypeCorrect` | `Spec => []TypeOK` |
| `ToldStaysDurable` | `Spec => []ToldIsDurable` |
| `IdsAreUnique` | `Spec => []IdsNeverReused` |
| `IdsIncrease` | `Spec => []MonotonicIds` |
| `MemoryAgreesWithFile` | `Spec => []MemoryMatchesFile` |
| `KeysAgree` | `Spec => []KeyAgreement` |
| `FileNeverShrinks` | `Spec => FileOnlyGrows` |
| `StoreImplementsLog` | `Spec => ImplementsLog` |
| `MarkersDurableOnReliableDisk` | `~FaultyDisk` implies `Spec => []AckedMarkersDurable` |

None of these is inductive alone. That an identifier is never reused depends on
how the file looks when it is read: `load` takes the largest identifier for the
counter, which is right only if identifiers in the file are positions (`FileOK`).
That they stay positions depends on the counter being the number of records and
on memory being the file plus at most the record being written (`MemoryOK`), and
that depends on which step of `Save` the holder of the lock stands at, and on the
phase of the process (`PhaseOK`). `IInv` is the conjunction, with `TypeOK` and
`ToldIsDurable`. One lemma per group of actions shows that it is kept; the
properties follow from it, and the two properties of steps from it and the lemma
`FileSteps`, which says what each step does to the file and to what is told.

The last theorem marks the limit of the run `MessageStoreFaultyDisk`: with a disk
that never fails the acknowledged markers are in the file through every crash.
It needs one more conjunct, `MarkersOnFile`: only the marker that the holder of
the lock is writing differs from the file.

`PullServiceProofs` proves, for all sets of senders, streams and conversations,
all markers and filters clients ask for and every capacity of a channel, from
`RequestsAssumption` (markers are numbers, filters are sets of conversations) and
`BoundsAssumption` (a channel has room for at least one envelope):

| Theorem | Statement |
| --- | --- |
| `TypeCorrect` | `Spec => []TypeOK` |
| `Invariance` | `Spec => []IInv` |
| `InOrder` | `Spec => []InOrderWithoutDuplicates` |
| `NothingIsLost` | `Spec => []NothingLost` |
| `PullImplementsFeed` | `Spec => ImplementsFeed`, that is `Feed!Spec` |
| `OneSenderSkipsNothing` | `OneSender` and `Capacity >= MaxMessages` imply `Spec => []NothingSkipped` |
| `NoPanicWithoutReturn` | `Spec => []((\A p : stage[p] # "ended") => StoredSendReturns /\ ~crashed)` |

`TypeOK` is inductive. It contains `Len(ch[p]) <= Capacity`, which a receive that
admits a parked sender must not break: it removes an envelope before it adds
one. The order of a stream is not inductive: it needs that all that was sent is at
most `lastSent`, and, while the history is sent, that the copy ascends and is above
`lastSent`.

`NothingLost` says of an envelope that a stream wants and was not sent two things:
why it was not sent yet, and where it is. The first needs what happens before the
stream is live. `HistoryOK` says that the copy has no gap and that everything
wanted below its first record has been sent, so when the copy is empty nothing is
missing up to `lastSent`. `ChannelOK` says that the channel holds the last of what
entered it and that nothing is received before the stream is live. `LiveOK` then
says that what has been received and is wanted was sent or overtaken. When an
envelope moves `lastSent`, each identifier between the old and the new value was
either received before, and `LiveOK` speaks of it, or has not entered the channel
before the new one, and that is to be overtaken. Envelopes that enter the channel
in the meantime change neither. `InFlightOK` says that what goroutines carry is
stored. The predicates take the values of one stream as parameters, so a lemma
about a channel or a copy holds for whatever step changes it.

The second is `DeliveryOK`: a stream that is being read is in the service's set of
subscriptions from `Subscribe` on, and whatever it asked for has been sent, is in
the copy of the history, has entered the channel, is with an overflow goroutine,
or is in the hand of a sender that has still to come to this stream or was
aborted (`ReachedOK`). The decisive steps are the ones that change hands: what is
stored before the copy is taken is in the copy; what is stored after it belongs to a
sender that has not copied the subscriptions yet, and finds the stream among
them; a sender leaves a stream only by a channel operation, by an overflow
goroutine, or because the stream does not want the envelope.

The refinement takes two more parts. `MarkersOK`: `lastSent` is never below the
client's marker, so what is forwarded is above it. `BacklogsOK`: what was stored when
the Pull subscribed and is asked for is sent or still in the copy, so a stream that
goes live has caught up; that the replay has no gap is `HistoryOK` again. One
lemma per step of `MessageFeed` maps the steps of `Pull` to it; everything senders
and overflow goroutines do but `Save` is a stutter.

The last two theorems mark the limits of the two violated runs. With one sender
at a time and a channel that never fills, no overflow goroutine is started and
envelopes enter a channel in the order of their identifiers (`LoneOK`), so nothing
can be overtaken, and `DeliveryOK` says where the rest is. That a pending envelope
finds room follows from the order too: the channel's history has no more
envelopes than the last one's identifier. A sender that was aborted does not send
again in the model; a program whose Send panicked and then sends anew is the case
of two senders. And no panic comes before a Pull has returned (`PanicsOK`).

`ClientSyncProofs` proves, for all sets of conversations and connections and all
bounds, from `VisibleAssumption` (the visible conversations are conversations):

| Theorem | Statement |
| --- | --- |
| `Invariance` | `Spec => []IInv` |
| `TypeCorrect` | `Spec => []TypeOK` |
| `NothingShownTwice` | `Spec => []NoDuplicates` |
| `KnownStaysShown` | `Spec => []KnownIsShown` |
| `OvertakenInvariance` | `Spec => [](IInv /\ OInv)` |
| `MissedWereOvertaken` | `Spec => []OnlyOvertakenMissed` |
| `ServerOrderShown` | `Spec => []ShownInServerOrder` |
| `ReadersMissNothing` | `Spec => [](own = {} => NothingMissed)` |

`IInv`: a message is added only if it is not known, so nothing is repeated as long
as `known` is what is shown (`ViewOK`), and a start keeps that because the local
file is a copy without repetition, with a last message for the cursor to stand
at (`CopyOK(cache)`).

`OnlyOvertakenMissed` speaks of quiet states, and the argument has to follow what
is under way. `Covers(log, own, known, k)` says that every visible message up to
`k` is known or overtaken by an own message up to `k`. `OInv` states it of the
cursor (`CursorOK`), of the `since_id` of every request and of the message before
the first of every reply on its way (`RequestsOK`) or in hand (`HandlingOK`), and
of the last message of the view and of the local file (`FineCopy`), whose order is
the server's but for overtaken messages. A message that is added from a reply to
a fetch continues what is covered, or was overtaken; the reply to a POST covers
up to its own message, because everything below is overtaken by it; an overtaken
reply adds nothing and moves nothing back. `ReadersMissNothing` is the case without
own messages, which the run `ClientSyncWriter` lacks.

`IdentityManagerProofs` proves, for every number of handlers, all sets of
nicknames and their folding, of passwords, certificates and tokens, every file
found, with any clashes, and a disk that fails or not, from the assumptions in
`IdentityManager` (there is a first identifier to give out, the empty certificate
is not one of a device, the accounts of a file have identifiers of their own and a
largest among them):

| Theorem | Statement |
| --- | --- |
| `Invariance` | `Spec => []IInv` |
| `TypeCorrect` | `Spec => []TypeOK` |
| `AccountsStayDistinct` | `Spec => []AccountsDistinct` |
| `MemoryAgreesWithFile` | `Spec => []MemoryMatchesFile` |
| `SessionsAreOfAccounts` | `Spec => []SessionsNameAccounts` |
| `PasswordsHashed` | `Spec => []NoPlainPasswords` |
| `BookImplemented` | `Spec => ImplementsBook` |

`MemoryMatchesFile` speaks of states in which no registration is writing.
`MemoryOK` and `LockOK` say what memory is in the others: nothing before the file
is loaded, the migrated accounts while they are written, and the file with the one
new account while its registration holds the lock. So `TakeBack` gives the file
again, and an account that passed the search for a clash in memory clashes with
none in the file. That a new identifier differs from all others is `NumbersOK`:
`nextUserIDLocked` adds one to the largest number, so there has to be a largest;
`HasLargest` says so without supposing the accounts finite, and holds after a
registration because the new number is it. `IssuesOK` says that whoever waits
for his token is in the file; it is what `SessionsNameAccounts` needs of a token
issued after the lock was released. For `AccountBook` the file's accounts without their passwords are
the book. A migration changes passwords only and stutters there; a write that
succeeds opens one account, which clashes with none because the search found
none; what is told is in the book (`ToldOK`). Accounts that
clash are known by identifier, nickname and certificate, which a migration leaves
as they are, so `MayClash` still holds of them after it.

`ClientSessionProofs` proves, for any users and any depth of nested event loops,
from `MaxDepthAssumption` and `NoUserAssumption`, and any `identity.db`:

| Theorem | Statement |
| --- | --- |
| `Invariance` | `Spec => []IInv` |
| `TypeCorrect` | `Spec => []TypeOK` |
| `FormsWaitAlone` | `Spec => []OneAuthAtATime` |
| `NoProfileNoTraffic` | `Spec => []QuietWithoutProfile` |
| `SavedIsShown` | `Spec => []SavedProfileIsShown` |
| `CredentialsKept` | `Spec => []CredentialsMatchFile` |
| `ResetHoldsUnlessRenewing` | `Spec => [][StaysSettled]_vars` |
| `ResetOutlivesRestarts` | `Spec => [][StaysGone]_vars` |

`OneAuthAtATime` is not inductive: nothing in it keeps a renewal from nesting in
a waiting form, which would then return below one and clear the flags of another.
`FormsOK` says that a form is the top of the stack, that `busy` and `inFlight` say
whether it is, and that while it waits there is no profile. Functions that renew
the token, and the reset, need a profile, so nothing starts above a form; a
reply to a renewal cannot create one meanwhile, because the renewal lies below
the form and cannot return before it, and the directory changes the name of a
profile, not whether there is one.

`SavedProfileIsShown` needs `CredentialsMatchFile`: a reload finds the registered
user in `identity.db` because memory has a credential of his only if the file
does, or if the file cannot be parsed, and then the reload changes nothing
(`ReloadedFits`). A form that returns puts its user into the file before the
screen shows him.

The last two theorems mark the limit of the run `ClientSessionLateReply`. A client
is `Settled` when it has no profile and nothing but a form waits; a reset with no
call waiting makes it so, and while it runs only the success of a form ends that.
The reply to a directory request sent before the reset does not restore the
profile at once, but it saves the first user listed, and the next start takes him
for registered. So a reset that is to hold through restarts too (`Gone`) needs in
addition that no such request is under way.

`ReadReceiptsProofs` proves, for any users, conversations, connections and number
of messages, from `NamesAssumption` (no user and no conversation are none of
the users and conversations), `MembersAssumption` and `MaxMessagesAssumption`:

| Theorem | Statement |
| --- | --- |
| `Invariance` | `Spec => []IInv` |
| `TypeCorrect` | `Spec => []TypeOK` |
| `OpenStaysRead` | `Spec => []OpenIsRead` |
| `NothingUnreadAgain` | `Spec => []ReadStaysRead` |
| `TicksFollowMarkers` | `Spec => []TicksMatchMarkers` |
| `TicksMeanSeen` | `Spec => []TicksAreTrue` |
| `MarksAreSent` | `Spec => []MarkSentOrKnown` |
| `MarksMeanSeen` | `Spec => []MarksCoverOnlySeen` |

The core of the invariant, `Fits`, speaks of what a handler works on (the client's
memory, its `QSettings` and the POSTs it sends), so it can be shown of each state
the loop over a reply passes through, and not only of those between steps.
Each property needs one more part of it:

- `NothingUnreadAgain`: `ReadFits`. A message that was read is shown or invisible,
  and where it is shown the marker covers it. `MarkRead` may lower the marker,
  but to the newest message shown.
- `MarksAreSent`: `StoredFits`. The marker in `QSettings` is at least the one in
  memory, and where it is beyond the server's a POST of it is in `out`, or it is
  `unsent`. The property alone is lost by a restart, which takes the marker from
  `QSettings`. While nobody is registered all that is stored counts as unsent.
- `TicksMeanSeen`: `PeersFit`. While somebody is registered, a peer's marker is at
  most one the server has of somebody else, whoever was registered here before;
  the server's markers are true by `MarksCoverOnlySeen`, up to `skipped`.
- `MarksMeanSeen`: `OutFits`, the same for markers on their way, and `ViewFits`:
  what is not shown below the cursor is skipped for good.
- `OpenStaysRead`: `OpenFits`, message by message of the open conversation.

`WireFits` says that replies name messages the server has and markers it has
reached; both only grow, so replies may be as late as they like. One lemma per
handler shows that it keeps `Fits`; the steps of server, network and other
devices, which leave the client alone, share the lemma `EnvironmentKept`. That
the loop's recursive function exists is shown by induction over the number of
messages handled, in the form `SetInduction` of `Intervals`: a set of numbers with 0 and
all successors is `Nat`.

`DataDirectoryProofs` proves, for every tree of directories, every place of the
two programs, every `SM_DATA_DIR` and working directory the client is started
with, any directories that cannot be written, these too changing between starts,
and either or both files in any directories, from `BasesAssumption` (the places
named are in the tree) and `PathAssumption` (the way up from a directory starts
at it):

| Theorem | Statement |
| --- | --- |
| `Invariance` | `Spec => []IInv` |
| `TypeCorrect` | `Spec => []TypeOK` |
| `ClientFinds` | `Spec => []FindsWhatItSaved` |
| `ServerFinds` | `Spec => []ServerFindsItsFiles` |

Both properties compare a search before a step with one after it. `FindsWhatItSaved`
holds because the client's files, and the copies it makes, appear only in the
directory the search led to. If that was the fallback, its first file may make it
a match that it was not before; every other candidate stays as it was, so the
search finds it or falls back to it. A server that starts may write its own
formats over files that are there, which changes no search, and makes new files
in at most one or two directories: if none of them is one the client searches,
other than the one it uses, every candidate stays as it was.
`ServerFindsItsFiles` needs that no file of the server's names appears in a `data`
above its home: the client writes to a `data` only if it has one of the two files
already, and a `data` above the home that had one would have been the home of it.
That is where both files have to be in one directory. `AtHome` and `Standing` say
that the files looked for are there. Where the server creates new files is the
highest `data` there is, which after creating them is the highest that holds them.

`Intervals` has what the last two share about sets of numbers.

Left to TLC: `SendNeverWaits`, which speaks of ENABLED, and the liveness
properties `WantedIsDelivered`, `EventuallyShown` and `FormComesBack`, which
speak of fairness: both are out of the proof system's reach. The properties the
violated runs refute are no theorems; `MarkersDurableOnReliableDisk`,
`OneSenderSkipsNothing`, `NoPanicWithoutReturn`, `ReadersMissNothing` and
`ResetHoldsUnlessRenewing` say when they hold.

## 5. Not modelled, and why

- Conversion of message files of earlier releases (`load` of records without
  identifiers or with plain text): the numbering is a recursion over the file,
  which the proofs about the store cannot follow.
- What a file system keeps across a power failure: a crash here is the end of the
  process.
- Cryptography, TLS and base64: libraries. A key is its fingerprint, a password
  hash is the password marked as hashed, a certificate is a value.
- What is in a file that both programs write: `DataDirectory` reaches states in
  which the client, having found the server's directory, has written its JSON
  over the server's gob. A server that is started then reads it as a file of an
  earlier release, without the messages the client's user may not see and
  without the accounts the client has no password of. The model has who wrote a
  file, not what was lost with it.
- The construction of direct conversations' identifiers and the order of the
  conversation list: strings and time stamps.
- In `ReadReceipts`: the profile a late token renewal restores without loading
  its history (`ClientSessionLateReply`), the moments in which a registered user is
  not the one on the screen (`ClientSession`), and writes of `messages.db` that fail
  (`ClientSync`). A marker POST that is lost is one that never arrives.
- In `DataDirectory`: a server started from another directory, or one that may not
  write where it looks.
- Reads without effect (`GetProfile`, the directory service, `healthz`), flags,
  logging, layout, generated code, build scripts.

## 6. The plan

In the order of importance; all but the last item is done.

1. `MessageStore` with `DurableLog` and its proofs; `PullService`; `ClientSync` and
   its proofs; `IdentityManager` with `AccountBook`; `ClientSession`.
2. `ReadReceipts`, `DataDirectory`; `ClientSync` and `PullService` with all their
   faults in one run each, and what is missed under them stated exactly.
3. `PullServiceProofs`: type correctness, the order of a stream, `NothingLost`, the
   implementation of `MessageFeed`.
4. `IdentityManagerProofs`: distinct accounts, sessions of accounts, the
   implementation of `AccountBook`.
5. `ClientSessionProofs`, `ReadReceiptsProofs`, `DataDirectoryProofs`: every invariant
   of their runs.
6. Theorems that mark the limits of the violated runs.
7. Left: files of earlier releases need a model of their own, whose numbering of
   records TLC checks.
