# Verification of drop-file

drop-file moves a file or a directory from one machine to another through a
server. The sending client connects, announces the file and is told a code; the
receiving client connects, enters the code, confirms; the server relays the
bytes. This directory holds TLA+ models of that system, the TLC configurations
that check them on small instances, and proofs that the TLA+ proof system checks
for every instance. Paths below are relative to the repository.

## 1. Inventory

| Part | State | Operations | Talks to |
|---|---|---|---|
| `SessionsManager` | map code -> (session, metadata, time), mutex, controller thread | `registerSender`, `getSenderWithMetadata`, `currentSessions`, `terminateTimeoutClients` | called by sessions on the io thread; the controller runs beside it |
| `DropFileServer` | acceptor, `io_context`, one thread in `run()` | `acceptNewConnection`, `run` | creates sessions |
| `ServerSideClientSession` | socket, weak pointer to the manager, kept alive by pending reads, by the map or by a running handler | `start`, `handleFirstRead`, `registerSession`, `receiveFile` | both clients, the manager |
| `SocketBase` | TLS stream, 1 MiB buffer | `send`, `receive`, `receiveToBuffer`, `asyncReadMessage`, `receiveACK`, `sendACK`, `disconnect` | the peer |
| `InitSessionMessage` | none | `createSendMessage`, `createReceiveMessage`, `create`, `validate` | both clients and the server |
| `DropFileSendClient` | socket, temporary directory | `sendFSEntryMetadata`, `sendFSEntry` | the server, the sender's disk |
| `DropFileReceiveClient` | socket, temporary directory | `receiveFile` and its parts | the server, the user, the receiver's disk |
| `ArchiveManager`, `FSEntryInfo`, `zstd` | streams | pack, unpack, compress, decompress | the disk |
| `RAIIFSEntry`, `Utils`, `ClientSocket`, argument parsers, word list, `main` | - | helpers | - |

What is hard here:

* Two threads share the manager's map: a sender can be swept, and its code told to
  another one, while a receiver is on its way with that code.
* Everything else in the server shares one thread, and parts of it block without a
  timeout: the TLS handshake, and a whole transfer with its human confirmation and
  every piece of the file. A peer that is silent there holds up everybody, the
  accept loop included, and the controller keeps removing senders meanwhile.
* A session has no explicit owner: it lives as long as a pending read, the map or
  a handler holds a reference, and its connection closes when the last one goes.
* The protocol has no message types. Position decides what a message means, so
  one message too many or too few, or an error text in the wrong place, is read
  as something else.
* Either client, the file on the sender's side and the disk on the receiver's
  side can change or fail at any point; no read has a timeout.
* The manager measures time with the system clock, which can be set.
* The archive is a stream of headers and compressed data in which only lengths
  say where one ends and the next begins. One length is patched into a header
  after the data behind it; no write to the stream is looked at.
* All clients of a machine share two temporary directories, and each client
  empties its directory when it starts and removes it when it ends.
* A key of the first message is read long after it was validated, in handlers
  whose exceptions nobody catches.

What makes each part correct:

* Manager: a sender is never lost, handed out twice, overwritten, kept beyond its
  time or terminated before it, up to what the clock was set; its code leads to it and to nobody else; registration returns.
* Server: peers hear things in the order their clients expect; nothing but a
  connected peer that the thread waits for stops the accept loop, and every
  connection is released; a code leads to the sender that was told it, and is
  refused only if that sender is gone.
* Transfer: "sent" means the receiver took every byte; "received" means the file
  is the announced one; the relay is faithful and bounded; nothing leaves the
  sender unconfirmed; nothing older is overwritten; everybody comes to an end.
* Archive: unpacking what was packed gives the directory back; what cannot be
  packed whole is refused; nothing is made up; no way is followed twice or for ever.
* First message: no accepted message makes the server or the receiver fail over
  one of its keys later.
* Temporary files: a client that runs alone is not disturbed by what others left; a
  wrong archive is not unpacked; nothing stays behind.

The hazards behind these properties are listed with their lines in
`PROJECT.json`.

## 2. Modules

| Module | Models |
|---|---|
| `Rendezvous` | the abstract promise of the manager: offers, meetings, withdrawals |
| `SessionsManager` | `SessionsManager.cpp`; its properties and inductive invariant |
| `DropFileServer` | `DropFileServer.hpp`, `ServerSideClientSession.cpp`, the asynchronous reads of `SocketBase.cpp`; EXTENDS `SessionsManager`, whose actions are conjuncts of its own |
| `FileDelivery` | the abstract promise of a transfer: consent, bytes, what each user is told |
| `Transfer` | one transfer: `sendFSEntry`, the server's `receiveFile`, the receiver's `receiveFile`, with the synchronous half of `SocketBase.cpp` |
| `Archive` | `ArchiveManager.cpp`, `FSEntryInfo.cpp`, `zstd.cpp`: a directory packed and unpacked |
| `InitSessionMessage` | `InitSessionMessage.cpp` and every later access to a key of the message |
| `ClientFiles` | the constructors and destructors of the clients, `RAIIFSEntry.hpp`, and what each step of a client does to the temporary directories |
| `*_proofs` | the proofs about `SessionsManager`, `DropFileServer`, `Transfer`, `Archive`, `InitSessionMessage` and `ClientFiles`, with their inductive invariants; those about `Archive` are in three modules, `ArchiveLayout_proofs`, `ArchiveWalk_proofs` and `Archive_proofs`, each of which extends the one before |
| `MC*` | symmetry sets, sets of faults and sets of directories for TLC |

Definitions named "Mistake" in a comment are wrong variants of the definition
that follows them. They are no part of the model; each shows that a property
would notice a bug of that kind.

### SessionsManager

`senders_sessions` is the map; an entry keeps `elapsed`, what the system clock
says of the time since `time_point`, and `age`, the time that really passed.
`caller` is where a session is in `registerSender`:
`GenerateSessionID` (outside the mutex), then `RetryTakenCode` or `InsertSender`
(one critical section each). `GetSenderWithMetadata` and
`ThrowUnknownSessionCode` are the two outcomes of that call; `asked` records the
code it was called with, and `Find` is the look-up. `Rendezvous` has the entered
code too (`entered`): a receiver may meet only the sender on offer under the very
code it entered, and may be refused only when nobody is, so a manager that hands
out another waiting sender does not implement it.
`TerminateTimeoutClients` is one sweep, `Tick` one second; `controller_sleep`
counts down the controller's sleep, which does not depend on the system clock.
`SetBack` and `SetForward` set that clock, by at most `MAX_CLOCK_STEP` in all each way;
`set_back` and `set_forward` record by how much. The model lets any number of
sessions be inside `registerSender` at once, which is more than the server's one
thread does, and what the class's mutex is for. Time is whole seconds, and the
controller is punctual: a sweep takes place before the second after its sleep.
The JSON metadata travel with the session and are left out. Shutdown
(`stop_token`) is left out.

### DropFileServer

`io` is what the one thread is doing and for whom; `conn` the server's end of
each connection, from the backlog to closed, where "owned" means that only the
map or a running handler holds the session; `inbox` what of the first message
has arrived; `heard` the messages a peer was sent. Handlers that block are
several actions with `io` in between; handlers that do not are one. The calls of
the manager are the actions of `SessionsManager` themselves, so by the shape of the
definitions the server takes no other steps on the manager's variables. Closing by
lost reference is explicit: `SendCode`, `EndTransfer` and `Sweep` close the
connections whose last owner goes. The relay has two places here, at each of which
the thread blocks without a timeout: "relay", where it waits for the sender's next
piece, and "forward", where it waits for the receiver to take a piece or to answer.
`PieceReceived` and `PieceSent` are the returns of these calls and need a peer to
do something (`PeerMoves`); the relay ends when the receiver acknowledges
(`RelaySucceeds`), when a peer sends something else (`RelayRefused`), or when the
peer that the thread turns to is gone (`TransferThrows`). Bytes, counts and hashes
are in `Transfer`, whose `Starved` state is a thread that stays in "relay".
`PROMPT = TRUE` makes the thread's own steps take no time, so that whatever is
late is late because somebody else blocked the thread. The clock is not set
here (`MAX_CLOCK_STEP = 0`): what that does is the manager's alone. `wanted` and `meant` are
what the receiver asked for and which sender that was at the time: they only
record.

### Transfer

A message is a sequence of bytes. The announced file is 1, 2, ..., n, so that an
exchanged, lost or repeated byte shows; fixed texts have bytes of their own; and
the reader's position decides what a message means. `up` and `down` are the two
connections, with room for `CHANNEL_CAP` messages. Closing a socket with unread
input resets the connection: the other side may then see an error before it has
read what is there. A crash is an end like any other to the peers. The step from
the existence check to the open is two steps, as in the code, and so is the one
from the archive's only check, before the user is asked, to its unpacking; the
path can appear at any time (`PathAppears`): before the receiver's last look at it
("foreign") or after that ("late"). An open and a write that fail are silent, as in
the code. The hash tells contents apart (no collisions).

`InAvail` is what `readsome` finds available in libstdc++ on Linux: the kernel's
`FIONREAD` answer, which is an int. `AVAIL_MODULUS` is 2^32 in the build. A value
larger than any file leaves the width out; `TransferLargeFile.cfg` puts it in.

A file that shrank after it was announced leaves the sender waiting for the
acknowledgement and the others for data; `Starved` is that state, and the only
one besides a foreign sender in which `TransferEnds` lets the programs rest.
`SenderReleasesAll` says what gets them out: the end of the sender, for instance
by its user.

`FileDelivery` is the same transfer as its two users see it. There is no server,
no message and no disk in it: an answer, bytes that leave, bytes that arrive, and
an outcome for each user. Bytes leave only after consent; more than the announced
size never arrive; the sender succeeds only when all of them have, the receiver
only when what it keeps is the announced file; an outcome is final. Under the
refinement mapping of `ImplementsDelivery`, `total_bytes_read` is what left,
`total_transferred_bytes` what arrived, `received_file` what is kept, and
`Outcome` reduces the control state of a program to what its user is told. All
steps of the server, the network and the environment are stuttering steps.

### Archive

A path is the sequence of its names; the archive is a sequence of units: a header
field, the start of a frame, a compressed block, the end of a frame. Byte `i` of
the file at `p` is `<<p, i>>`, so a byte in the wrong place or file shows. `put`
and `get` are the positions of the two streams: `WriteCompressedLength` seeks
back, overwrites and seeks to the end. `stack` is the recursion of
`packDirectory`; children come in any order, links are followed as `status()`
does. The directory is any function from paths to what is there (`IsTree`), where
a link leads to what it finally leads to, or nowhere; an entry's path in the
archive is the way `packDirectory` took, so what is behind a link is packed once
for every way that leads to it (`Walks`). A look at the directory may throw at any
point (`WalkThrows`), for instance because the system gives up on a chain of links.
`visited` records which entries were begun, what they were made from and where they
begin: nothing depends on it. `Decompressed` is what comes out of the units of a
frame. `CompressChunk` and `DecompressChunk` are one round of the loops in
`zstd.cpp`. The library is external: `ZSTD_compressStream2` collects input until
it has a block, may hold one block back, and ends the frame only when told
`ZSTD_e_end`; `ZSTD_decompressStream` accepts frames and reports anything else,
and a frame that has not ended is no error. A full disk is silent from some write
on, as the code never looks at the stream. An unpacking reader that meets
compressed data where a header should be is `garbled`, whatever it would make of
it.

### InitSessionMessage

A message is what was parsed: nothing, no object, or an object with a type for
each key it has; of the values only the action's text is kept. After `Create`,
each step is one place that takes keys out of the message: `HandleFirstRead`,
`RegisterSend` or `RegisterReceive` and `ServerReceiveFile` at the server, where
an exception ends `run()`, and `GetServerResponse` and `ClientReceiveFile` at the
receiver. `ForeignConfirms` is a receiver that is another program.

### ClientFiles

Any number of clients, each a sender or a receiver, over the two directories
`drop-file/sender` and `drop-file/receiver`. A file is named after the client that
created it and keeps its content after it lost its name, as files do on Linux.
Each look at a path is a step, so another client may come between the check and
the open, or between the hash and the unpacking. `entry` is the sender's
`RAIIFSEntry`; `MovedFrom` is what its move constructor leaves. `remove_all` fails
when another client puts something into the directory meanwhile
(`RemoveAllThrows`), which ends the process with part of the directory removed.
The path that the user named is made an entry that removes nothing, and no state
of it is kept here. `disturbed` and
`late` record who ran at the same time as whom: they only record. The bytes
themselves are left to `Transfer`.

## 3. Runs

Bounds are chosen so that each race has one more participant than it needs.

| Run | Bounds | Shows |
|---|---|---|
| `sessions` | 3 senders, 2 receivers, 2 codes, timeout 3, interval 2, clock set by up to 2 | `TypeOK`, `ExclusiveHandOut`, `SendersAccounted`, `CodeReachesItsSender`, `BoundedStay`, `ManagerInv`, `KeptForTimeout`, `ImplementsRendezvous`. Fewer codes than senders, so codes are taken, fought for and reused; an interval above one second, so a sender can outstay its timeout; clock steps below the timeout, so that both a negative elapsed time and an early expiry occur |
| `sessions_live` | 3 senders, 1 receiver, 1 code, timeout 2, interval 1, clock set by up to 1 | `SenderLeaves`, `RegistrationReturns`. One code for three senders |
| `transfer` | buffer 2, files of 0 to 4 bytes, 2 messages per connection, every fault | `TypeOK`, `SentMeansTaken`, `ReceivedIsAnnounced`, `ServerControlsBytes`, `StreamInOrder`, `OlderPathKept`, `ImplementsDelivery`, `TransferEnds`, `SenderReleasesAll`, `AcceptedIsDelivered`. Sizes below, at, between and at twice the buffer; a channel short enough for writes to block |
| `transfer_large_file` | files up to 5 bytes, width 4, no fault | `AcceptedIsDelivered` is violated (section 6) |
| `transfer_mismatch` | files up to 2 bytes, replaced once | `MismatchDiscarded` is violated (section 6) |
| `server` | 2 senders, 2 receivers, 2 codes, timeout 1 | `ServerTypeOK`, `HeardInOrder`, `OwnedByMap`, `RefusedOnlyWhenGone`, `EnteredCodeMeets`. A timeout short enough for a code to be swept and told to the other sender while a receiver is on its way with it |
| `server_live` | 2 senders, 1 receiver, 1 code | `IoReturns`, `ConnectionsReleased`, for peers that may fall silent anywhere. One code for two senders, which the real word lists do not come to: the thread has to wait for the controller |
| `server_busy` | 1 sender, 2 receivers, timeout 2, prompt thread | `EnteredCodeIsHonoured` is violated (section 6) |
| `archive` | read buffer 3, block 2, paths of up to 5 names, files of 0 to 7 bytes, every fault | `TypeOK`, `RoundTrip`, `OwnArchiveUnpacks`, `NothingInvented`, `NoPartForTheWhole`, `EveryWayOnce`. Sizes below, at and above one and two read buffers, with and without a rest in the last block; a file, an unreadable or a special entry beside a directory that is empty or holds a file, a link to a file or a link to its ancestor, or beside a directory and a link to it, so that one file is packed under two paths |
| `archive_full_chunk` | the same, no fault | `RoundTripOfEverySize` is violated (section 6) |
| `init_message` | every object over the six keys with five types, or absent | `ServerSurvives`, `MetadataUnderstood`, `OwnMessageAccepted`. No bound: of a value only its type is ever looked at |
| `client_files` | 3 clients, 2 archive names | `AloneWorks`, `WrongArchiveRefused`, `NothingLeftBehind`. Two clients race, a third leaves something behind first; names that collide and names that do not |

Symmetry is used in safety runs only (`sessions`, `server`, `client_files`). In
`transfer_large_file` deadlock is not checked, because the point of that run is
that the system stops; TLC then reports the temporal property itself.

Fairness:

* Manager: a thread inside `registerSender` goes on, the controller and the clock
  go on, and the draw is random, so a code that can be drawn again and again is
  drawn (strong fairness per code). No caller and no receiver has to come, and
  nobody has to set the clock.
* Server: the io thread runs whatever is in its queue (each completion in turn), and
  the manager's part as above. The peers owe nothing: each may be silent for ever in
  its handshake, its first message, its answer and every piece of the file, and no
  call of the server has a timeout. `HeldUp` is a connected peer that the thread
  waits for, by name of the place (`WaitsFor`); `IoReturns` says that the thread gets
  back to its queue again and again unless it is held up for ever, and
  `ConnectionsReleased` that otherwise every connection is accepted and released,
  except those that owe their first message for ever (`Owes`).
* Transfer: each of the three programs goes on while it can, and the user
  answers. Faults need not happen.
* Archive, InitSessionMessage, ClientFiles: none. No liveness is claimed of them; that
  packing comes to an end rests on the safety property `EveryWayOnce`.

## 4. Proofs

A proof module has an inductive invariant in named parts, lemmas about the
operators, one lemma per action that the action keeps the invariant, and at the
end the theorems. TLC checked each invariant on the run's instance before it was
proved.

### SessionsManager_proofs

For any sets of sessions, receivers and codes (with distinct `None` and
`Unknown`), any timeout, any positive interval and any clock steps:

* `TypeCorrect`: `TypeOK`. It needs only `DrawnCode` beside it: a caller about to
  insert holds a real code.
* `Invariance`: `ManagerInv`, by induction, with one lemma per action
  (`InvCaller`, `InvInsert`, `InvClaim`, `InvRefuse`, `InvSweep`, `InvTime` for the
  clock and its being set).
* `HandOutExclusive`, `Accounted`, `CodesReachTheirSenders`, `StayBounded`: the
  safety properties of the run `sessions`, from `ManagerInv`.
* `TimeoutKept`: `KeptForTimeout`, the action property that nobody is terminated
  before the timeout less what the clock was set forward.
* `Refinement`: `ImplementsRendezvous`, with the entered code: `Find` yields the entry
  under that code, so `EntryOwned` makes the sender that is handed out the one that is
  on offer under it, and none is when `Find` yields nothing.

`ExclusiveHandOut` is not inductive alone: a session could be in the map twice,
or in the map and claimed already. `EntryOwned` excludes both by tying an entry
to the code its session was told, which makes the map injective on sessions;
`ClaimOwned` and `TerminatedOwned` keep a session that has left from registering
again; `NoneLost` is the other half, that nobody is missing. `FiniteMap` is there
for the cardinality in `SendersAccounted` (`OneEntryEach` is the bijection).
`ClockError` ties what the clock says of an entry to the entry's real age: it is
off by no more than the clock was set. `BoundedStay` and `KeptForTimeout` rest on
it, since the sweep looks at the clock and they speak of real time. For the
refinement, `OfferIs` shows that the `CHOOSE` in the mapping is the code the
session was told.

### DropFileServer_proofs

For any number of senders and receivers and any refusal delay, with the thread
prompt or not. Senders and receivers are different sets, and `None` is neither
(`ServerAssumption`): a name stands for a connection, and a connection is one or
the other.

* `ServerInvariance`: `ServerInv` together with `ManagerInv`.
* `ServerImplementsRendezvous`: the whole server implements the abstract
  rendezvous, by `Refinement`: the server's steps are steps of the manager or leave
  its variables alone, which the lemma `ManagerWithin` reads off the definitions.
* `OrderHeard`, `ConnectionsOwned`, `RefusalsJustified`, `CodesMeet` and
  `ServerTyped`: `HeardInOrder`, `OwnedByMap`, `RefusedOnlyWhenGone`,
  `EnteredCodeMeets` and `ServerTypeOK`.

`HeardInOrder` says nothing of where the server is, so a handler could be about
to say the wrong thing. `IoWorksFor` ties what the thread is doing to the session
it does it for and to what that session has heard; `SenderHeard` says the same of
senders that wait in the map or are being relayed, and `EarlyIsNew` of those whose
first message is still to come. A peer that left hears nothing, so a message may
be missing, but only then. `OwnedByOne` is `OwnedByMap` with the phase of the
thread: that the sender of a relay is held only during the relay. `MeantWasTold`
gives `RefusedOnlyWhenGone`: the code a receiver wanted was told to the sender it
means, so by the manager's `EntryOwned` and `NoneLost` a code that is missing means a
sender that is claimed or terminated. The same facts, about a code that is there but
leads to somebody else, give `EnteredCodeMeets`.

### Transfer_proofs

For every file size, buffer size (at least 2), channel capacity (at least 2) and
width of `FIONREAD`, and every set of faults, including all of them:

* `TransferInvariance`: `TransferInv`.
* `SentIsTaken`, `ReceivedFileIsAnnounced`, `BytesControlled`, `RelayKeepsOrder`,
  `TransferTyped`: the invariants of the run `transfer`.
* `OlderPathSafe`: the action property `OlderPathKept`. It covers what is there at the
  receiver's last look at the announced name: for a file the one at
  `DropFileReceiveClient.cpp:89`, for an archive the one at `:110`. What appears
  between that look and the open at `:92` or the unpacking at `:71` is not covered,
  and the code overwrites it.
* `DeliveryImplemented`: the refinement `ImplementsDelivery`.
* `NothingUnconfirmed`: the sender's half of consent, by itself.

The acknowledgements carry no number, so nothing in a message says which of the
two it is. `SenderAcks` and `ReceiverAcks` say it by counting: with the server in
its early phases a second acknowledgement in a connection, and later any
acknowledgement at all, means that the receiver has everything (`TakenAll`), and a
sender that got its second one has a server that is done. `AnswerKnown` does the
same for the user's answer: who acts as if the user had agreed has a reason to.
`MetadataFirst` is there because the relay's stream begins with a message that is
no file data; `PathChecked` says that a receiver that found the name taken has
failed, and follows the receiver's file to the hash.

The byte properties speak of messages under way. `Spans(q, from, to)` says that the
lengths of the messages in `q` lead from one count to the other, by a function of
positions rather than by a sum over the queue: a message appended or taken changes
one end of it, which is all the induction needs, and sums over sequences cannot
be proved about here. `Pieces` is the same with the file's contents: each message
is the piece of the file between two positions. `SentInOrder` and
`RelayedInOrder` are the two connections described that way, and `Wires` keeps file
data apart from the fixed texts.

The refinement goes action by action (`DeliveryStep`). `DeliveryIsKnown` draws from
`TransferInv` the few facts it needs: who sends or writes has been agreed to, a
success is told only with every byte taken or the hash right, counts are naturals.
`BytesLeave`, `BytesArrive` and `UserAnswers` are the steps that move something;
`SenderTold` and `ReceiverTold` cover every step that changes one control state
only, and `NobodyTold` the rest. `ReceiverWrite` of an empty message is a stutter.

### InitSessionMessage_proofs

`ServerNeverTerminated`, `MetadataAlwaysUnderstood` and `OwnMessagesTaken`, from
`MessageInv` (`MessageInvariance`): a message behind `create` passed `Validate`, and
one behind `registerSession` is a sender's. Neither is in the properties, which
only say that no access failed; without them a message that validation never saw
could reach an access.

### ClientFiles_proofs

For any number of clients and any archive names, where `None` is neither a client
nor the contents of a directory (`ClientsAssumption`): `AloneSucceeds`,
`NoWrongArchive` and `NothingLeft`, from `FilesInv`
(`FilesInvariance`). `AloneWorks` needs to know at every step what a client that
nobody disturbed has by then (`AloneProgress`), that two clients running at the
same time have disturbed each other (`Overlap`), that a file cannot be anybody's
before it was created (`NotYetThere`), and that who writes a file has not finished
it (`WriterKnown`). `UnpackChecked` is `WrongArchiveRefused` one step earlier, and
`DirectoryInUse` is what `NothingLeftBehind` leaves of itself when the last client
ends.

### ArchiveLayout_proofs, ArchiveWalk_proofs, Archive_proofs

For every directory (`TreesAssumption`), every positive size of the read buffer
and of a block, every positive longest path and every set of faults:

* `ArchiveInvariance`: `ArchiveInv`, by induction, with one lemma per action.
* `TypeCorrect`, `OwnArchiveAlwaysUnpacks`, `NoPartIsTakenForTheWhole`,
  `NoWayTwice`, `NothingIsInvented`, `RoundTrips`: the invariants of the run `archive`.

The properties compare a directory with an archive, and the archive with another
directory; the invariant says in between, entry by entry, where it lies and what
it holds. `Sequenced` puts the entries one behind the other and the write position
at the end. `HeaderKept` is each header with its length, which may be 0 while the
file is open and after the disk was full, but only in the last entry: this is why
the reader finds the next header (`OwnArchiveUnpacks`). `DataKept` is the compressed
data of a file: a frame, from which the beginning of the file comes out, and all
of it once the file is done. For the file being compressed that says nothing of
what is not written yet; `Compressing` adds that archive, library and unread rest
together are the file. A file that fills its last chunk drops out of it exactly
where the code forgets `ZSTD_e_end`. After the disk was full `DataKept` is all that
is left, and all that `NothingInvented` needs.

`Visits`, `Calls` and `NoneForgotten` are about the walk. A child of a visited
directory is passed over by its kind, or is in the `todo` of a call that is still
open, or was visited itself; once no call is open, every way through the directory
was followed to its end (`EveryWayVisited`), which gives `NoPartForTheWhole` and one
half of `RoundTrip`. That a directory which contains itself is never packed to the
end is `NoPartForTheWhole` too: its ways can be prolonged for ever, so one of them
would have to be longer than the longest path. `OneWalk` is the other half: a path
belongs to one way, so nothing is overwritten. `NoWayTwice` has an invariant of its
own, `OnceInv`: the open calls lead one name further each, and behind a child that a
call has yet to look at nothing was visited.

`AtEntry`, `Rebuilt` and `Decompressing` are the reader. What it has rebuilt is
determined by its position: the entries that begin before it, and of the last one
what comes out of the units up to it.

These proofs need induction over numbers and over sequences: that concatenated
units yield concatenated bytes (`OutOfConcat`), that the blocks of some bytes
yield those bytes (`BlocksAre`), that a way was followed at every length. The
induction theorems of the library take an operator and cannot be instantiated
here; `LeastOf`, `AllOfNat` and `AllOfSeq` say the same of sets, from the
well-foundedness of the order of the naturals: a set of naturals that has 0 and
with each number the next is the set of all naturals. `Decompressed` is a recursive
function for that reason.

### Only model-checked

* All liveness (`SenderLeaves`, `RegistrationReturns`, `IoReturns`,
  `ConnectionsReleased`, `TransferEnds`, `SenderReleasesAll`,
  `AcceptedIsDelivered`): liveness under fairness is out of the prover's reach.
* That no program gets stuck where it should not (TLC's deadlock check): `ENABLED`
  is out of its reach too.

Every invariant, every safety action property and both refinements that the passing
runs check are theorems.

## 5. Not modelled

* TLS and certificates: OpenSSL's, seen here as a handshake that succeeds or not.
* Option parsing (argparse, with `removeTrailingSlashes`), output, progress bars
  and human-readable sizes: no state that anything depends on.
* The word list: constant data, the set `Codes`. `getRandom` and `pickRandom` are
  the free choice of a code.
* `stop()` of the server and the shutdown of the controller: the server runs until
  it is killed, only tests stop it.
* A zstd library that cannot be initialised.
* A host that disappears without closing its connections: to the server it is a peer
  that is silent for ever.

## 6. Where the code and its descriptions part

* `transfer_mismatch`: a plain file that fails its hash stays in the receiver's
  directory, while the integration test's name says that it is discarded.
* `transfer_large_file`: `readsome` returning 0 is taken for the end of the file.
  For files of 4 GiB and more the count can be 0 with data left; the sender then
  waits for the acknowledgement, the others for data.
* `archive_full_chunk`: `zstd::compress` recognises the last chunk by its being
  short. A file whose size is a multiple of the read buffer has no short chunk,
  the frame is never ended and what the library still holds is not written; the
  reader does not notice, and the hash is that of the archive. `RoundTrip` states
  what holds for all other sizes.
* `server_busy`: a code entered within the timeout can be refused, because the
  request waits for a thread that another connection blocks while the controller
  removes the sender by age.

A file that shrinks after it was announced has the three programs wait for each
other until somebody ends one of them. No document says otherwise, so this is a
hazard and not a finding; `TransferEnds` names the state and `SenderReleasesAll`
the way out. In the server that wait keeps the only io thread, and with it the accept
loop and every other session, as does every peer that is silent in the handshake, at
the confirmation or in the relay: `HeldUp` in `DropFileServer` names these places. A
receiver that leaves while the thread waits for the sender does not end the wait.

Two clients of one machine can make each other fail, and a receiver can unpack
another's archive when that one comes between the hash and the unpacking;
`AloneWorks` and `WrongArchiveRefused` state what is left.

## 7. Plan

Done: 1 `Rendezvous`, `SessionsManager` and their proofs; 2 `Transfer`;
3 `DropFileServer`; 4 `Archive` with the loops of `zstd.cpp`;
5 `InitSessionMessage`; 6 `ClientFiles`; 7 the clock of `SessionsManager`;
8 the proofs about `InitSessionMessage`, `ClientFiles`, `DropFileServer` and
`Transfer`; 9 the proofs about `Archive`; 10 `FileDelivery` and the proof that
`Transfer` implements it.

Left: nothing that the tools reach. Liveness and the absence of deadlock stay with
TLC (section 4), and what is not modelled at all is listed in section 5.
