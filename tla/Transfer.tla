------------------------------ MODULE Transfer ------------------------------
(***************************************************************************)
(* One transfer, from the moment the server found the sender that belongs  *)
(* to the code: DropFileSendClient::sendFSEntry on one connection,         *)
(* DropFileReceiveClient::receiveFile on the other, and between them the   *)
(* server's ServerSideClientSession::receiveFile, which relays the bytes.  *)
(*                                                                         *)
(* A message is the sequence of its bytes, with nothing that tells file    *)
(* data from an acknowledgement or an error text: the reader's position in *)
(* the protocol decides what a message means, as it does in the code.      *)
(* Bytes of the announced file are 1, 2, ..., OTHER_BYTE is any other byte *)
(* of file data, negative numbers are the bytes of the fixed texts.        *)
(***************************************************************************)
EXTENDS Integers, Sequences

CONSTANTS BUFFER_SIZE,     \* most bytes in one message
          MAX_FILE_SIZE,   \* largest file considered
          CHANNEL_CAP,     \* messages a socket holds before a write blocks
          AVAIL_MODULUS,   \* 2^32 in the build: width of the available count
          Faults           \* which of AllFaults may happen

AllFaults ==
    {"replace", "grow", "shrink", "remove",  \* the sender's file changes
     "foreign",                              \* the sender is another program
     "crash", "disk", "path"}                \* of a client; of the receiver

ASSUME TransferAssumption ==
    /\ BUFFER_SIZE \in Nat \ {0, 1}
    /\ MAX_FILE_SIZE \in Nat
    /\ CHANNEL_CAP \in Nat \ {0, 1}
    /\ AVAIL_MODULUS \in Nat \ {0}
    /\ Faults \subseteq AllFaults

VARIABLES file,                  \* the sender's file, as it is now
          metadata,              \* what was announced about it, at the server
          happened,              \* which of the faults have happened
          sender,                \* where sendFSEntry is
          total_bytes_read, file_size,
          server,                \* where receiveFile is in the server
          data, total_received_bytes,
          receiver,              \* where receiveFile is in the receiver
          total_transferred_bytes,
          received_file,         \* the file the receiver writes
          answer,                \* what the receiving user typed
          path,                  \* the announced name in the receiver's cwd
          up, down               \* messages to and from the server

senderVars == <<file, sender, total_bytes_read, file_size>>
serverVars == <<server, data, total_received_bytes>>
receiverVars == <<receiver, total_transferred_bytes, received_file, answer, path>>
vars == <<senderVars, metadata, serverVars, receiverVars, happened, up, down>>

-----------------------------------------------------------------------------
(* Bytes and messages. *)

OTHER_BYTE == 0
ACK == <<-1>>
ABORT == <<-2>>
METADATA == <<-3>>
ERROR_TEXT == <<-4, -4>>

Lesser(a, b) == IF a < b THEN a ELSE b

\* SocketBase::send: full buffers, then what is left, and nothing for nothing.
Chunks(bytes) ==
    LET full == Len(bytes) \div BUFFER_SIZE
        n == IF Len(bytes) % BUFFER_SIZE > 0 THEN full + 1 ELSE full
    IN  [i \in 1 .. n |-> SubSeq(bytes, (i - 1) * BUFFER_SIZE + 1,
                                 Lesser(i * BUFFER_SIZE, Len(bytes)))]

\* Mistake: only what fits the buffer is hashed.
FileHashOfBuffer(bytes) ==
    [sha |-> SubSeq(bytes, 1, Lesser(BUFFER_SIZE, Len(bytes)))]

\* calculateFileHash: contents that differ have hashes that differ.
FileHash(bytes) == [sha |-> bytes]

Announced(bytes, is_compressed) ==
    [file_size |-> Len(bytes), file_hash |-> FileHash(bytes),
     is_compressed |-> is_compressed]

\* Mistake: the length in the header is not compared with the buffer's.
TooLongNever(m) == FALSE

\* getMessageLength's condition.
TooLong(m) == Len(m) > BUFFER_SIZE

\* Mistake: whatever arrives at the place of an acknowledgement is one.
IsACKAlways(m) == TRUE

\* receiveACK's condition.
IsACK(m) == m = ACK

\* Mistake: all of the message is passed on.
WriteSizeOfMessage(total, m) == Len(m)

\* What is taken of message m when `total` bytes were taken before.
WriteSize(total, m) == Lesser(metadata.file_size - total, Len(m))

\* What istream::readsome finds available with `remaining` bytes to the end
\* of the file: the kernel's answer is cut to the width of an int, and the
\* library asks for the file's size only when that came out negative.
InAvail(remaining) ==
    LET low == remaining % AVAIL_MODULUS
    IN  IF remaining > 0 /\ low < AVAIL_MODULUS \div 2 THEN low ELSE remaining

\* Mistake: every chunk is read from the beginning of the file.
ReadSomeFromStart ==
    SubSeq(file, 1, Lesser(InAvail(Len(file) - total_bytes_read), BUFFER_SIZE))

ReadSome ==
    LET n == Lesser(InAvail(Len(file) - total_bytes_read), BUFFER_SIZE)
    IN  SubSeq(file, total_bytes_read + 1, total_bytes_read + n)

-----------------------------------------------------------------------------
(* The connections: "S" to the sending client, "R" to the receiving one. *)

ServerEnded == server \in {"done", "failed"}
SenderEnded == sender \in {"sent", "failed"}
ReceiverEnded == receiver \in {"received", "failed"}
ClientEnded(x) == IF x = "S" THEN SenderEnded ELSE ReceiverEnded

\* Closing a socket with unread input, or writing to one that is closed,
\* resets the connection: what the other end has not read may be lost.
ServerReset(x) == ServerEnded /\ up[x] # <<>>
ClientReset(x) == ClientEnded(x) /\ down[x] # <<>>

Room(q) == Len(q) < CHANNEL_CAP

CanSend(x, bytes) == bytes = <<>> \/ Room(down[x])
SendDown(x, bytes) == down' = [down EXCEPT ![x] = @ \o Chunks(bytes)]
SendUp(x, bytes) == up' = [up EXCEPT ![x] = @ \o Chunks(bytes)]
TakeUp(x) == up' = [up EXCEPT ![x] = Tail(@)]
TakeDown(x) == down' = [down EXCEPT ![x] = Tail(@)]

\* A fault that may happen, happens.
Happens(f) == f \in Faults /\ happened' = happened \cup {f}

\* No connection holds more messages than it can.
ConnectionsOK ==
    \A x \in {"S", "R"} :
        /\ up[x] \in Seq(Seq(Int)) /\ Len(up[x]) <= CHANNEL_CAP
        /\ down[x] \in Seq(Seq(Int)) /\ Len(down[x]) <= CHANNEL_CAP

TypeOK ==
    /\ file \in Seq(0 .. MAX_FILE_SIZE)
    /\ metadata.file_size \in 0 .. MAX_FILE_SIZE
    /\ metadata.is_compressed \in BOOLEAN
    /\ happened \subseteq Faults
    /\ sender \in {"await_ack", "open", "send", "await_final", "foreign",
                   "sent", "failed"}
    /\ total_bytes_read \in 0 .. MAX_FILE_SIZE + 1
    /\ file_size \in 0 .. MAX_FILE_SIZE + 1
    /\ server \in {"metadata", "confirm", "ack_sender", "receive", "forward",
                   "final", "ack_final", "disconnect", "done", "failed"}
    /\ data \in Seq(Int) /\ Len(data) <= BUFFER_SIZE
    /\ total_received_bytes \in 0 .. metadata.file_size
    /\ receiver \in {"response", "confirm", "check", "open", "receive", "flush",
                      "validate", "unpack", "received", "failed"}
    /\ total_transferred_bytes \in 0 .. metadata.file_size
    /\ received_file \in Seq(Int)
    /\ Len(received_file) <= total_transferred_bytes
    /\ answer \in {"none", "y", "n"}
    /\ path \in {"absent", "foreign", "late", "received"}
    /\ ConnectionsOK

Init ==
    /\ \E n \in 0 .. MAX_FILE_SIZE, is_compressed \in BOOLEAN :
           /\ is_compressed => n > 0
           /\ file = [i \in 1 .. n |-> i]
           /\ metadata = Announced(file, is_compressed)
    /\ sender \in {"await_ack"} \cup ({"foreign"} \cap Faults)
    /\ happened = {"foreign"} \cap {sender}
    /\ total_bytes_read = 0
    /\ file_size = 0
    /\ server = "metadata"
    /\ data = <<>>
    /\ total_received_bytes = 0
    /\ receiver = "response"
    /\ total_transferred_bytes = 0
    /\ received_file = <<>>
    /\ answer = "none"
    /\ path = "absent"
    /\ up = [x \in {"S", "R"} |-> <<>>]
    /\ down = [x \in {"S", "R"} |-> <<>>]

-----------------------------------------------------------------------------
(* DropFileSendClient::sendFSEntry *)

OnlySender == UNCHANGED <<metadata, serverVars, receiverVars>>

\* receiveACK, at the first place (waiting for the other user) or the second.
SenderReceiveACK(at, then) ==
    /\ sender = at
    /\ down["S"] # <<>>
    /\ sender' = IF IsACK(Head(down["S"])) THEN then ELSE "failed"
    /\ TakeDown("S")
    /\ UNCHANGED <<file, total_bytes_read, file_size, up>>
    /\ OnlySender /\ UNCHANGED happened

SenderReadError ==
    /\ sender \in {"await_ack", "await_final"}
    /\ ServerEnded
    /\ down["S"] = <<>> \/ ServerReset("S")
    /\ sender' = "failed"
    /\ UNCHANGED <<file, total_bytes_read, file_size, up, down>>
    /\ OnlySender /\ UNCHANGED happened

SenderOpenFile ==
    /\ sender = "open"
    /\ file_size' = Len(file)
    /\ sender' = "send"
    /\ UNCHANGED <<file, total_bytes_read, up, down>>
    /\ OnlySender /\ UNCHANGED happened

\* The file is not there any more: file_size throws.
SenderOpenFails ==
    /\ Happens("remove")
    /\ sender = "open"
    /\ sender' = "failed"
    /\ UNCHANGED <<file, total_bytes_read, file_size, up, down>>
    /\ OnlySender

\* A file that was empty when its size was taken and is not any more: the
\* progress bar divides by that size, after the chunk was sent.
SenderSendChunk ==
    /\ sender = "send"
    /\ ReadSome # <<>>
    /\ Room(up["S"])
    /\ SendUp("S", ReadSome)
    /\ total_bytes_read' = total_bytes_read + Len(ReadSome)
    /\ sender' = IF file_size = 0 THEN "failed" ELSE "send"
    /\ UNCHANGED <<file, file_size, down>>
    /\ OnlySender /\ UNCHANGED happened

SenderWriteError ==
    /\ sender = "send"
    /\ ReadSome # <<>>
    /\ ServerEnded
    /\ total_bytes_read' = total_bytes_read + Len(ReadSome)
    /\ sender' = "failed"
    /\ UNCHANGED <<file, file_size, up, down>>
    /\ OnlySender /\ UNCHANGED happened

\* readsome returned nothing: the loop is over.
SenderLoopEnds ==
    /\ sender = "send"
    /\ ReadSome = <<>>
    /\ sender' = "await_final"
    /\ UNCHANGED <<file, total_bytes_read, file_size, up, down>>
    /\ OnlySender /\ UNCHANGED happened

SendFSEntry ==
    \/ SenderReceiveACK("await_ack", "open")
    \/ SenderOpenFile
    \/ SenderOpenFails
    \/ SenderSendChunk
    \/ SenderWriteError
    \/ SenderLoopEnds
    \/ SenderReceiveACK("await_final", "sent")
    \/ SenderReadError

-----------------------------------------------------------------------------
(* ServerSideClientSession::receiveFile, on the receiver's session. *)

OnlyServer == UNCHANGED <<metadata, senderVars, receiverVars, happened>>

\* send() to the client x, then go on at `then`. To a client that is gone the
\* write is lost or fails; a boost error ends the handler, and both sessions.
ServerSend(at, x, bytes, then) ==
    /\ server = at
    /\ \/ CanSend(x, bytes) /\ SendDown(x, bytes) /\ server' = then
       \/ ClientEnded(x) /\ bytes # <<>> /\ server' = "failed" /\ UNCHANGED down
    /\ UNCHANGED up
    /\ OnlyServer

ServerSendMetadata ==
    /\ ServerSend("metadata", "R", METADATA, "confirm")
    /\ UNCHANGED <<data, total_received_bytes>>

\* receiveACK from the receiver. Anything else is a SocketException, which
\* handleFirstRead answers with safeDisconnect.
ServerReceiveACK(at, then) ==
    /\ server = at
    /\ up["R"] # <<>>
    /\ server' = IF IsACK(Head(up["R"])) THEN then ELSE "disconnect"
    /\ TakeUp("R")
    /\ UNCHANGED <<data, total_received_bytes, down>>
    /\ OnlyServer

ServerSendACK(at, then) ==
    /\ ServerSend(at, "S", ACK, then)
    /\ UNCHANGED <<data, total_received_bytes>>

\* Mistake: the loop asks for one byte too many.
RelayedAllAndMore == total_received_bytes > metadata.file_size

RelayedAll == total_received_bytes >= metadata.file_size

\* The loop condition, and sender->receive() when there is more to come.
ServerLoopEnds ==
    /\ server = "receive"
    /\ RelayedAll
    /\ server' = "final"
    /\ UNCHANGED <<data, total_received_bytes, up, down>>
    /\ OnlyServer

ServerReceiveData ==
    /\ server = "receive"
    /\ ~RelayedAll
    /\ up["S"] # <<>>
    /\ ~TooLong(Head(up["S"]))
    /\ data' = Head(up["S"])
    /\ server' = "forward"
    /\ TakeUp("S")
    /\ UNCHANGED <<total_received_bytes, down>>
    /\ OnlyServer

\* getMessageLength refuses the header: it tells the sender and throws.
ServerRefuseOversize ==
    /\ server = "receive"
    /\ ~RelayedAll
    /\ up["S"] # <<>>
    /\ TooLong(Head(up["S"]))
    /\ server' = "disconnect"
    /\ TakeUp("S")
    /\ SendDown("S", ERROR_TEXT)
    /\ UNCHANGED <<data, total_received_bytes>>
    /\ OnlyServer

ServerForward ==
    LET write_size == WriteSize(total_received_bytes, data)
    IN  /\ ServerSend("forward", "R", SubSeq(data, 1, write_size), "receive")
        /\ total_received_bytes' = total_received_bytes
               + (IF server' = "receive" THEN write_size ELSE 0)
        /\ data' = <<>>

\* Mistake: the end of a stream that was closed in order is not noticed.
ReadFailsOnReset(x) == ClientReset(x)

\* The read from a client throws: at the end of its stream, or after a reset.
ReadFails(x) == ClientEnded(x) /\ (up[x] = <<>> \/ ClientReset(x))

ServerReadError ==
    /\ \E x \in {"S", "R"} :
           /\ server \in IF x = "S" THEN {"receive"} ELSE {"confirm", "final"}
           /\ x = "S" => ~RelayedAll
           /\ ReadFails(x)
    /\ server' = "failed"
    /\ UNCHANGED <<data, total_received_bytes, up, down>>
    /\ OnlyServer

\* safeDisconnect of the receiver: the text goes out on the same stream as
\* the file, and a failing send is ignored.
ServerDisconnect ==
    /\ ServerSend("disconnect", "R", ERROR_TEXT, "failed")
    /\ UNCHANGED <<data, total_received_bytes>>

ReceiveFileInServer ==
    \/ ServerSendMetadata
    \/ ServerReceiveACK("confirm", "ack_sender")
    \/ ServerSendACK("ack_sender", "receive")
    \/ ServerLoopEnds
    \/ ServerReceiveData
    \/ ServerRefuseOversize
    \/ ServerForward
    \/ ServerReceiveACK("final", "ack_final")
    \/ ServerSendACK("ack_final", "done")
    \/ ServerReadError
    \/ ServerDisconnect

-----------------------------------------------------------------------------
(* DropFileReceiveClient::receiveFile, after the request was sent. *)

OnlyReceiver == UNCHANGED <<metadata, senderVars, serverVars, happened>>
SameReceivedFile == UNCHANGED <<total_transferred_bytes, received_file>>

\* The announced name must be free in the current directory, for an archive
\* too, and the file must fit on the disk: an empty one fits on a full disk.
AssertJsonProperties ==
    /\ path = "absent"
    /\ "disk" \in happened => metadata.file_size = 0

\* getServerResponse: what is no metadata (an error text) throws.
ReceiverGetResponse ==
    /\ receiver = "response"
    /\ down["R"] # <<>>
    /\ TakeDown("R")
    /\ receiver' = IF Head(down["R"]) = METADATA /\ AssertJsonProperties
                   THEN "confirm" ELSE "failed"
    /\ UNCHANGED <<answer, path, up>>
    /\ SameReceivedFile
    /\ OnlyReceiver

\* getUserConfirmation: the user types y, or anything else.
ReceiverConfirm(a) ==
    /\ receiver = "confirm"
    /\ Room(up["R"])
    /\ answer' = a
    /\ SendUp("R", IF a = "y" THEN ACK ELSE ABORT)
    /\ receiver' = IF a = "y" THEN "check" ELSE "failed"
    /\ UNCHANGED <<path, down>>
    /\ SameReceivedFile
    /\ OnlyReceiver

\* Mistake: the path is only looked at before the user is asked.
PathIsFreeAlways == TRUE

PathIsFree == metadata.is_compressed \/ path = "absent"

\* receiveFileImpl looks at the path it is about to open: in the current
\* directory for a file, in the client's own temporary directory for an
\* archive. It opens the path one step later, and truncates what is there.
ReceiverCheckPath ==
    /\ receiver = "check"
    /\ receiver' = IF PathIsFree THEN "open" ELSE "failed"
    /\ UNCHANGED <<answer, path, up, down>>
    /\ SameReceivedFile
    /\ OnlyReceiver

ReceiverOpen ==
    /\ receiver = "open"
    /\ path' = IF metadata.is_compressed THEN path ELSE "received"
    /\ receiver' = "receive"
    /\ UNCHANGED <<answer, up, down>>
    /\ SameReceivedFile
    /\ OnlyReceiver

\* The path cannot be opened. Nothing looks at the stream: the loop runs as
\* ever, and every write fails.
ReceiverOpenFails ==
    /\ Happens("disk")
    /\ receiver = "open"
    /\ receiver' = "receive"
    /\ UNCHANGED <<metadata, senderVars, serverVars, answer, path, up, down>>
    /\ SameReceivedFile

\* Mistake: the last buffer is acknowledged before it is there.
TransferredAllButOne ==
    total_transferred_bytes + BUFFER_SIZE >= metadata.file_size

\* Mistake: the loop's body is run before its condition.
TransferredAllAfterOne ==
    /\ total_transferred_bytes > 0
    /\ total_transferred_bytes >= metadata.file_size

TransferredAll == total_transferred_bytes >= metadata.file_size

\* A write that fails is not noticed: the bytes count as transferred.
ReceiverWrite ==
    LET write_size == WriteSize(total_transferred_bytes, Head(down["R"]))
    IN  /\ receiver = "receive"
        /\ ~TransferredAll
        /\ down["R"] # <<>>
        /\ TakeDown("R")
        /\ received_file' =
               IF "disk" \in happened THEN received_file
               ELSE received_file \o SubSeq(Head(down["R"]), 1, write_size)
        /\ total_transferred_bytes' = total_transferred_bytes + write_size
        /\ UNCHANGED <<receiver, answer, path, up>>
        /\ OnlyReceiver

ReceiverSendACK ==
    /\ receiver = "receive"
    /\ TransferredAll
    /\ Room(up["R"])
    /\ SendUp("R", ACK)
    /\ receiver' = "flush"
    /\ UNCHANGED <<answer, path, down>>
    /\ SameReceivedFile
    /\ OnlyReceiver

ReceiverFlush ==
    /\ receiver = "flush"
    /\ receiver' = "validate"
    /\ UNCHANGED <<answer, path, up, down>>
    /\ SameReceivedFile
    /\ OnlyReceiver

\* A plain file that was not opened is not there to be hashed, or is one that
\* somebody else put there, which hashes to something else.
HasReceivedFile == metadata.is_compressed \/ path = "received"

\* validateFileHash: a mismatch throws; nothing removes the file.
ReceiverValidateFileHash ==
    /\ receiver = "validate"
    /\ receiver' = IF HasReceivedFile /\ FileHash(received_file) = metadata.file_hash
                   THEN "unpack" ELSE "failed"
    /\ UNCHANGED <<answer, path, up, down>>
    /\ SameReceivedFile
    /\ OnlyReceiver

\* handleCompressedFile: an archive is unpacked into the current directory.
\* That throws if the data is no archive, or if it cannot be written there.
ReceiverHandleCompressed ==
    /\ receiver = "unpack"
    /\ \/ /\ path' = IF metadata.is_compressed THEN "received" ELSE path
          /\ receiver' = "received"
       \/ /\ metadata.is_compressed
          /\ happened \cap {"foreign", "disk", "path"} # {}
          /\ receiver' = "failed"
          /\ UNCHANGED path
    /\ UNCHANGED <<answer, up, down>>
    /\ SameReceivedFile
    /\ OnlyReceiver

ReceiverReadError ==
    /\ receiver \in {"response", "receive"}
    /\ receiver = "receive" => ~TransferredAll
    /\ ServerEnded
    /\ down["R"] = <<>> \/ ServerReset("R")
    /\ receiver' = "failed"
    /\ UNCHANGED <<answer, path, up, down>>
    /\ SameReceivedFile
    /\ OnlyReceiver

\* sendACK or send("abort") to a server that closed the connection.
ReceiverWriteError ==
    /\ \/ receiver = "confirm"
       \/ receiver = "receive" /\ TransferredAll
    /\ ServerEnded
    /\ receiver' = "failed"
    /\ UNCHANGED <<answer, path, up, down>>
    /\ SameReceivedFile
    /\ OnlyReceiver

ReceiveFile ==
    \/ ReceiverGetResponse
    \/ \E a \in {"y", "n"} : ReceiverConfirm(a)
    \/ ReceiverCheckPath
    \/ ReceiverOpen
    \/ ReceiverOpenFails
    \/ ReceiverWrite
    \/ ReceiverSendACK
    \/ ReceiverFlush
    \/ ReceiverValidateFileHash
    \/ ReceiverHandleCompressed
    \/ ReceiverReadError
    \/ ReceiverWriteError

-----------------------------------------------------------------------------
(* What may happen around the three programs. *)

\* The file changes once, after it was announced.
FileVariants(f) ==
    CASE f = "replace" -> {[file EXCEPT ![i] = OTHER_BYTE] : i \in DOMAIN file}
      [] f = "grow" -> {Append(file, OTHER_BYTE)}
      [] f = "shrink" -> {SubSeq(file, 1, n) : n \in 0 .. Len(file) - 1}

FileFaults == {"replace", "grow", "shrink"}

FileChanges ==
    /\ sender \in {"await_ack", "open", "send"}
    /\ happened \cap FileFaults = {}
    /\ \E f \in FileFaults : Happens(f) /\ file' \in FileVariants(f)
    /\ UNCHANGED <<sender, total_bytes_read, file_size, up, down>>
    /\ OnlySender

\* A program that speaks the framing but not the protocol: messages of any
\* length, whenever it likes. The integration tests have such clients.
ForeignSend ==
    /\ sender = "foreign"
    /\ Room(up["S"])
    /\ \E n \in 0 .. BUFFER_SIZE + 1 :
           up' = [up EXCEPT !["S"] = Append(@, [i \in 1 .. n |-> OTHER_BYTE])]
    /\ UNCHANGED <<senderVars, happened, down>>
    /\ OnlySender

SenderCrash ==
    /\ Happens("crash")
    /\ ~SenderEnded
    /\ sender' = "failed"
    /\ UNCHANGED <<file, total_bytes_read, file_size, up, down>>
    /\ OnlySender

ReceiverCrash ==
    /\ Happens("crash")
    /\ ~ReceiverEnded
    /\ receiver' = "failed"
    /\ UNCHANGED <<metadata, senderVars, serverVars, answer, path, up, down>>
    /\ SameReceivedFile

\* The receiver's disk is full from now on.
DiskFills ==
    /\ Happens("disk")
    /\ "disk" \notin happened
    /\ receiver \in {"response", "receive"}
    /\ UNCHANGED <<metadata, senderVars, serverVars, receiverVars, up, down>>

\* Whether the receiver has yet to look at the announced name in its current
\* directory: at an archive's name only assertJsonProperties does.
WillLookAtPath ==
    receiver \in IF metadata.is_compressed THEN {"response"}
                 ELSE {"response", "confirm", "check"}

\* Somebody creates the announced name in the receiver's directory: before the
\* receiver's last look at it, or too late for that.
PathAppears ==
    /\ Happens("path")
    /\ path = "absent"
    /\ ~ReceiverEnded
    /\ path' = IF WillLookAtPath THEN "foreign" ELSE "late"
    /\ UNCHANGED <<metadata, senderVars, serverVars, receiver, answer, up, down>>
    /\ SameReceivedFile

AllEnded == SenderEnded /\ ServerEnded /\ ReceiverEnded

Terminated == AllEnded /\ UNCHANGED vars

Next ==
    \/ SendFSEntry
    \/ ReceiveFileInServer
    \/ ReceiveFile
    \/ FileChanges
    \/ ForeignSend
    \/ SenderCrash
    \/ ReceiverCrash
    \/ DiskFills
    \/ PathAppears
    \/ Terminated

\* Each of the three programs keeps running while it can, and the receiving
\* user answers. The surroundings owe nothing.
Fairness ==
    /\ WF_vars(SendFSEntry)
    /\ WF_vars(ReceiveFileInServer)
    /\ WF_vars(ReceiveFile)

SafetySpec == Init /\ [][Next]_vars

Spec == SafetySpec /\ Fairness

-----------------------------------------------------------------------------
(* Properties. *)

\* sendFSEntry prints "File sent." only when the receiver has taken every
\* announced byte off the wire, whoever else failed.
SentMeansTaken ==
    sender = "sent" =>
        /\ total_received_bytes = metadata.file_size
        /\ total_transferred_bytes = metadata.file_size
        /\ answer = "y"

\* A receiver that ends well holds exactly the file that was announced, even
\* if the file changed on the way, the sender is not this program, a write to
\* the disk failed, or the server's error text was spliced into the stream.
ReceivedIsAnnounced ==
    receiver = "received" =>
        /\ received_file = [i \in 1 .. metadata.file_size |-> i]
        /\ path = "received"

\* The messages q are the bytes of the file from `from` to `to`, one after the
\* other: each begins at the position where the one before it ends. The
\* metadata is none of them.
Spans(q, from, to) ==
    \E pos \in [0 .. Len(q) -> 0 .. to] :
        /\ pos[0] = from
        /\ pos[Len(q)] = to
        /\ \A i \in 1 .. Len(q) :
               pos[i] = pos[i - 1] + (IF q[i] = METADATA THEN 0 ELSE Len(q[i]))

\* README: "At every point of transfer, server controls total received bytes
\* with the size declared in the beginning." Until the relay fails, every byte
\* it counted was taken by the receiver or is on its way there, and there are
\* never more of them than were declared, whatever the sender sends.
ServerControlsBytes ==
    server # "failed" =>
        /\ total_received_bytes <= metadata.file_size
        /\ Spans(down["R"], total_transferred_bytes, total_received_bytes)

\* The relay neither reorders, repeats nor drops: what an honest sender's file
\* held when it was announced is what arrives, byte by byte, chunk by chunk.
StreamInOrder ==
    happened \cap (FileFaults \cup {"foreign", "disk"}) = {} =>
        /\ received_file = SubSeq(file, 1, Len(received_file))
        /\ Len(received_file) <= total_received_bytes
        /\ total_received_bytes <= total_bytes_read

\* No byte of the file leaves the sender before the other user agreed.
NothingSentUnconfirmed ==
    total_bytes_read > 0 => answer = "y"

\* What is in the receiver's directory under the announced name when the
\* receiver last looks is never overwritten: for a file that is receiveFileImpl's
\* look, made again after the user was asked, for an archive the one of
\* assertJsonProperties. What appears after that look ("late") is overwritten:
\* by the file if it comes before the open, by the archive's entries if it comes
\* before the unpacking.
OlderPathKept ==
    [][path = "foreign" => path' = "foreign"]_vars

\* The sender's file shrank: it has sent all it has, and waits for the
\* acknowledgement while the server waits for the rest.
Starved ==
    /\ "shrink" \in happened
    /\ sender = "await_final" /\ total_bytes_read < metadata.file_size
    /\ server = "receive" /\ up["S"] = <<>>

\* The three programs come to an end together: nobody is left waiting for a
\* message, for a free buffer or for a peer that is gone. A file that shrank
\* after it was announced is the one exception. (A sender that is not this
\* program may go on for ever, or never send.)
TransferEnds == <>[](AllEnded \/ Starved \/ sender = "foreign")

\* Once the sending client is gone, for whatever reason, nobody waits for it:
\* stopping the sender also releases a transfer that is starved. (Stopping the
\* receiver does not: the server only reads from the sender then.)
SenderReleasesAll == SenderEnded ~> AllEnded

\* A transfer that the user accepted and nothing disturbed delivers the file,
\* of any size, and the sender learns of it.
AcceptedIsDelivered ==
    answer = "y" ~> \/ sender = "sent" /\ receiver = "received"
                    \/ happened # {}

\* What a user has been told.
Outcome(at) == IF at \in {"sent", "received", "failed"} THEN at ELSE "pending"

D == INSTANCE FileDelivery WITH
         size <- metadata.file_size,
         consent <- answer,
         left <- total_bytes_read,
         arrived <- total_transferred_bytes,
         kept <- received_file,
         sender <- Outcome(sender),
         receiver <- Outcome(receiver)

\* The three programs together keep the promise of FileDelivery, whichever
\* faults happen: who is told of success, when, and that it is final.
ImplementsDelivery == D!Spec

\* MaliciousClientTests: the receiver "checks hash and discards if it does not
\* match": what was received and does not match its hash is not kept.
MismatchDiscarded ==
    receiver = "failed" /\ answer = "y" /\ "crash" \notin happened
        /\ total_transferred_bytes = metadata.file_size
        /\ received_file # [i \in 1 .. metadata.file_size |-> i]
    => path # "received"
=============================================================================
