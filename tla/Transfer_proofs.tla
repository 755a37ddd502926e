--------------------------- MODULE Transfer_proofs ---------------------------
(***************************************************************************)
(* Proofs about Transfer, for files, messages and buffers of any size and  *)
(* for every fault the model knows: who has heard which acknowledgement    *)
(* decides what the other two have done, the relay counts what it passes   *)
(* on, and what it passes on is the announced file, in order, as long as   *)
(* nobody interferes.                                                      *)
(***************************************************************************)
EXTENDS Transfer, SequenceTheorems, TLAPS

-----------------------------------------------------------------------------
(* The inductive invariant, in parts. *)

\* What the sender announced.
Content == [i \in 1 .. metadata.file_size |-> i]

\* Nobody changed the file, forged the sender or filled the disk.
Honest == happened \cap (FileFaults \cup {"foreign", "disk"}) = {}

\* The receiver has taken every announced byte.
TakenAll == total_transferred_bytes = metadata.file_size

\* File data has no byte of the fixed texts.
Wires ==
    /\ up \in [{"S", "R"} -> Seq(Seq(Int))]
    /\ down \in [{"S", "R"} -> Seq(Seq(Int))]
    /\ up["S"] \in Seq(Seq(Nat))
    /\ data \in Seq(Nat)
    /\ server # "forward" => data = <<>>

\* What is known of the file, announced and now.
FileKnown ==
    /\ metadata.file_hash = FileHash(Content)
    /\ Len(file) <= metadata.file_size + 1
    /\ total_bytes_read <= metadata.file_size + 1
    /\ file_size <= metadata.file_size + 1
    /\ happened \cap FileFaults = {} =>
           file = Content /\ total_bytes_read <= metadata.file_size
    /\ sender = "foreign" => "foreign" \in happened

\* Who acts as if the user had agreed, and what the receiver sent to the
\* server.
AnswerKnown ==
    /\ receiver \in {"response", "confirm"} =>
           /\ answer = "none"
           /\ up["R"] = <<>>
           /\ server \in {"metadata", "confirm"}
    /\ receiver \notin {"response", "confirm", "failed"} => answer = "y"
    /\ server \in {"ack_sender", "receive", "forward", "final", "ack_final",
                   "done"} => answer = "y"
    /\ sender \in {"open", "send", "await_final", "sent"} => answer = "y"
    /\ down["S"] # <<>> => answer = "y"
    /\ total_bytes_read > 0 => answer = "y"
    /\ \A i \in 1 .. Len(up["R"]) :
           \/ up["R"][i] = ACK /\ answer = "y"
           \/ up["R"][i] = ABORT /\ receiver = "failed"

\* The second acknowledgement of the receiver is on its way, or was read,
\* only when the receiver has everything.
ReceiverAcks ==
    /\ server \in {"metadata", "confirm"} /\ Len(up["R"]) >= 2 => TakenAll
    /\ server \in {"ack_sender", "receive", "forward", "final"} =>
           up["R"] = <<>> \/ TakenAll
    /\ server \in {"ack_final", "done"} => TakenAll
    /\ server \in {"final", "ack_final", "done"} =>
           total_received_bytes = metadata.file_size

\* The second acknowledgement to the sender is the server's last act.
SenderAcks ==
    /\ server \in {"metadata", "confirm", "ack_sender"} =>
           /\ down["S"] = <<>>
           /\ sender \in {"await_ack", "foreign", "failed"}
    /\ server \in {"receive", "forward", "final", "ack_final"} =>
           /\ Len(down["S"]) <= 1
           /\ sender \in {"open", "send", "await_final"} => down["S"] = <<>>
    /\ server \in {"disconnect", "failed"} =>
           /\ sender = "await_ack" => Len(down["S"]) <= 1 \/ down["S"][2] # ACK
           /\ sender \in {"open", "send", "await_final"} =>
                  down["S"] = <<>> \/ down["S"][1] # ACK
    /\ sender = "sent" => server = "done"
    /\ Len(down["S"]) <= 2

\* The metadata is the first message to the receiver, and no other is.
MetadataFirst ==
    /\ server = "metadata" =>
           down["R"] = <<>> /\ receiver \in {"response", "failed"}
    /\ receiver = "response" /\ server # "metadata" =>
           down["R"] # <<>> /\ down["R"][1] = METADATA
    /\ \A i \in 1 .. Len(down["R"]) :
           down["R"][i] = METADATA => i = 1 /\ receiver \in {"response", "failed"}

\* What became of the announced name and the received file. A receiver that
\* found the name taken when it last looked has failed.
PathChecked ==
    /\ path = "foreign" => WillLookAtPath \/ receiver = "failed"
    /\ receiver = "unpack" => HasReceivedFile
    /\ receiver \in {"unpack", "received"} => received_file = Content
    /\ receiver = "received" => path = "received"

\* The messages q are the pieces of the file f from `from` to `to`, in order.
Pieces(f, q, from, to) ==
    \E pos \in [0 .. Len(q) -> 0 .. to] :
        /\ pos[0] = from
        /\ pos[Len(q)] = to
        /\ \A i \in 1 .. Len(q) :
               \/ q[i] = METADATA /\ pos[i] = pos[i - 1]
               \/ /\ q[i] = SubSeq(f, pos[i - 1] + 1, pos[i])
                  /\ pos[i - 1] <= pos[i] /\ pos[i] <= pos[i - 1] + BUFFER_SIZE

\* Between the sender and the relay.
SentInOrder ==
    Honest =>
        /\ data = SubSeq(file, total_received_bytes + 1,
                         total_received_bytes + Len(data))
        /\ total_received_bytes + Len(data) <= total_bytes_read
        /\ ~ServerEnded => Pieces(file, up["S"], total_received_bytes + Len(data),
                                  total_bytes_read)

\* Between the relay and the receiver. The relay passes on what it counts; an
\* error text is among it only when the relay has given up, and not even then
\* if nobody interfered and the receiver did not give up.
RelayedInOrder ==
    /\ server # "failed" =>
           Spans(down["R"], total_transferred_bytes, total_received_bytes)
    /\ Honest =>
           /\ server = "disconnect" => receiver = "failed"
           /\ received_file = SubSeq(file, 1, total_transferred_bytes)
           /\ total_transferred_bytes <= total_received_bytes
           /\ server # "failed" \/ receiver # "failed" =>
                  Pieces(file, down["R"], total_transferred_bytes,
                         total_received_bytes)

TransferInv ==
    /\ TypeOK
    /\ Wires
    /\ FileKnown
    /\ AnswerKnown
    /\ ReceiverAcks
    /\ SenderAcks
    /\ MetadataFirst
    /\ PathChecked
    /\ SentInOrder
    /\ RelayedInOrder

-----------------------------------------------------------------------------
(* Facts about the operators. *)

\* SocketBase::send passes on what fits one buffer as one message, and
\* nothing as nothing.
LEMMA ChunksOfOne ==
    ASSUME NEW b \in Seq(Int), Len(b) <= BUFFER_SIZE
    PROVE  /\ b = <<>> => Chunks(b) = <<>>
           /\ b # <<>> => Chunks(b) = <<b>>
<1>1. ASSUME Len(b) = 0 PROVE Chunks(b) = <<>>
    BY <1>1, TransferAssumption DEF Chunks
<1>2. ASSUME Len(b) > 0 PROVE Chunks(b) = <<b>>
  <2> DEFINE full == Len(b) \div BUFFER_SIZE
             n == IF Len(b) % BUFFER_SIZE > 0 THEN full + 1 ELSE full
  <2>1. n = 1
    <3>1. CASE Len(b) < BUFFER_SIZE
      <4>1. Len(b) % BUFFER_SIZE = Len(b) /\ Len(b) \div BUFFER_SIZE = 0
        BY <3>1, TransferAssumption
      <4> QED
        BY <1>2, <4>1
    <3>2. CASE Len(b) = BUFFER_SIZE
      <4>1. Len(b) % BUFFER_SIZE = 0 /\ Len(b) \div BUFFER_SIZE = 1
        BY <3>2, TransferAssumption
      <4> QED
        BY <4>1
    <3>3. Len(b) < BUFFER_SIZE \/ Len(b) = BUFFER_SIZE
      BY TransferAssumption
    <3> QED
      BY <3>1, <3>2, <3>3
  <2>2. Lesser(1 * BUFFER_SIZE, Len(b)) = Len(b)
        /\ (1 - 1) * BUFFER_SIZE + 1 = 1
    BY TransferAssumption DEF Lesser
  <2>3. SubSeq(b, 1, Len(b)) = b
    BY SubSeqFull
  <2>4. Chunks(b) = [i \in 1 .. 1 |-> SubSeq(b, (i - 1) * BUFFER_SIZE + 1,
                                            Lesser(i * BUFFER_SIZE, Len(b)))]
    BY <2>1 DEF Chunks
  <2>5. Chunks(b) = [i \in 1 .. 1 |-> b]
    BY <2>2, <2>3, <2>4
  <2> QED
    BY <2>5
<1> QED
    BY <1>1, <1>2

\* What readsome returns: the next bytes of the file, as many as the buffer
\* holds at most, and none beyond the end.
LEMMA ReadSomeIs ==
    ASSUME NEW n \in Nat, file \in Seq(0 .. n), total_bytes_read \in Nat
    PROVE  /\ ReadSome \in Seq(Nat)
           /\ Len(ReadSome) <= BUFFER_SIZE
           /\ ReadSome # <<>> => total_bytes_read + Len(ReadSome) <= Len(file)
           /\ ReadSome = SubSeq(file, total_bytes_read + 1,
                                total_bytes_read + Len(ReadSome))
<1> DEFINE remaining == Len(file) - total_bytes_read
           k == Lesser(InAvail(remaining), BUFFER_SIZE)
<1>1. remaining \in Int
    OBVIOUS
<1>2. InAvail(remaining) \in Int /\ InAvail(remaining) <= remaining
      /\ (remaining >= 0 => InAvail(remaining) >= 0)
  <2>1. CASE remaining > 0
    <3>1. remaining % AVAIL_MODULUS \in Int /\ remaining % AVAIL_MODULUS >= 0
          /\ remaining % AVAIL_MODULUS <= remaining
      BY <2>1, TransferAssumption
    <3> QED
      BY <2>1, <3>1 DEF InAvail
  <2>2. CASE ~(remaining > 0)
    BY <2>2 DEF InAvail
  <2> QED
    BY <2>1, <2>2
<1>3. k \in Int /\ k <= BUFFER_SIZE /\ k <= remaining
    BY <1>2, TransferAssumption DEF Lesser
<1>4. ReadSome = SubSeq(file, total_bytes_read + 1, total_bytes_read + k)
    BY DEF ReadSome
<1> HIDE DEF k, remaining
<1>5. CASE k <= 0
  <2>1. ReadSome = <<>>
    BY <1>3, <1>4, <1>5
  <2> QED
    BY <2>1, TransferAssumption
<1>6. CASE k > 0
  <2>1. total_bytes_read + k <= Len(file)
    BY <1>3 DEF remaining
  <2>2. Len(ReadSome) = k
    BY <1>3, <1>4, <1>6, <2>1
  <2>3. ReadSome \in Seq(Nat)
    <3>1. \A i \in 1 .. Len(file) : file[i] \in Nat
      OBVIOUS
    <3> QED
      BY <1>3, <1>4, <1>6, <2>1, <3>1
  <2> QED
    BY <1>3, <1>4, <2>1, <2>2, <2>3
<1> QED
    BY <1>3, <1>5, <1>6

\* The announced file is a sequence of bytes.
LEMMA ContentIs ==
    ASSUME metadata.file_size \in Nat
    PROVE  Content \in Seq(1 .. metadata.file_size)
           /\ Len(Content) = metadata.file_size
BY IsASeq DEF Content

\* t is q with the message b after it.
Extended(t, q, b) ==
    /\ Len(t) = Len(q) + 1
    /\ \A i \in 1 .. Len(q) : t[i] = q[i]
    /\ t[Len(q) + 1] = b
    /\ t # <<>>

\* t is q without its first message.
Shortened(t, q) ==
    /\ Len(t) = Len(q) - 1
    /\ \A i \in 1 .. Len(t) : t[i] = q[i + 1]
    /\ Len(q) >= 2 => t # <<>> /\ t[1] = q[2]
    /\ Len(q) < 2 => t = <<>>

\* That is what Append does.
LEMMA ExtendedBy ==
    ASSUME NEW S, NEW q \in Seq(S), NEW b \in S
    PROVE  Extended(Append(q, b), q, b)
BY DEF Extended

\* And this is what Tail does; what it drops is the first message.
LEMMA ShortenedBy ==
    ASSUME NEW S, NEW q \in Seq(S), q # <<>>
    PROVE  /\ Shortened(Tail(q), q) /\ Tail(q) \in Seq(S)
           /\ Head(q) = q[1] /\ Head(q) \in S /\ Len(q) >= 1
<1>1. Len(q) \in Nat /\ Len(q) >= 1 /\ Tail(q) \in Seq(S)
      /\ Len(Tail(q)) = Len(q) - 1
    BY HeadTailProperties, EmptySeq
<1>2. \A i \in 1 .. Len(Tail(q)) : Tail(q)[i] = q[i + 1]
    BY HeadTailProperties
<1>3. Head(q) = q[1] /\ Head(q) \in S
    BY HeadTailProperties
<1>4. ASSUME Len(q) >= 2 PROVE Tail(q) # <<>> /\ Tail(q)[1] = q[2]
  <2>1. 1 \in 1 .. Len(Tail(q))
    BY <1>1, <1>4
  <2>2. Tail(q)[1] = q[1 + 1]
    BY <1>2, <2>1
  <2> QED
    BY <1>1, <1>4, <2>2
<1>5. ASSUME Len(q) < 2 PROVE Tail(q) = <<>>
  <2>1. Len(Tail(q)) = 0
    BY <1>1, <1>5
  <2>2. Tail(q) # <<>> => Len(Tail(q)) \in Nat \ {0}
    BY <1>1, EmptySeq
  <2> QED
    BY <2>1, <2>2
<1> QED
    BY <1>1, <1>2, <1>3, <1>4, <1>5 DEF Shortened

\* What a client is sent, if that fits a buffer and is not nothing.
LEMMA SentDown ==
    ASSUME Wires, NEW x \in {"S", "R"}, NEW b \in Seq(Int),
           Len(b) <= BUFFER_SIZE, SendDown(x, b)
    PROVE  /\ down' \in [{"S", "R"} -> Seq(Seq(Int))]
           /\ b = <<>> => down' = down
           /\ b # <<>> => Extended(down'[x], down[x], b)
           /\ \A y \in {"S", "R"} : y # x => down'[y] = down[y]
<1>1. Chunks(b) \in Seq(Seq(Int))
  <2>1. b = <<>> => Chunks(b) = <<>>
    BY ChunksOfOne
  <2>2. b # <<>> => Chunks(b) = <<b>>
    BY ChunksOfOne
  <2>3. <<>> \in Seq(Seq(Int)) /\ <<b>> \in Seq(Seq(Int))
    OBVIOUS
  <2> QED
    BY <2>1, <2>2, <2>3
<1>2. down' = [down EXCEPT ![x] = down[x] \o Chunks(b)]
    BY DEF SendDown
<1>3. down[x] \in Seq(Seq(Int)) /\ down \in [{"S", "R"} -> Seq(Seq(Int))]
    BY DEF Wires
<1>4. b = <<>> => down[x] \o Chunks(b) = down[x]
    BY <1>3, ChunksOfOne, ConcatEmptySeq
<1>5. b # <<>> => Extended(down[x] \o Chunks(b), down[x], b)
    BY <1>3, ChunksOfOne, AppendIsConcat, ExtendedBy
<1>6. down[x] \o Chunks(b) \in Seq(Seq(Int))
    BY <1>1, <1>3
<1> HIDE DEF Wires
<1> QED
    BY <1>2, <1>3, <1>4, <1>5, <1>6

\* The same for what a client sends.
LEMMA SentUp ==
    ASSUME Wires, NEW x \in {"S", "R"}, NEW b \in Seq(Int), b # <<>>,
           Len(b) <= BUFFER_SIZE, SendUp(x, b)
    PROVE  /\ up' \in [{"S", "R"} -> Seq(Seq(Int))]
           /\ Extended(up'[x], up[x], b)
           /\ \A y \in {"S", "R"} : y # x => up'[y] = up[y]
<1>1. up' = [up EXCEPT ![x] = up[x] \o Chunks(b)]
    BY DEF SendUp
<1>2. up[x] \in Seq(Seq(Int)) /\ up \in [{"S", "R"} -> Seq(Seq(Int))]
    BY DEF Wires
<1>3. up[x] \o Chunks(b) = Append(up[x], b)
    BY <1>2, ChunksOfOne, AppendIsConcat
<1>4. up[x] \o Chunks(b) \in Seq(Seq(Int))
      /\ Extended(up[x] \o Chunks(b), up[x], b)
    BY <1>2, <1>3, ExtendedBy
<1> QED
    BY <1>1, <1>2, <1>4

\* A message is taken off a connection.
LEMMA TookDown ==
    ASSUME Wires, NEW x \in {"S", "R"}, down[x] # <<>>, TakeDown(x)
    PROVE  /\ down' \in [{"S", "R"} -> Seq(Seq(Int))]
           /\ Shortened(down'[x], down[x])
           /\ \A y \in {"S", "R"} : y # x => down'[y] = down[y]
           /\ Head(down[x]) = down[x][1] /\ Head(down[x]) \in Seq(Int)
           /\ Len(down[x]) >= 1
<1>1. down[x] \in Seq(Seq(Int)) /\ down \in [{"S", "R"} -> Seq(Seq(Int))]
    BY DEF Wires
<1>2. /\ Tail(down[x]) \in Seq(Seq(Int)) /\ Shortened(Tail(down[x]), down[x])
      /\ Head(down[x]) = down[x][1] /\ Head(down[x]) \in Seq(Int)
      /\ Len(down[x]) >= 1
    BY <1>1, ShortenedBy
<1>3. down' = [down EXCEPT ![x] = Tail(down[x])]
    BY DEF TakeDown
<1> QED
    BY <1>1, <1>2, <1>3

\* The same for a message of a client.
LEMMA TookUp ==
    ASSUME Wires, NEW x \in {"S", "R"}, up[x] # <<>>, TakeUp(x)
    PROVE  /\ up' \in [{"S", "R"} -> Seq(Seq(Int))]
           /\ Shortened(up'[x], up[x])
           /\ \A y \in {"S", "R"} : y # x => up'[y] = up[y]
           /\ Head(up[x]) = up[x][1] /\ Head(up[x]) \in Seq(Int)
           /\ Len(up[x]) >= 1
<1>1. up[x] \in Seq(Seq(Int)) /\ up \in [{"S", "R"} -> Seq(Seq(Int))]
    BY DEF Wires
<1>2. /\ Tail(up[x]) \in Seq(Seq(Int)) /\ Shortened(Tail(up[x]), up[x])
      /\ Head(up[x]) = up[x][1] /\ Head(up[x]) \in Seq(Int)
      /\ Len(up[x]) >= 1
    BY <1>1, ShortenedBy
<1>3. up' = [up EXCEPT ![x] = Tail(up[x])]
    BY DEF TakeUp
<1> QED
    BY <1>1, <1>2, <1>3

\* The fixed texts fit a buffer, differ, and are no file data.
LEMMA Texts ==
    /\ ACK \in Seq(Int) /\ ACK # <<>> /\ Len(ACK) <= BUFFER_SIZE
    /\ ABORT \in Seq(Int) /\ ABORT # <<>> /\ Len(ABORT) <= BUFFER_SIZE
    /\ METADATA \in Seq(Int) /\ METADATA # <<>> /\ Len(METADATA) <= BUFFER_SIZE
    /\ ERROR_TEXT \in Seq(Int) /\ ERROR_TEXT # <<>>
    /\ Len(ERROR_TEXT) <= BUFFER_SIZE
    /\ ACK # ABORT /\ ERROR_TEXT # ACK /\ ERROR_TEXT # METADATA
    /\ \A m \in Seq(Nat) : m # METADATA
<1>1. ASSUME NEW m \in Seq(Nat) PROVE m # METADATA
  <2>1. METADATA[1] = -3 /\ Len(METADATA) = 1
    BY DEF METADATA
  <2>2. Len(m) = 1 => m[1] \in Nat
    BY ElementOfSeq
  <2> QED
    BY <2>1, <2>2
<1>2. ACK # ABORT /\ ERROR_TEXT # ACK /\ ERROR_TEXT # METADATA
  <2>1. /\ ACK[1] = -1 /\ ABORT[1] = -2 /\ Len(METADATA) = 1
        /\ Len(ACK) = 1 /\ Len(ERROR_TEXT) = 2
    BY DEF ACK, ABORT, ERROR_TEXT, METADATA
  <2> QED
    BY <2>1
<1>3. /\ ACK \in Seq(Int) /\ Len(ACK) = 1 /\ ABORT \in Seq(Int)
      /\ Len(ABORT) = 1
      /\ METADATA \in Seq(Int) /\ Len(METADATA) = 1
      /\ ERROR_TEXT \in Seq(Int) /\ Len(ERROR_TEXT) = 2
    BY DEF ACK, ABORT, METADATA, ERROR_TEXT
<1> QED
    BY <1>1, <1>2, <1>3, TransferAssumption

\* Two adjacent pieces of a file are one.
LEMMA PiecesJoin ==
    ASSUME NEW f \in Seq(Int), NEW a \in Nat, NEW b \in Nat, a <= b, b <= Len(f)
    PROVE  SubSeq(f, 1, a) \o SubSeq(f, a + 1, b) = SubSeq(f, 1, b)
BY ConcatAdjacentSubSeq

\* A step that touches neither what the sender sends nor what of it the relay
\* has.
LEMMA SentFrame ==
    ASSUME SentInOrder, happened \subseteq happened', ServerEnded => ServerEnded',
           up'["S"] = up["S"],
           UNCHANGED <<data, total_received_bytes, file, total_bytes_read>>
    PROVE  SentInOrder'
<1>1. Honest' => Honest
    BY DEF Honest
<1>2. Pieces(file, up["S"], total_received_bytes + Len(data), total_bytes_read)
      => Pieces(file, up["S"], total_received_bytes + Len(data), total_bytes_read)'
    BY DEF Pieces
<1> QED
    BY <1>1, <1>2 DEF SentInOrder

\* A step that touches neither what the relay passes on nor what of it the
\* receiver has.
LEMMA RelayedFrame ==
    ASSUME RelayedInOrder, happened \subseteq happened',
           server = "failed" => server' = "failed",
           receiver = "failed" => receiver' = "failed",
           server' = "disconnect" => server = "disconnect",
           down'["R"] = down["R"],
           UNCHANGED <<total_received_bytes, total_transferred_bytes, file,
                       received_file>>
    PROVE  RelayedInOrder'
<1>1. Honest' => Honest
    BY DEF Honest
<1>2. Spans(down["R"], total_transferred_bytes, total_received_bytes)
      => Spans(down["R"], total_transferred_bytes, total_received_bytes)'
    BY DEF Spans
<1>3. Pieces(file, down["R"], total_transferred_bytes, total_received_bytes)
      => Pieces(file, down["R"], total_transferred_bytes, total_received_bytes)'
    BY DEF Pieces
<1> QED
    BY <1>1, <1>2, <1>3 DEF RelayedInOrder

\* One more message, counted by its length.
LEMMA SpansExtended ==
    ASSUME NEW q \in Seq(Seq(Int)), NEW t, NEW b \in Seq(Int), Extended(t, q, b),
           NEW from \in Nat, NEW to \in Nat, Spans(q, from, to)
    PROVE  Spans(t, from, to + (IF b = METADATA THEN 0 ELSE Len(b)))
<1> DEFINE k == IF b = METADATA THEN 0 ELSE Len(b)
<1>1. k \in Nat
    OBVIOUS
<1>2. PICK pos \in [0 .. Len(q) -> 0 .. to] :
          /\ pos[0] = from
          /\ pos[Len(q)] = to
          /\ \A i \in 1 .. Len(q) :
                 pos[i] = pos[i - 1] + (IF q[i] = METADATA THEN 0 ELSE Len(q[i]))
    BY DEF Spans
<1>3. /\ Len(q) \in Nat /\ Len(t) = Len(q) + 1 /\ t[Len(q) + 1] = b
      /\ \A i \in 1 .. Len(q) : t[i] = q[i]
    BY DEF Extended
<1> DEFINE new == [i \in 0 .. Len(t) |-> IF i <= Len(q) THEN pos[i] ELSE to + k]
<1> HIDE DEF k
<1>4. new \in [0 .. Len(t) -> 0 .. to + k] /\ new[0] = from
      /\ new[Len(t)] = to + k
    BY <1>1, <1>2, <1>3
<1>5. ASSUME NEW i \in 1 .. Len(t)
      PROVE  new[i] = new[i - 1] + (IF t[i] = METADATA THEN 0 ELSE Len(t[i]))
  <2>1. CASE i <= Len(q)
    <3>1. i \in 1 .. Len(q) /\ new[i] = pos[i] /\ new[i - 1] = pos[i - 1]
      BY <1>3, <2>1
    <3> QED
      BY <1>2, <1>3, <3>1
  <2>2. CASE i = Len(q) + 1
    <3>1. new[i] = to + k /\ new[i - 1] = to /\ t[i] = b
      BY <1>2, <1>3, <2>2
    <3> HIDE DEF new
    <3> QED
      BY <3>1 DEF k
  <2>3. i <= Len(q) \/ i = Len(q) + 1
    BY <1>3
  <2> HIDE DEF new
  <2> QED
    BY <2>1, <2>2, <2>3
<1> HIDE DEF new
<1>6. Spans(t, from, to + k)
    BY <1>4, <1>5 DEF Spans
<1> QED
    BY <1>6 DEF k

\* The first message is taken.
LEMMA SpansShortened ==
    ASSUME NEW q \in Seq(Seq(Int)), Len(q) >= 1, NEW t, Shortened(t, q),
           NEW from \in Nat, NEW to \in Nat, Spans(q, from, to)
    PROVE  LET k == IF q[1] = METADATA THEN 0 ELSE Len(q[1])
           IN  Spans(t, from + k, to) /\ from + k <= to
<1> DEFINE k == IF q[1] = METADATA THEN 0 ELSE Len(q[1])
<1>1. k \in Nat
    BY ElementOfSeq
<1>2. PICK pos \in [0 .. Len(q) -> 0 .. to] :
          /\ pos[0] = from
          /\ pos[Len(q)] = to
          /\ \A i \in 1 .. Len(q) :
                 pos[i] = pos[i - 1] + (IF q[i] = METADATA THEN 0 ELSE Len(q[i]))
    BY DEF Spans
<1>3. /\ Len(q) \in Nat /\ Len(t) = Len(q) - 1
      /\ \A i \in 1 .. Len(t) : t[i] = q[i + 1]
    BY DEF Shortened
<1>4. pos[1] = from + k /\ pos[1] <= to
  <2>1. 1 \in 1 .. Len(q) /\ 1 \in 0 .. Len(q) /\ 1 - 1 = 0
    BY <1>3
  <2>2. pos[1] = pos[1 - 1] + (IF q[1] = METADATA THEN 0 ELSE Len(q[1]))
    BY <1>2, <2>1
  <2>3. pos[1] \in 0 .. to
    BY <1>2, <2>1
  <2> QED
    BY <1>2, <2>1, <2>2, <2>3
<1> DEFINE new == [i \in 0 .. Len(t) |-> pos[i + 1]]
<1> HIDE DEF k
<1>5. new \in [0 .. Len(t) -> 0 .. to] /\ new[0] = from + k /\ new[Len(t)] = to
    BY <1>2, <1>3, <1>4
<1>6. ASSUME NEW i \in 1 .. Len(t)
      PROVE  new[i] = new[i - 1] + (IF t[i] = METADATA THEN 0 ELSE Len(t[i]))
  <2> DEFINE j == i + 1
  <2>1. /\ j \in 1 .. Len(q) /\ new[i] = pos[j] /\ new[i - 1] = pos[j - 1]
        /\ t[i] = q[j]
    <3>1. i \in 0 .. Len(t) /\ i - 1 \in 0 .. Len(t) /\ i - 1 + 1 = j - 1
          /\ j \in 1 .. Len(q)
      BY <1>3
    <3> QED
      BY <1>3, <3>1
  <2>2. pos[j] = pos[j - 1] + (IF q[j] = METADATA THEN 0 ELSE Len(q[j]))
    BY <1>2, <2>1
  <2> HIDE DEF j, new
  <2> QED
    BY <2>1, <2>2
<1> HIDE DEF new
<1>7. Spans(t, from + k, to)
    BY <1>5, <1>6 DEF Spans
<1> QED
    BY <1>4, <1>7 DEF k

\* One more piece.
LEMMA PiecesExtended ==
    ASSUME NEW f, NEW q \in Seq(Seq(Int)), NEW t, NEW b, Extended(t, q, b),
           NEW from \in Nat, NEW to \in Nat, NEW n \in 0 .. BUFFER_SIZE,
           (b = METADATA /\ n = 0) \/ b = SubSeq(f, to + 1, to + n),
           Pieces(f, q, from, to)
    PROVE  Pieces(f, t, from, to + n)
<1>2. PICK pos \in [0 .. Len(q) -> 0 .. to] :
          /\ pos[0] = from
          /\ pos[Len(q)] = to
          /\ \A i \in 1 .. Len(q) :
               \/ q[i] = METADATA /\ pos[i] = pos[i - 1]
               \/ /\ q[i] = SubSeq(f, pos[i - 1] + 1, pos[i])
                  /\ pos[i - 1] <= pos[i] /\ pos[i] <= pos[i - 1] + BUFFER_SIZE
    BY DEF Pieces
<1>3. /\ Len(q) \in Nat /\ Len(t) = Len(q) + 1 /\ t[Len(q) + 1] = b
      /\ \A i \in 1 .. Len(q) : t[i] = q[i]
    BY DEF Extended
<1> DEFINE new == [i \in 0 .. Len(t) |-> IF i <= Len(q) THEN pos[i] ELSE to + n]
<1>4. new \in [0 .. Len(t) -> 0 .. to + n] /\ new[0] = from
      /\ new[Len(t)] = to + n
    BY <1>2, <1>3, TransferAssumption
<1>5. ASSUME NEW i \in 1 .. Len(t)
      PROVE  \/ t[i] = METADATA /\ new[i] = new[i - 1]
             \/ /\ t[i] = SubSeq(f, new[i - 1] + 1, new[i])
                /\ new[i - 1] <= new[i] /\ new[i] <= new[i - 1] + BUFFER_SIZE
  <2>1. CASE i <= Len(q)
    <3>1. i \in 1 .. Len(q) /\ new[i] = pos[i] /\ new[i - 1] = pos[i - 1]
      BY <1>3, <2>1
    <3> QED
      BY <1>2, <1>3, <3>1
  <2>2. CASE i = Len(q) + 1
    <3>1. new[i] = to + n /\ new[i - 1] = to /\ t[i] = b
      BY <1>2, <1>3, <2>2
    <3>2. to <= to + n /\ to + n <= to + BUFFER_SIZE /\ (n = 0 => to + n = to)
      BY TransferAssumption
    <3> HIDE DEF new
    <3>3. CASE b = METADATA /\ n = 0
      BY <3>1, <3>2, <3>3
    <3>4. CASE b = SubSeq(f, to + 1, to + n)
      BY <3>1, <3>2, <3>4
    <3> QED
      BY <3>3, <3>4
  <2>3. i <= Len(q) \/ i = Len(q) + 1
    BY <1>3
  <2> HIDE DEF new
  <2> QED
    BY <2>1, <2>2, <2>3
<1> HIDE DEF new
<1> QED
    BY <1>4, <1>5 DEF Pieces

\* The first piece is taken.
LEMMA PiecesShortened ==
    ASSUME NEW f, NEW q \in Seq(Seq(Int)), Len(q) >= 1, NEW t, Shortened(t, q),
           NEW from \in Nat, NEW to \in Nat, Pieces(f, q, from, to)
    PROVE  \E mid \in 0 .. to :
               /\ Pieces(f, t, mid, to)
               /\ \/ q[1] = METADATA /\ mid = from
                  \/ /\ q[1] = SubSeq(f, from + 1, mid)
                     /\ from <= mid /\ mid <= from + BUFFER_SIZE
<1>2. PICK pos \in [0 .. Len(q) -> 0 .. to] :
          /\ pos[0] = from
          /\ pos[Len(q)] = to
          /\ \A i \in 1 .. Len(q) :
               \/ q[i] = METADATA /\ pos[i] = pos[i - 1]
               \/ /\ q[i] = SubSeq(f, pos[i - 1] + 1, pos[i])
                  /\ pos[i - 1] <= pos[i] /\ pos[i] <= pos[i - 1] + BUFFER_SIZE
    BY DEF Pieces
<1>3. /\ Len(q) \in Nat /\ Len(t) = Len(q) - 1
      /\ \A i \in 1 .. Len(t) : t[i] = q[i + 1]
    BY DEF Shortened
<1>4. /\ pos[1] \in 0 .. to
      /\ \/ q[1] = METADATA /\ pos[1] = from
         \/ /\ q[1] = SubSeq(f, from + 1, pos[1])
            /\ from <= pos[1] /\ pos[1] <= from + BUFFER_SIZE
  <2>1. 1 \in 1 .. Len(q) /\ 1 \in 0 .. Len(q) /\ 1 - 1 = 0
    BY <1>3
  <2>2. pos[1] \in 0 .. to /\ pos[1 - 1] = from
    BY <1>2, <2>1
  <2>3. \/ q[1] = METADATA /\ pos[1] = pos[1 - 1]
        \/ /\ q[1] = SubSeq(f, pos[1 - 1] + 1, pos[1])
           /\ pos[1 - 1] <= pos[1] /\ pos[1] <= pos[1 - 1] + BUFFER_SIZE
    BY <1>2, <2>1
  <2> QED
    BY <2>2, <2>3
<1> DEFINE new == [i \in 0 .. Len(t) |-> pos[i + 1]]
<1>5. new \in [0 .. Len(t) -> 0 .. to] /\ new[0] = pos[1] /\ new[Len(t)] = to
    BY <1>2, <1>3
<1>6. ASSUME NEW i \in 1 .. Len(t)
      PROVE  \/ t[i] = METADATA /\ new[i] = new[i - 1]
             \/ /\ t[i] = SubSeq(f, new[i - 1] + 1, new[i])
                /\ new[i - 1] <= new[i] /\ new[i] <= new[i - 1] + BUFFER_SIZE
  <2> DEFINE j == i + 1
  <2>1. /\ j \in 1 .. Len(q) /\ new[i] = pos[j] /\ new[i - 1] = pos[j - 1]
        /\ t[i] = q[j]
    <3>1. i \in 0 .. Len(t) /\ i - 1 \in 0 .. Len(t) /\ i - 1 + 1 = j - 1
          /\ j \in 1 .. Len(q)
      BY <1>3
    <3> QED
      BY <1>3, <3>1
  <2>2. \/ q[j] = METADATA /\ pos[j] = pos[j - 1]
        \/ /\ q[j] = SubSeq(f, pos[j - 1] + 1, pos[j])
           /\ pos[j - 1] <= pos[j] /\ pos[j] <= pos[j - 1] + BUFFER_SIZE
    BY <1>2, <2>1
  <2> HIDE DEF j, new
  <2> QED
    BY <2>1, <2>2
<1> HIDE DEF new
<1>7. Pieces(f, t, pos[1], to)
    BY <1>5, <1>6 DEF Pieces
<1> QED
    BY <1>4, <1>7

\* Numbers of file bytes are integers.
LEMMA NatsAreInts ==
    ASSUME NEW b \in Seq(Nat)
    PROVE  b \in Seq(Int)
OBVIOUS

\* What was put in or taken out does not change what the messages are.
LEMMA ExtendedIn ==
    ASSUME NEW S, NEW T, NEW q \in Seq(S), NEW b \in S, NEW t \in Seq(T),
           Extended(t, q, b)
    PROVE  t \in Seq(S)
<1>1. t = [i \in 1 .. Len(t) |-> t[i]] /\ Len(t) \in Nat /\ Len(q) \in Nat
    OBVIOUS
<1>2. \A i \in 1 .. Len(t) : t[i] \in S
  <2>1. ASSUME NEW i \in 1 .. Len(t) PROVE t[i] \in S
    <3>1. i \in 1 .. Len(q) \/ i = Len(q) + 1
      BY <1>1 DEF Extended
    <3>2. \A j \in 1 .. Len(q) : q[j] \in S
      BY ElementOfSeq
    <3> QED
      BY <3>1, <3>2 DEF Extended
  <2> QED
    BY <2>1
<1> QED
    BY <1>1, <1>2, IsASeq

\* No bytes between a position and itself.
LEMMA NoBytes ==
    ASSUME NEW f, NEW n \in Nat
    PROVE  SubSeq(f, n + 1, n) = <<>>
<1>1. n + 1 \in Int /\ n \in Int /\ n < n + 1
    OBVIOUS
<1> QED
    BY <1>1, SubSeqEmpty

\* The bytes of a file between two positions.
LEMMA BytesOfFile ==
    ASSUME NEW n \in Nat, NEW f \in Seq(0 .. n), NEW a \in Nat, NEW b \in Nat,
           a <= b, b <= Len(f)
    PROVE  /\ SubSeq(f, a + 1, b) \in Seq(Nat)
           /\ Len(SubSeq(f, a + 1, b)) = b - a
<1>1. \A i \in 1 .. Len(f) : f[i] \in Nat
    OBVIOUS
<1>2. a + 1 \in 1 .. Len(f) + 1 /\ b \in a .. Len(f)
    OBVIOUS
<1> QED
    BY <1>1, <1>2

\* As long as nobody changes the file, the sender has read no more than it
\* has.
LEMMA FileIntact ==
    ASSUME TransferInv, Honest
    PROVE  /\ file = Content /\ file \in Seq(Int)
           /\ Len(file) = metadata.file_size
           /\ total_bytes_read <= Len(file)
           /\ total_received_bytes + Len(data) <= Len(file)
<1>1. file = Content /\ total_bytes_read <= metadata.file_size
    BY DEF TransferInv, FileKnown, Honest
<1>2. Len(Content) = metadata.file_size
    BY ContentIs DEF TransferInv, TypeOK
<1>3. file \in Seq(Int)
  <2>1. file \in Seq(0 .. MAX_FILE_SIZE) /\ MAX_FILE_SIZE \in Nat
    BY TransferAssumption DEF TransferInv, TypeOK
  <2>2. \A i \in 1 .. Len(file) : file[i] \in Int
    BY <2>1, ElementOfSeq
  <2> QED
    BY <2>1, <2>2
<1>4. total_received_bytes + Len(data) <= total_bytes_read
    BY DEF TransferInv, SentInOrder
<1>5. /\ Len(file) \in Nat /\ total_bytes_read \in Nat /\ Len(data) \in Nat
      /\ total_received_bytes \in Nat
    BY DEF TransferInv, TypeOK
<1> QED
    BY <1>1, <1>2, <1>3, <1>4, <1>5

\* The next message of an intact sender is the next piece of its file.
LEMMA NextSentPiece ==
    ASSUME TransferInv, Honest, server = "receive", up["S"] # <<>>,
           NEW t, Shortened(t, up["S"])
    PROVE  LET m == up["S"][1]
           IN  /\ Len(m) <= BUFFER_SIZE
               /\ m = SubSeq(file, total_received_bytes + 1,
                             total_received_bytes + Len(m))
               /\ total_received_bytes + Len(m) <= total_bytes_read
               /\ Pieces(file, t, total_received_bytes + Len(m), total_bytes_read)
<1> DEFINE m == up["S"][1]
<1>1. /\ up["S"] \in Seq(Seq(Int)) /\ Len(up["S"]) >= 1 /\ m \in Seq(Nat)
      /\ data = <<>> /\ Len(data) = 0
  <2>1. up["S"] \in Seq(Seq(Nat)) /\ up["S"] \in Seq(Seq(Int)) /\ data = <<>>
    BY DEF TransferInv, Wires
  <2>2. Len(up["S"]) \in Nat \ {0}
    BY <2>1, EmptySeq
  <2>3. m \in Seq(Nat)
    BY <2>1, <2>2, ElementOfSeq
  <2> QED
    BY <2>1, <2>2, <2>3
<1>2. /\ total_received_bytes \in Nat /\ total_bytes_read \in Nat
      /\ MAX_FILE_SIZE \in Nat /\ file \in Seq(0 .. MAX_FILE_SIZE)
    BY TransferAssumption DEF TransferInv, TypeOK
<1>3. Pieces(file, up["S"], total_received_bytes, total_bytes_read)
  <2>1. Pieces(file, up["S"], total_received_bytes + Len(data), total_bytes_read)
    BY DEF TransferInv, SentInOrder, ServerEnded
  <2>2. total_received_bytes + Len(data) = total_received_bytes
    BY <1>1, <1>2
  <2> QED
    BY <2>1, <2>2
<1>4. PICK mid \in 0 .. total_bytes_read :
          /\ Pieces(file, t, mid, total_bytes_read)
          /\ \/ m = METADATA /\ mid = total_received_bytes
             \/ /\ m = SubSeq(file, total_received_bytes + 1, mid)
                /\ total_received_bytes <= mid
                /\ mid <= total_received_bytes + BUFFER_SIZE
  <2>1. up["S"] \in Seq(Seq(Int)) /\ Len(up["S"]) >= 1
    BY <1>1
  <2> QED
    BY <1>2, <1>3, <2>1, PiecesShortened
<1>5. /\ m = SubSeq(file, total_received_bytes + 1, mid)
      /\ total_received_bytes <= mid
      /\ mid <= total_received_bytes + BUFFER_SIZE
    BY <1>1, <1>4, Texts
<1>6. mid <= Len(file) /\ mid \in Nat
    BY <1>2, FileIntact
<1>7. Len(m) = mid - total_received_bytes
    BY <1>2, <1>5, <1>6, BytesOfFile
<1>8. mid = total_received_bytes + Len(m) /\ Len(m) <= BUFFER_SIZE
    BY <1>2, <1>5, <1>6, <1>7, TransferAssumption
<1> HIDE DEF m
<1>9. m = SubSeq(file, total_received_bytes + 1, total_received_bytes + Len(m))
    BY <1>5, <1>8
<1>10. Pieces(file, t, total_received_bytes + Len(m), total_bytes_read)
    BY <1>4, <1>8
<1> QED
    BY <1>4, <1>8, <1>9, <1>10 DEF m

\* The next message to the receiver that is no metadata, of an intact
\* transfer.
LEMMA NextRelayedPiece ==
    ASSUME TransferInv, Honest, receiver # "failed", down["R"] # <<>>,
           NEW t, Shortened(t, down["R"])
    PROVE  LET m == down["R"][1]
           IN  \/ /\ m = METADATA
                  /\ Pieces(file, t, total_transferred_bytes, total_received_bytes)
               \/ /\ m # METADATA
                  /\ m = SubSeq(file, total_transferred_bytes + 1,
                                total_transferred_bytes + Len(m))
                  /\ total_transferred_bytes + Len(m) <= total_received_bytes
                  /\ Pieces(file, t, total_transferred_bytes + Len(m),
                            total_received_bytes)
<1> DEFINE m == down["R"][1]
<1>1. down["R"] \in Seq(Seq(Int)) /\ Len(down["R"]) >= 1
  <2>1. down["R"] \in Seq(Seq(Int))
    BY DEF TransferInv, Wires
  <2>2. Len(down["R"]) \in Nat \ {0}
    BY <2>1, EmptySeq
  <2> QED
    BY <2>1, <2>2
<1>2. /\ total_received_bytes \in Nat /\ total_transferred_bytes \in Nat
      /\ MAX_FILE_SIZE \in Nat /\ file \in Seq(0 .. MAX_FILE_SIZE)
    BY TransferAssumption DEF TransferInv, TypeOK
<1>3. Pieces(file, down["R"], total_transferred_bytes, total_received_bytes)
    BY DEF TransferInv, RelayedInOrder
<1>4. PICK mid \in 0 .. total_received_bytes :
          /\ Pieces(file, t, mid, total_received_bytes)
          /\ \/ m = METADATA /\ mid = total_transferred_bytes
             \/ /\ m = SubSeq(file, total_transferred_bytes + 1, mid)
                /\ total_transferred_bytes <= mid
                /\ mid <= total_transferred_bytes + BUFFER_SIZE
    BY <1>1, <1>2, <1>3, PiecesShortened
<1>5. mid <= Len(file) /\ mid \in Nat
  <2>1. total_received_bytes <= Len(file)
    BY FileIntact DEF TransferInv, TypeOK
  <2> QED
    BY <1>2, <2>1
<1>6. CASE m = METADATA /\ mid = total_transferred_bytes
    BY <1>4, <1>6
<1>7. CASE m = SubSeq(file, total_transferred_bytes + 1, mid)
           /\ total_transferred_bytes <= mid
  <2>1. Len(m) = mid - total_transferred_bytes /\ m \in Seq(Nat)
    BY <1>2, <1>5, <1>7, BytesOfFile
  <2>2. m # METADATA
    BY <2>1, Texts
  <2>3. mid = total_transferred_bytes + Len(m) /\ mid <= total_received_bytes
    BY <1>2, <1>5, <2>1
  <2> HIDE DEF m
  <2>4. m = SubSeq(file, total_transferred_bytes + 1, total_transferred_bytes + Len(m))
    BY <1>7, <2>3
  <2>5. Pieces(file, t, total_transferred_bytes + Len(m), total_received_bytes)
    BY <1>4, <2>3
  <2> QED
    BY <2>2, <2>3, <2>4, <2>5 DEF m
<1> QED
    BY <1>4, <1>6, <1>7

-----------------------------------------------------------------------------
(* Every step keeps the invariant. *)

\* The sender takes the first acknowledgement. A second one that is already
\* there is then the next, and cannot be: the server sends it last
\* (SenderAcks).
LEMMA SenderFirstACKKeeps ==
    ASSUME TransferInv, SenderReceiveACK("await_ack", "open")
    PROVE  TransferInv'
<1>a. /\ sender = "await_ack" /\ down["S"] # <<>>
      /\ \/ Head(down["S"]) = ACK /\ sender' = "open"
         \/ Head(down["S"]) # ACK /\ sender' = "failed"
      /\ UNCHANGED <<file, total_bytes_read, file_size, metadata, server,
                     data, total_received_bytes, receiver,
                     total_transferred_bytes, received_file, answer,
                     path, happened, up>>
    BY DEF SenderReceiveACK, IsACK, OnlySender, serverVars, receiverVars
<1>b. /\ down' \in [{"S", "R"} -> Seq(Seq(Int))]
      /\ Shortened(down'["S"], down["S"]) /\ down'["R"] = down["R"]
      /\ Head(down["S"]) = down["S"][1] /\ Len(down["S"]) >= 1
    BY TookDown DEF SenderReceiveACK, TransferInv
<1> USE DEF TransferInv
<1>1. TypeOK'
  <2>1. /\ up'["S"] \in Seq(Seq(Int)) /\ Len(up'["S"]) <= CHANNEL_CAP
        /\ up'["R"] \in Seq(Seq(Int)) /\ Len(up'["R"]) <= CHANNEL_CAP
        /\ down'["S"] \in Seq(Seq(Int)) /\ Len(down'["S"]) <= CHANNEL_CAP
        /\ down'["R"] \in Seq(Seq(Int)) /\ Len(down'["R"]) <= CHANNEL_CAP
    BY <1>a, <1>b, TransferAssumption
    DEF TypeOK, ConnectionsOK, Wires, Shortened
  <2>2. ConnectionsOK'
    BY <2>1 DEF ConnectionsOK
  <2> QED
    BY <1>a, <2>2 DEF TypeOK
<1>2. Wires'
    BY <1>a, <1>b DEF Wires
<1>3. FileKnown'
    BY <1>a, <1>b DEF FileKnown, Content
<1>4. AnswerKnown'
    BY <1>a, <1>b DEF AnswerKnown
<1>5. ReceiverAcks'
    BY <1>a, <1>b DEF ReceiverAcks, TakenAll
<1>6. SenderAcks'
  <2>1. Len(down["S"]) \in Nat /\ Len(down'["S"]) = Len(down["S"]) - 1
    BY <1>a, <1>b DEF Wires, Shortened
  <2>2. Len(down["S"]) = 1 => down'["S"] = <<>>
    BY <1>b DEF Shortened
  <2>3. Len(down["S"]) >= 2 => down'["S"][1] = down["S"][2]
    BY <1>b DEF Shortened
  <2>4. answer = "y" /\ server \notin {"metadata", "confirm", "ack_sender"}
    BY <1>a DEF AnswerKnown, SenderAcks
  <2>5. Len(down'["S"]) <= 2 /\ down["S"] # <<>>
    BY <1>a, <2>1 DEF SenderAcks
  <2>6. CASE server \in {"receive", "forward", "final", "ack_final"}
    BY <1>a, <2>1, <2>2, <2>5, <2>6 DEF SenderAcks
  <2>7. CASE server \in {"disconnect", "failed"}
    <3>1. sender' \in {"open", "failed"}
      BY <1>a, <1>b, <2>5, <2>7 DEF SenderAcks
    <3>2. sender' = "open" => down'["S"] = <<>> \/ down'["S"][1] # ACK
      BY <1>a, <2>1, <2>2, <2>3, <2>7 DEF SenderAcks
    <3> QED
      BY <1>a, <2>5, <2>7, <3>1, <3>2 DEF SenderAcks
  <2>8. CASE server = "done"
    BY <1>a, <2>5, <2>8 DEF SenderAcks
  <2> QED
    BY <2>4, <2>6, <2>7, <2>8 DEF TypeOK
<1>7. MetadataFirst'
    BY <1>a, <1>b DEF MetadataFirst
<1>8. PathChecked'
    BY <1>a, <1>b DEF PathChecked, WillLookAtPath, HasReceivedFile, Content
<1>9. SentInOrder'
    BY <1>a, <1>b, SentFrame DEF ServerEnded
<1>10. RelayedInOrder'
    BY <1>a, <1>b, RelayedFrame
<1> QED
    BY <1>1, <1>2, <1>3, <1>4, <1>5, <1>6, <1>7, <1>8, <1>9, <1>10

\* The sender takes the size of the file as it is now.
LEMMA SenderOpenFileKeeps ==
    ASSUME TransferInv, SenderOpenFile
    PROVE  TransferInv'
<1> USE DEF TransferInv, SenderOpenFile, OnlySender, serverVars, receiverVars
<1>1. TypeOK'
  <2>1. file_size' \in 0 .. MAX_FILE_SIZE + 1
    <3>1. /\ Len(file) \in Nat /\ Len(file) <= metadata.file_size + 1
          /\ metadata.file_size \in 0 .. MAX_FILE_SIZE /\ MAX_FILE_SIZE \in Nat
      BY TransferAssumption DEF TypeOK, FileKnown
    <3>2. file_size' = Len(file)
      OBVIOUS
    <3> QED
      BY <3>1, <3>2
  <2> QED
    BY <2>1 DEF TypeOK, ConnectionsOK
<1>2. Wires'
    BY DEF Wires
<1>3. FileKnown' /\ PathChecked'
    BY DEF FileKnown, Content, PathChecked, WillLookAtPath, HasReceivedFile
<1>4. AnswerKnown' /\ ReceiverAcks' /\ SenderAcks' /\ MetadataFirst'
    BY DEF AnswerKnown, ReceiverAcks, TakenAll, SenderAcks, MetadataFirst
<1>5. SentInOrder'
    BY SentFrame DEF ServerEnded
<1>6. RelayedInOrder'
    BY RelayedFrame
<1> QED
    BY <1>1, <1>2, <1>3, <1>4, <1>5, <1>6

\* The file is gone.
LEMMA SenderOpenFailsKeeps ==
    ASSUME TransferInv, SenderOpenFails
    PROVE  TransferInv'
<1> USE DEF TransferInv, SenderOpenFails, Happens, OnlySender, serverVars,
            receiverVars
<1>1. TypeOK' /\ Wires'
    BY DEF TypeOK, ConnectionsOK, Wires
<1>2. FileKnown' /\ PathChecked'
    BY DEF FileKnown, Content, PathChecked, WillLookAtPath, HasReceivedFile
<1>3. AnswerKnown' /\ ReceiverAcks' /\ SenderAcks' /\ MetadataFirst'
    BY DEF AnswerKnown, ReceiverAcks, TakenAll, SenderAcks, MetadataFirst
<1>4. SentInOrder'
    BY SentFrame DEF ServerEnded
<1>5. RelayedInOrder'
    BY RelayedFrame
<1> QED
    BY <1>1, <1>2, <1>3, <1>4, <1>5

\* A chunk: the next piece of the file, after the pieces already on their
\* way.
LEMMA SenderSendChunkKeeps ==
    ASSUME TransferInv, SenderSendChunk
    PROVE  TransferInv'
<1>a. /\ sender = "send" /\ ReadSome # <<>> /\ Len(up["S"]) < CHANNEL_CAP
      /\ sender' \in {"send", "failed"}
      /\ total_bytes_read' = total_bytes_read + Len(ReadSome)
      /\ UNCHANGED <<file, file_size, metadata, server, data,
                     total_received_bytes, receiver,
                     total_transferred_bytes, received_file, answer,
                     path, happened, down>>
    BY DEF SenderSendChunk, Room, OnlySender, serverVars, receiverVars
<1>b. /\ ReadSome \in Seq(Nat) /\ Len(ReadSome) <= BUFFER_SIZE
      /\ total_bytes_read + Len(ReadSome) <= Len(file)
      /\ ReadSome = SubSeq(file, total_bytes_read + 1,
                           total_bytes_read + Len(ReadSome))
  <2>1. /\ MAX_FILE_SIZE \in Nat /\ file \in Seq(0 .. MAX_FILE_SIZE)
        /\ total_bytes_read \in Nat
    BY TransferAssumption DEF TransferInv, TypeOK
  <2> QED
    BY <1>a, <2>1, ReadSomeIs
<1>c. /\ total_bytes_read' \in Nat /\ total_bytes_read <= total_bytes_read'
      /\ total_bytes_read' <= Len(file)
      /\ total_bytes_read' <= metadata.file_size + 1
      /\ total_bytes_read' \in 0 .. MAX_FILE_SIZE + 1
      /\ Len(ReadSome) \in 0 .. BUFFER_SIZE
  <2>1. /\ total_bytes_read \in Nat /\ Len(file) \in Nat
        /\ metadata.file_size \in Nat
        /\ Len(file) <= metadata.file_size + 1
        /\ metadata.file_size <= MAX_FILE_SIZE
    BY DEF TransferInv, TypeOK, FileKnown
  <2>2. Len(ReadSome) \in Nat
    BY <1>b
  <2>3. BUFFER_SIZE \in Nat /\ MAX_FILE_SIZE \in Nat
    BY TransferAssumption
  <2>4. total_bytes_read' = total_bytes_read + Len(ReadSome)
    BY <1>a
  <2>5. Len(ReadSome) <= BUFFER_SIZE
        /\ total_bytes_read + Len(ReadSome) <= Len(file)
    BY <1>b
  <2> HIDE DEF ReadSome
  <2>6. total_bytes_read' \in Nat /\ total_bytes_read <= total_bytes_read'
    BY <2>1, <2>2, <2>4
  <2>7. total_bytes_read' <= Len(file) /\ Len(ReadSome) \in 0 .. BUFFER_SIZE
    BY <2>2, <2>3, <2>4, <2>5
  <2>8. total_bytes_read' <= metadata.file_size + 1
    BY <2>1, <2>6, <2>7
  <2>9. total_bytes_read' \in 0 .. MAX_FILE_SIZE + 1
    BY <2>1, <2>3, <2>6, <2>8
  <2> QED
    BY <2>6, <2>7, <2>8, <2>9
<1>d. /\ up' \in [{"S", "R"} -> Seq(Seq(Int))]
      /\ Extended(up'["S"], up["S"], ReadSome) /\ up'["R"] = up["R"]
      /\ up'["S"] \in Seq(Seq(Nat))
  <2>1. ReadSome \in Seq(Int)
    BY <1>b, NatsAreInts
  <2>2. /\ up' \in [{"S", "R"} -> Seq(Seq(Int))]
        /\ Extended(up'["S"], up["S"], ReadSome) /\ up'["R"] = up["R"]
    BY <1>a, <1>b, <2>1, SentUp DEF TransferInv, SenderSendChunk
  <2>3. up'["S"] \in Seq(Seq(Int)) /\ up["S"] \in Seq(Seq(Nat))
    BY <2>2 DEF TransferInv, Wires
  <2> HIDE DEF ReadSome
  <2> QED
    BY <1>b, <2>2, <2>3, ExtendedIn
<1> HIDE DEF ReadSome
<1> USE DEF TransferInv
<1>1. TypeOK'
  <2>1. /\ up'["S"] \in Seq(Seq(Int)) /\ Len(up'["S"]) <= CHANNEL_CAP
        /\ up'["R"] \in Seq(Seq(Int)) /\ Len(up'["R"]) <= CHANNEL_CAP
        /\ down'["S"] \in Seq(Seq(Int)) /\ Len(down'["S"]) <= CHANNEL_CAP
        /\ down'["R"] \in Seq(Seq(Int)) /\ Len(down'["R"]) <= CHANNEL_CAP
    BY <1>a, <1>c, <1>d, TransferAssumption
    DEF TypeOK, ConnectionsOK, Wires, Extended
  <2>2. ConnectionsOK'
    BY <2>1 DEF ConnectionsOK
  <2>3. total_bytes_read' \in 0 .. MAX_FILE_SIZE + 1
    BY <1>c
  <2> QED
    BY <1>a, <2>2, <2>3 DEF TypeOK
<1>2. Wires'
    BY <1>a, <1>c, <1>d DEF Wires
<1>3. FileKnown'
  <2>1. happened \cap FileFaults = {} => total_bytes_read' <= metadata.file_size
    <3>1. happened \cap FileFaults = {} => file = Content
      BY DEF FileKnown
    <3>2. Len(Content) = metadata.file_size
      BY ContentIs DEF TypeOK
    <3> QED
      BY <1>c, <3>1, <3>2
  <2> QED
    BY <1>a, <1>c, <2>1 DEF FileKnown, Content
<1>4. AnswerKnown'
    BY <1>a, <1>c, <1>d DEF AnswerKnown
<1>5. ReceiverAcks'
    BY <1>a, <1>c, <1>d DEF ReceiverAcks, TakenAll
<1>6. SenderAcks'
    BY <1>a, <1>c, <1>d DEF SenderAcks
<1>7. MetadataFirst'
    BY <1>a, <1>c, <1>d DEF MetadataFirst
<1>8. PathChecked'
    BY <1>a, <1>c, <1>d DEF PathChecked, WillLookAtPath, HasReceivedFile, Content
<1>9. SentInOrder'
  <2>1. /\ total_received_bytes \in Nat /\ Len(data) \in Nat
        /\ total_bytes_read \in Nat
    BY DEF TypeOK
  <2>2. Honest' => Honest
    BY <1>a DEF Honest
  <2>3. Honest => total_received_bytes + Len(data) <= total_bytes_read'
    BY <1>c, <2>1 DEF SentInOrder
  <2>4. ASSUME Honest, ~ServerEnded
        PROVE  Pieces(file, up'["S"], total_received_bytes + Len(data),
                      total_bytes_read')
    <3>1. Pieces(file, up["S"], total_received_bytes + Len(data), total_bytes_read)
      BY <2>4 DEF SentInOrder
    <3>2. up["S"] \in Seq(Seq(Int)) /\ total_received_bytes + Len(data) \in Nat
      BY <2>1 DEF Wires
    <3> QED
      BY <1>a, <1>b, <1>c, <1>d, <2>1, <3>1, <3>2, PiecesExtended
  <2> QED
    BY <1>a, <2>2, <2>3, <2>4 DEF SentInOrder, ServerEnded
<1>10. RelayedInOrder'
    BY <1>a, <1>c, <1>d, RelayedFrame
<1> QED
    BY <1>1, <1>2, <1>3, <1>4, <1>5, <1>6, <1>7, <1>8, <1>9, <1>10

\* A chunk was read that the server, having ended, will not read.
LEMMA SenderWriteErrorKeeps ==
    ASSUME TransferInv, SenderWriteError
    PROVE  TransferInv'
<1>a. /\ sender = "send" /\ ReadSome # <<>> /\ ServerEnded /\ sender' = "failed"
      /\ total_bytes_read' = total_bytes_read + Len(ReadSome)
      /\ UNCHANGED <<file, file_size, metadata, server, data,
                     total_received_bytes, receiver,
                     total_transferred_bytes, received_file, answer,
                     path, happened, up, down>>
    BY DEF SenderWriteError, OnlySender, serverVars, receiverVars
<1>b. /\ ReadSome \in Seq(Nat) /\ Len(ReadSome) <= BUFFER_SIZE
      /\ total_bytes_read + Len(ReadSome) <= Len(file)
      /\ ReadSome = SubSeq(file, total_bytes_read + 1,
                           total_bytes_read + Len(ReadSome))
  <2>1. /\ MAX_FILE_SIZE \in Nat /\ file \in Seq(0 .. MAX_FILE_SIZE)
        /\ total_bytes_read \in Nat
    BY TransferAssumption DEF TransferInv, TypeOK
  <2> QED
    BY <1>a, <2>1, ReadSomeIs
<1>c. /\ total_bytes_read' \in Nat /\ total_bytes_read <= total_bytes_read'
      /\ total_bytes_read' <= Len(file)
      /\ total_bytes_read' <= metadata.file_size + 1
      /\ total_bytes_read' \in 0 .. MAX_FILE_SIZE + 1
      /\ Len(ReadSome) \in 0 .. BUFFER_SIZE
  <2>1. /\ total_bytes_read \in Nat /\ Len(file) \in Nat
        /\ metadata.file_size \in Nat
        /\ Len(file) <= metadata.file_size + 1
        /\ metadata.file_size <= MAX_FILE_SIZE
    BY DEF TransferInv, TypeOK, FileKnown
  <2>2. Len(ReadSome) \in Nat
    BY <1>b
  <2>3. BUFFER_SIZE \in Nat /\ MAX_FILE_SIZE \in Nat
    BY TransferAssumption
  <2>4. total_bytes_read' = total_bytes_read + Len(ReadSome)
    BY <1>a
  <2>5. Len(ReadSome) <= BUFFER_SIZE
        /\ total_bytes_read + Len(ReadSome) <= Len(file)
    BY <1>b
  <2> HIDE DEF ReadSome
  <2>6. total_bytes_read' \in Nat /\ total_bytes_read <= total_bytes_read'
    BY <2>1, <2>2, <2>4
  <2>7. total_bytes_read' <= Len(file) /\ Len(ReadSome) \in 0 .. BUFFER_SIZE
    BY <2>2, <2>3, <2>4, <2>5
  <2>8. total_bytes_read' <= metadata.file_size + 1
    BY <2>1, <2>6, <2>7
  <2>9. total_bytes_read' \in 0 .. MAX_FILE_SIZE + 1
    BY <2>1, <2>3, <2>6, <2>8
  <2> QED
    BY <2>6, <2>7, <2>8, <2>9
<1> HIDE DEF ReadSome
<1> USE DEF TransferInv
<1>1. TypeOK'
    BY <1>a, <1>c DEF TypeOK, ConnectionsOK
<1>2. Wires'
    BY <1>a, <1>c DEF Wires
<1>3. FileKnown'
  <2>1. happened \cap FileFaults = {} => total_bytes_read' <= metadata.file_size
    <3>1. happened \cap FileFaults = {} => file = Content
      BY DEF FileKnown
    <3>2. Len(Content) = metadata.file_size
      BY ContentIs DEF TypeOK
    <3> QED
      BY <1>c, <3>1, <3>2
  <2> QED
    BY <1>a, <1>c, <2>1 DEF FileKnown, Content
<1>4. AnswerKnown'
    BY <1>a, <1>c DEF AnswerKnown
<1>5. ReceiverAcks'
    BY <1>a, <1>c DEF ReceiverAcks, TakenAll
<1>6. SenderAcks'
    BY <1>a, <1>c DEF SenderAcks
<1>7. MetadataFirst'
    BY <1>a, <1>c DEF MetadataFirst
<1>8. PathChecked'
    BY <1>a, <1>c DEF PathChecked, WillLookAtPath, HasReceivedFile, Content
<1>9. SentInOrder'
  <2>1. /\ total_received_bytes \in Nat /\ Len(data) \in Nat
        /\ total_bytes_read \in Nat
    BY DEF TypeOK
  <2>2. Honest' => Honest
    BY <1>a DEF Honest
  <2>3. Honest => total_received_bytes + Len(data) <= total_bytes_read'
    BY <1>c, <2>1 DEF SentInOrder
  <2> QED
    BY <1>a, <2>2, <2>3 DEF SentInOrder, ServerEnded
<1>10. RelayedInOrder'
    BY <1>a, <1>c, RelayedFrame
<1> QED
    BY <1>1, <1>2, <1>3, <1>4, <1>5, <1>6, <1>7, <1>8, <1>9, <1>10

\* The sender has read all there is.
LEMMA SenderLoopEndsKeeps ==
    ASSUME TransferInv, SenderLoopEnds
    PROVE  TransferInv'
<1> USE DEF TransferInv, SenderLoopEnds, OnlySender, serverVars, receiverVars
<1>1. TypeOK' /\ Wires'
    BY DEF TypeOK, ConnectionsOK, Wires
<1>2. FileKnown' /\ PathChecked'
    BY DEF FileKnown, Content, PathChecked, WillLookAtPath, HasReceivedFile
<1>3. AnswerKnown' /\ ReceiverAcks' /\ SenderAcks' /\ MetadataFirst'
    BY DEF AnswerKnown, ReceiverAcks, TakenAll, SenderAcks, MetadataFirst
<1>4. SentInOrder'
    BY SentFrame DEF ServerEnded
<1>5. RelayedInOrder'
    BY RelayedFrame
<1> QED
    BY <1>1, <1>2, <1>3, <1>4, <1>5

\* The sender takes the second acknowledgement: only a server that is done
\* sent it.
LEMMA SenderFinalACKKeeps ==
    ASSUME TransferInv, SenderReceiveACK("await_final", "sent")
    PROVE  TransferInv'
<1>a. /\ sender = "await_final" /\ down["S"] # <<>>
      /\ \/ Head(down["S"]) = ACK /\ sender' = "sent"
         \/ Head(down["S"]) # ACK /\ sender' = "failed"
      /\ UNCHANGED <<file, total_bytes_read, file_size, metadata, server,
                     data, total_received_bytes, receiver,
                     total_transferred_bytes, received_file, answer,
                     path, happened, up>>
    BY DEF SenderReceiveACK, IsACK, OnlySender, serverVars, receiverVars
<1>b. /\ down' \in [{"S", "R"} -> Seq(Seq(Int))]
      /\ Shortened(down'["S"], down["S"]) /\ down'["R"] = down["R"]
      /\ Head(down["S"]) = down["S"][1] /\ Len(down["S"]) >= 1
    BY TookDown DEF SenderReceiveACK, TransferInv
<1> USE DEF TransferInv
<1>1. TypeOK'
  <2>1. /\ up'["S"] \in Seq(Seq(Int)) /\ Len(up'["S"]) <= CHANNEL_CAP
        /\ up'["R"] \in Seq(Seq(Int)) /\ Len(up'["R"]) <= CHANNEL_CAP
        /\ down'["S"] \in Seq(Seq(Int)) /\ Len(down'["S"]) <= CHANNEL_CAP
        /\ down'["R"] \in Seq(Seq(Int)) /\ Len(down'["R"]) <= CHANNEL_CAP
    BY <1>a, <1>b, TransferAssumption
    DEF TypeOK, ConnectionsOK, Wires, Shortened
  <2>2. ConnectionsOK'
    BY <2>1 DEF ConnectionsOK
  <2> QED
    BY <1>a, <2>2 DEF TypeOK
<1>2. Wires'
    BY <1>a, <1>b DEF Wires
<1>3. FileKnown'
    BY <1>a, <1>b DEF FileKnown, Content
<1>4. AnswerKnown'
    BY <1>a, <1>b DEF AnswerKnown
<1>5. ReceiverAcks'
    BY <1>a, <1>b DEF ReceiverAcks, TakenAll
<1>6. SenderAcks'
  <2>1. Len(down["S"]) \in Nat /\ Len(down'["S"]) = Len(down["S"]) - 1
    BY <1>a, <1>b DEF Wires, Shortened
  <2>2. Len(down["S"]) = 1 => down'["S"] = <<>>
    BY <1>b DEF Shortened
  <2>3. Len(down["S"]) >= 2 => down'["S"][1] = down["S"][2]
    BY <1>b DEF Shortened
  <2>4. answer = "y" /\ server \notin {"metadata", "confirm", "ack_sender"}
    BY <1>a DEF AnswerKnown, SenderAcks
  <2>5. Len(down'["S"]) <= 2 /\ down["S"] # <<>>
    BY <1>a, <2>1 DEF SenderAcks
  <2>6. CASE server \in {"receive", "forward", "final", "ack_final"}
    BY <1>a, <2>1, <2>2, <2>5, <2>6 DEF SenderAcks
  <2>7. CASE server \in {"disconnect", "failed"}
    <3>1. sender' \in {"open", "failed"}
      BY <1>a, <1>b, <2>5, <2>7 DEF SenderAcks
    <3>2. sender' = "open" => down'["S"] = <<>> \/ down'["S"][1] # ACK
      BY <1>a, <2>1, <2>2, <2>3, <2>7 DEF SenderAcks
    <3> QED
      BY <1>a, <2>5, <2>7, <3>1, <3>2 DEF SenderAcks
  <2>8. CASE server = "done"
    BY <1>a, <2>5, <2>8 DEF SenderAcks
  <2> QED
    BY <2>4, <2>6, <2>7, <2>8 DEF TypeOK
<1>7. MetadataFirst'
    BY <1>a, <1>b DEF MetadataFirst
<1>8. PathChecked'
    BY <1>a, <1>b DEF PathChecked, WillLookAtPath, HasReceivedFile, Content
<1>9. SentInOrder'
    BY <1>a, <1>b, SentFrame DEF ServerEnded
<1>10. RelayedInOrder'
    BY <1>a, <1>b, RelayedFrame
<1> QED
    BY <1>1, <1>2, <1>3, <1>4, <1>5, <1>6, <1>7, <1>8, <1>9, <1>10

\* The connection to the server ended before the acknowledgement came.
LEMMA SenderReadErrorKeeps ==
    ASSUME TransferInv, SenderReadError
    PROVE  TransferInv'
<1> USE DEF TransferInv, SenderReadError, OnlySender, serverVars, receiverVars
<1>1. TypeOK' /\ Wires'
    BY DEF TypeOK, ConnectionsOK, Wires
<1>2. FileKnown' /\ PathChecked'
    BY DEF FileKnown, Content, PathChecked, WillLookAtPath, HasReceivedFile
<1>3. AnswerKnown' /\ ReceiverAcks' /\ SenderAcks' /\ MetadataFirst'
    BY DEF AnswerKnown, ReceiverAcks, TakenAll, SenderAcks, MetadataFirst
<1>4. SentInOrder'
    BY SentFrame DEF ServerEnded
<1>5. RelayedInOrder'
    BY RelayedFrame
<1> QED
    BY <1>1, <1>2, <1>3, <1>4, <1>5

\* The metadata goes to the receiver, before everything else.
LEMMA ServerSendMetadataKeeps ==
    ASSUME TransferInv, ServerSendMetadata
    PROVE  TransferInv'
<1>a. /\ server = "metadata"
      /\ UNCHANGED <<file, sender, total_bytes_read, file_size, metadata,
                     data, total_received_bytes, receiver,
                     total_transferred_bytes, received_file, answer,
                     path, happened, up>>
    BY DEF ServerSendMetadata, ServerSend, OnlyServer, senderVars, receiverVars
<1>b. /\ down' \in [{"S", "R"} -> Seq(Seq(Int))]
      /\ down'["S"] = down["S"]
      /\ \/ /\ server' = "confirm" /\ Extended(down'["R"], down["R"], METADATA)
            /\ Len(down["R"]) < CHANNEL_CAP
         \/ server' = "failed" /\ down' = down /\ ClientEnded("R")
  <2>1. down \in [{"S", "R"} -> Seq(Seq(Int))]
    BY DEF TransferInv, Wires
  <2>2. CASE SendDown("R", METADATA) /\ CanSend("R", METADATA)
             /\ server' = "confirm"
    BY <2>2, SentDown, Texts DEF TransferInv, CanSend, Room
  <2>3. CASE ClientEnded("R") /\ server' = "failed" /\ UNCHANGED down
    BY <2>1, <2>3
  <2> QED
    BY <2>2, <2>3 DEF ServerSendMetadata, ServerSend
<1> USE DEF TransferInv
<1>1. TypeOK'
  <2>1. /\ up'["S"] \in Seq(Seq(Int)) /\ Len(up'["S"]) <= CHANNEL_CAP
        /\ up'["R"] \in Seq(Seq(Int)) /\ Len(up'["R"]) <= CHANNEL_CAP
        /\ down'["S"] \in Seq(Seq(Int)) /\ Len(down'["S"]) <= CHANNEL_CAP
        /\ down'["R"] \in Seq(Seq(Int)) /\ Len(down'["R"]) <= CHANNEL_CAP
    BY <1>a, <1>b, TransferAssumption
    DEF TypeOK, ConnectionsOK, Wires, Extended
  <2>2. ConnectionsOK'
    BY <2>1 DEF ConnectionsOK
  <2>3. server' \in {"confirm", "failed"}
    BY <1>b
  <2> QED
    BY <1>a, <2>2, <2>3 DEF TypeOK
<1>2. Wires'
    BY <1>a, <1>b DEF Wires
<1>3. FileKnown'
    BY <1>a, <1>b DEF FileKnown, Content
<1>4. AnswerKnown'
    BY <1>a, <1>b DEF AnswerKnown, ClientEnded, ReceiverEnded
<1>5. ReceiverAcks'
    BY <1>a, <1>b DEF ReceiverAcks, TakenAll
<1>6. SenderAcks'
    BY <1>a, <1>b DEF SenderAcks
<1>7. MetadataFirst'
  <2>1. down["R"] = <<>> /\ Len(down["R"]) = 0
        /\ receiver \in {"response", "failed"}
    BY <1>a DEF MetadataFirst, Wires
  <2>2. CASE server' = "failed" /\ down' = down /\ ClientEnded("R")
    BY <1>a, <2>1, <2>2 DEF MetadataFirst, ClientEnded, ReceiverEnded
  <2>3. CASE server' = "confirm" /\ Extended(down'["R"], down["R"], METADATA)
    <3>1. /\ Len(down'["R"]) = 1 /\ down'["R"] # <<>>
          /\ down'["R"][1] = METADATA
      BY <2>1, <2>3 DEF Extended
    <3> QED
      BY <1>a, <2>1, <2>3, <3>1 DEF MetadataFirst
  <2> QED
    BY <1>b, <2>2, <2>3
<1>8. PathChecked'
    BY <1>a, <1>b DEF PathChecked, WillLookAtPath, HasReceivedFile, Content
<1>9. SentInOrder'
    BY <1>a, <1>b, SentFrame DEF ServerEnded
<1>10. RelayedInOrder'
  <2>1. CASE server' = "failed" /\ down' = down
    BY <1>a, <2>1, RelayedFrame
  <2>2. CASE server' = "confirm" /\ Extended(down'["R"], down["R"], METADATA)
    <3>1. /\ down["R"] \in Seq(Seq(Int)) /\ METADATA \in Seq(Int)
          /\ total_received_bytes \in Nat /\ total_transferred_bytes \in Nat
          /\ total_received_bytes + 0 = total_received_bytes
      BY Texts DEF Wires, TypeOK
    <3>2. Spans(down'["R"], total_transferred_bytes, total_received_bytes)
      <4>1. Spans(down["R"], total_transferred_bytes, total_received_bytes)
        BY <1>a DEF RelayedInOrder
      <4>2. Spans(down'["R"], total_transferred_bytes, total_received_bytes + 0)
        BY <2>2, <3>1, <4>1, SpansExtended
      <4> QED
        BY <3>1, <4>2
    <3>3. Honest =>
              Pieces(file, down'["R"], total_transferred_bytes, total_received_bytes)
      <4>1. Honest =>
                Pieces(file, down["R"], total_transferred_bytes, total_received_bytes)
        BY <1>a DEF RelayedInOrder
      <4>2. 0 \in 0 .. BUFFER_SIZE
        BY TransferAssumption
      <4>3. Honest => Pieces(file, down'["R"], total_transferred_bytes,
                             total_received_bytes + 0)
        BY <2>2, <3>1, <4>1, <4>2, PiecesExtended
      <4> QED
        BY <3>1, <4>3
    <3> QED
      BY <1>a, <2>2, <3>2, <3>3 DEF RelayedInOrder, Honest
  <2> QED
    BY <1>b, <2>1, <2>2
<1> QED
    BY <1>1, <1>2, <1>3, <1>4, <1>5, <1>6, <1>7, <1>8, <1>9, <1>10

\* The receiver's answer: an acknowledgement that the user gave, or an abort
\* of a receiver that has ended.
LEMMA ServerFirstACKKeeps ==
    ASSUME TransferInv, ServerReceiveACK("confirm", "ack_sender")
    PROVE  TransferInv'
<1>a. /\ server = "confirm" /\ up["R"] # <<>>
      /\ \/ Head(up["R"]) = ACK /\ server' = "ack_sender"
         \/ Head(up["R"]) # ACK /\ server' = "disconnect"
      /\ UNCHANGED <<file, sender, total_bytes_read, file_size, metadata,
                     data, total_received_bytes, receiver,
                     total_transferred_bytes, received_file, answer,
                     path, happened, down>>
    BY DEF ServerReceiveACK, IsACK, OnlyServer, senderVars, receiverVars
<1>b. /\ up' \in [{"S", "R"} -> Seq(Seq(Int))]
      /\ Shortened(up'["R"], up["R"]) /\ up'["S"] = up["S"]
      /\ Head(up["R"]) = up["R"][1] /\ Len(up["R"]) >= 1
    BY TookUp DEF ServerReceiveACK, TransferInv
<1>c. \/ server' = "ack_sender" /\ answer = "y"
      \/ server' = "disconnect" /\ receiver = "failed"
  <2>1. Len(up["R"]) \in Nat /\ 1 \in 1 .. Len(up["R"])
    BY <1>b DEF TransferInv, Wires
  <2>2. \/ up["R"][1] = ACK /\ answer = "y"
        \/ up["R"][1] = ABORT /\ receiver = "failed"
    BY <2>1 DEF TransferInv, AnswerKnown
  <2> QED
    BY <1>a, <1>b, <2>2, Texts
<1> USE DEF TransferInv
<1>1. TypeOK'
  <2>1. /\ up'["S"] \in Seq(Seq(Int)) /\ Len(up'["S"]) <= CHANNEL_CAP
        /\ up'["R"] \in Seq(Seq(Int)) /\ Len(up'["R"]) <= CHANNEL_CAP
        /\ down'["S"] \in Seq(Seq(Int)) /\ Len(down'["S"]) <= CHANNEL_CAP
        /\ down'["R"] \in Seq(Seq(Int)) /\ Len(down'["R"]) <= CHANNEL_CAP
    BY <1>a, <1>b, TransferAssumption
    DEF TypeOK, ConnectionsOK, Wires, Shortened
  <2>2. ConnectionsOK'
    BY <2>1 DEF ConnectionsOK
  <2> QED
    BY <1>a, <2>2 DEF TypeOK
<1>2. Wires'
    BY <1>a, <1>b, <1>c DEF Wires
<1>3. FileKnown'
    BY <1>a, <1>b, <1>c DEF FileKnown, Content
<1>4. AnswerKnown'
  <2>1. \A i \in 1 .. Len(up'["R"]) : i + 1 \in 1 .. Len(up["R"])
                                     /\ up'["R"][i] = up["R"][i + 1]
    BY <1>b DEF Wires, Shortened
  <2>2. \A i \in 1 .. Len(up'["R"]) :
            \/ up'["R"][i] = ACK /\ answer = "y"
            \/ up'["R"][i] = ABORT /\ receiver = "failed"
    BY <2>1 DEF AnswerKnown
  <2>3. receiver \notin {"response", "confirm"}
    BY <1>a DEF AnswerKnown
  <2> QED
    BY <1>a, <1>c, <2>2, <2>3 DEF AnswerKnown
<1>5. ReceiverAcks'
  <2>1. up'["R"] # <<>> => Len(up["R"]) >= 2
    BY <1>b DEF Shortened, Wires
  <2> QED
    BY <1>a, <1>c, <2>1 DEF ReceiverAcks, TakenAll
<1>6. SenderAcks'
    BY <1>a, <1>b, <1>c DEF SenderAcks
<1>7. MetadataFirst'
    BY <1>a, <1>b, <1>c DEF MetadataFirst
<1>8. PathChecked'
    BY <1>a, <1>b, <1>c DEF PathChecked, WillLookAtPath, HasReceivedFile, Content
<1>9. SentInOrder'
    BY <1>a, <1>b, <1>c, SentFrame DEF ServerEnded
<1>10. RelayedInOrder'
  <2>1. server # "failed" /\ server' # "failed"
    BY <1>a
  <2>2. Spans(down["R"], total_transferred_bytes, total_received_bytes)
        => Spans(down["R"], total_transferred_bytes, total_received_bytes)'
    BY <1>a DEF Spans
  <2>3. Pieces(file, down["R"], total_transferred_bytes, total_received_bytes)
        => Pieces(file, down["R"], total_transferred_bytes, total_received_bytes)'
    BY <1>a DEF Pieces
  <2> QED
    BY <1>a, <1>c, <2>1, <2>2, <2>3 DEF RelayedInOrder, Honest
<1> QED
    BY <1>1, <1>2, <1>3, <1>4, <1>5, <1>6, <1>7, <1>8, <1>9, <1>10

\* The sender is told that the receiver agreed.
LEMMA ServerAckSenderKeeps ==
    ASSUME TransferInv, ServerSendACK("ack_sender", "receive")
    PROVE  TransferInv'
<1>a. /\ server = "ack_sender"
      /\ UNCHANGED <<file, sender, total_bytes_read, file_size, metadata,
                     data, total_received_bytes, receiver,
                     total_transferred_bytes, received_file, answer,
                     path, happened, up>>
    BY DEF ServerSendACK, ServerSend, OnlyServer, senderVars, receiverVars
<1>b. /\ down' \in [{"S", "R"} -> Seq(Seq(Int))]
      /\ down'["R"] = down["R"]
      /\ \/ /\ server' = "receive" /\ Extended(down'["S"], down["S"], ACK)
            /\ Len(down["S"]) < CHANNEL_CAP
         \/ server' = "failed" /\ down' = down /\ ClientEnded("S")
  <2>1. down \in [{"S", "R"} -> Seq(Seq(Int))]
    BY DEF TransferInv, Wires
  <2>2. CASE SendDown("S", ACK) /\ CanSend("S", ACK) /\ server' = "receive"
    BY <2>2, SentDown, Texts DEF TransferInv, CanSend, Room
  <2>3. CASE ClientEnded("S") /\ server' = "failed" /\ UNCHANGED down
    BY <2>1, <2>3
  <2> QED
    BY <2>2, <2>3 DEF ServerSendACK, ServerSend
<1> USE DEF TransferInv
<1>1. TypeOK'
  <2>1. /\ up'["S"] \in Seq(Seq(Int)) /\ Len(up'["S"]) <= CHANNEL_CAP
        /\ up'["R"] \in Seq(Seq(Int)) /\ Len(up'["R"]) <= CHANNEL_CAP
        /\ down'["S"] \in Seq(Seq(Int)) /\ Len(down'["S"]) <= CHANNEL_CAP
        /\ down'["R"] \in Seq(Seq(Int)) /\ Len(down'["R"]) <= CHANNEL_CAP
    BY <1>a, <1>b, TransferAssumption
    DEF TypeOK, ConnectionsOK, Wires, Extended
  <2>2. ConnectionsOK'
    BY <2>1 DEF ConnectionsOK
  <2>3. server' \in {"receive", "failed"}
    BY <1>b
  <2> QED
    BY <1>a, <2>2, <2>3 DEF TypeOK
<1>2. Wires'
    BY <1>a, <1>b DEF Wires
<1>3. FileKnown'
    BY <1>a, <1>b DEF FileKnown, Content
<1>4. AnswerKnown'
    BY <1>a, <1>b DEF AnswerKnown
<1>5. ReceiverAcks'
    BY <1>a, <1>b DEF ReceiverAcks, TakenAll
<1>6. SenderAcks'
  <2>1. CASE server' = "failed" /\ down' = down
    BY <1>a, <2>1 DEF SenderAcks
  <2>2. CASE server' = "receive" /\ Extended(down'["S"], down["S"], ACK)
    <3>1. /\ Len(down["S"]) \in Nat /\ Len(down["S"]) <= 1
          /\ down["S"] = <<>> => Len(down["S"]) = 0
          /\ sender \in {"open", "send", "await_final"} => down["S"] = <<>>
      BY <1>a DEF SenderAcks, Wires
    <3>2. Len(down'["S"]) = Len(down["S"]) + 1
      BY <2>2 DEF Extended
    <3> QED
      BY <1>a, <2>2, <3>1, <3>2 DEF SenderAcks
  <2> QED
    BY <1>b, <2>1, <2>2
<1>7. MetadataFirst'
    BY <1>a, <1>b DEF MetadataFirst
<1>8. PathChecked'
    BY <1>a, <1>b DEF PathChecked, WillLookAtPath, HasReceivedFile, Content
<1>9. SentInOrder'
    BY <1>a, <1>b, SentFrame DEF ServerEnded
<1>10. RelayedInOrder'
    BY <1>a, <1>b, RelayedFrame
<1> QED
    BY <1>1, <1>2, <1>3, <1>4, <1>5, <1>6, <1>7, <1>8, <1>9, <1>10

\* The relay has counted as many bytes as were announced.
LEMMA ServerLoopEndsKeeps ==
    ASSUME TransferInv, ServerLoopEnds
    PROVE  TransferInv'
<1> USE DEF TransferInv, ServerLoopEnds, RelayedAll, OnlyServer, senderVars,
            receiverVars
<1>1. TypeOK' /\ Wires'
    BY DEF TypeOK, ConnectionsOK, Wires
<1>2. FileKnown' /\ PathChecked'
    BY DEF FileKnown, Content, PathChecked, WillLookAtPath, HasReceivedFile
<1>3. AnswerKnown' /\ ReceiverAcks' /\ SenderAcks' /\ MetadataFirst'
    BY
    DEF AnswerKnown, ReceiverAcks, TakenAll, Wires, TypeOK, SenderAcks,
        MetadataFirst
<1>4. SentInOrder'
    BY SentFrame DEF ServerEnded
<1>5. RelayedInOrder'
    BY RelayedFrame
<1> QED
    BY <1>1, <1>2, <1>3, <1>4, <1>5

\* A message of the sender is taken: of an intact sender, the next piece.
LEMMA ServerReceiveDataKeeps ==
    ASSUME TransferInv, ServerReceiveData
    PROVE  TransferInv'
<1>a. /\ server = "receive" /\ server' = "forward" /\ up["S"] # <<>>
      /\ Len(Head(up["S"])) <= BUFFER_SIZE /\ data' = Head(up["S"])
      /\ UNCHANGED <<file, sender, total_bytes_read, file_size, metadata,
                     total_received_bytes, receiver,
                     total_transferred_bytes, received_file, answer,
                     path, happened, down>>
  <2>1. Head(up["S"]) \in Seq(Nat)
    BY HeadTailProperties DEF TransferInv, Wires, ServerReceiveData
  <2>2. Len(Head(up["S"])) \in Nat
    BY <2>1
  <2> QED
    BY <2>2, TransferAssumption
    DEF ServerReceiveData, TooLong, OnlyServer, senderVars, receiverVars
<1>b. /\ up' \in [{"S", "R"} -> Seq(Seq(Int))]
      /\ Shortened(up'["S"], up["S"]) /\ up'["R"] = up["R"]
      /\ Head(up["S"]) = up["S"][1] /\ Len(up["S"]) >= 1
      /\ up'["S"] \in Seq(Seq(Nat)) /\ Head(up["S"]) \in Seq(Nat)
  <2>1. /\ up' \in [{"S", "R"} -> Seq(Seq(Int))]
        /\ Shortened(up'["S"], up["S"]) /\ up'["R"] = up["R"]
        /\ Head(up["S"]) = up["S"][1] /\ Len(up["S"]) >= 1
    BY <1>a, TookUp DEF TransferInv, ServerReceiveData
  <2>2. up["S"] \in Seq(Seq(Nat)) /\ up \in [{"S", "R"} -> Seq(Seq(Int))]
    BY DEF TransferInv, Wires
  <2>3. up'["S"] = Tail(up["S"])
    BY <2>2 DEF ServerReceiveData, TakeUp
  <2>4. Tail(up["S"]) \in Seq(Seq(Nat)) /\ Head(up["S"]) \in Seq(Nat)
    BY <1>a, <2>2, HeadTailProperties
  <2> QED
    BY <2>1, <2>3, <2>4
<1>c. data' \in Seq(Nat) /\ data' \in Seq(Int) /\ Len(data') <= BUFFER_SIZE
  <2>1. data' \in Seq(Nat)
    BY <1>a, <1>b
  <2> QED
    BY <1>a, <2>1, NatsAreInts
<1> USE DEF TransferInv
<1>1. TypeOK'
  <2>1. /\ up'["S"] \in Seq(Seq(Int)) /\ Len(up'["S"]) <= CHANNEL_CAP
        /\ up'["R"] \in Seq(Seq(Int)) /\ Len(up'["R"]) <= CHANNEL_CAP
        /\ down'["S"] \in Seq(Seq(Int)) /\ Len(down'["S"]) <= CHANNEL_CAP
        /\ down'["R"] \in Seq(Seq(Int)) /\ Len(down'["R"]) <= CHANNEL_CAP
    BY <1>a, <1>b, <1>c, TransferAssumption
    DEF TypeOK, ConnectionsOK, Wires, Shortened
  <2>2. ConnectionsOK'
    BY <2>1 DEF ConnectionsOK
  <2> QED
    BY <1>a, <1>c, <2>2 DEF TypeOK
<1>2. Wires'
    BY <1>a, <1>b, <1>c DEF Wires
<1>3. FileKnown'
    BY <1>a, <1>b, <1>c DEF FileKnown, Content
<1>4. AnswerKnown'
    BY <1>a, <1>b, <1>c DEF AnswerKnown
<1>5. ReceiverAcks'
    BY <1>a, <1>b, <1>c DEF ReceiverAcks, TakenAll
<1>6. SenderAcks'
    BY <1>a, <1>b, <1>c DEF SenderAcks
<1>7. MetadataFirst'
    BY <1>a, <1>b, <1>c DEF MetadataFirst
<1>8. PathChecked'
    BY <1>a, <1>b, <1>c DEF PathChecked, WillLookAtPath, HasReceivedFile, Content
<1>9. SentInOrder'
  <2>1. Honest' => Honest
    BY <1>a DEF Honest
  <2>2. ASSUME Honest
        PROVE  /\ data' = SubSeq(file, total_received_bytes + 1,
                                 total_received_bytes + Len(data'))
               /\ total_received_bytes + Len(data') <= total_bytes_read
               /\ Pieces(file, up'["S"], total_received_bytes + Len(data'),
                         total_bytes_read)
    BY <1>a, <1>b, <2>2, NextSentPiece
  <2> QED
    BY <1>a, <2>1, <2>2 DEF SentInOrder
<1>10. RelayedInOrder'
    BY <1>a, <1>b, <1>c, RelayedFrame
<1> QED
    BY <1>1, <1>2, <1>3, <1>4, <1>5, <1>6, <1>7, <1>8, <1>9, <1>10

\* A message too long for the buffer: no intact sender sends one.
LEMMA ServerRefuseOversizeKeeps ==
    ASSUME TransferInv, ServerRefuseOversize
    PROVE  TransferInv'
<1>a. /\ server = "receive" /\ server' = "disconnect" /\ up["S"] # <<>>
      /\ Len(Head(up["S"])) > BUFFER_SIZE
      /\ UNCHANGED <<file, sender, total_bytes_read, file_size, metadata,
                     data, total_received_bytes, receiver,
                     total_transferred_bytes, received_file, answer,
                     path, happened>>
    BY DEF ServerRefuseOversize, TooLong, OnlyServer, senderVars, receiverVars
<1>b. /\ up' \in [{"S", "R"} -> Seq(Seq(Int))]
      /\ Shortened(up'["S"], up["S"]) /\ up'["R"] = up["R"]
      /\ Head(up["S"]) = up["S"][1] /\ Len(up["S"]) >= 1
      /\ up'["S"] \in Seq(Seq(Nat)) /\ Head(up["S"]) \in Seq(Nat)
  <2>1. /\ up' \in [{"S", "R"} -> Seq(Seq(Int))]
        /\ Shortened(up'["S"], up["S"]) /\ up'["R"] = up["R"]
        /\ Head(up["S"]) = up["S"][1] /\ Len(up["S"]) >= 1
    BY <1>a, TookUp DEF TransferInv, ServerRefuseOversize
  <2>2. up["S"] \in Seq(Seq(Nat)) /\ up \in [{"S", "R"} -> Seq(Seq(Int))]
    BY DEF TransferInv, Wires
  <2>3. up'["S"] = Tail(up["S"])
    BY <2>2 DEF ServerRefuseOversize, TakeUp
  <2>4. Tail(up["S"]) \in Seq(Seq(Nat)) /\ Head(up["S"]) \in Seq(Nat)
    BY <1>a, <2>2, HeadTailProperties
  <2> QED
    BY <2>1, <2>3, <2>4
<1>c. /\ down' \in [{"S", "R"} -> Seq(Seq(Int))]
      /\ Extended(down'["S"], down["S"], ERROR_TEXT) /\ down'["R"] = down["R"]
    BY SentDown, Texts DEF TransferInv, ServerRefuseOversize
<1>d. ~Honest
  <2>1. Len(Head(up["S"])) \in Nat
    BY <1>b
  <2>2. Honest => Len(Head(up["S"])) <= BUFFER_SIZE
    BY <1>a, <1>b, NextSentPiece
  <2> QED
    BY <1>a, <2>1, <2>2, TransferAssumption
<1>e. /\ Len(down["S"]) \in Nat /\ Len(down["S"]) <= 1
      /\ Len(down'["S"]) = Len(down["S"]) + 1
    BY <1>a, <1>c DEF TransferInv, SenderAcks, Wires, Extended
<1> USE DEF TransferInv
<1>1. TypeOK'
  <2>1. /\ up'["S"] \in Seq(Seq(Int)) /\ Len(up'["S"]) <= CHANNEL_CAP
        /\ up'["R"] \in Seq(Seq(Int)) /\ Len(up'["R"]) <= CHANNEL_CAP
    <3>1. /\ Len(up["S"]) \in Nat /\ Len(up["S"]) <= CHANNEL_CAP
          /\ Len(up["R"]) <= CHANNEL_CAP /\ CHANNEL_CAP \in Nat
      BY TransferAssumption DEF TypeOK, ConnectionsOK
    <3> QED
      BY <1>b, <3>1 DEF Shortened
  <2>2. /\ down'["S"] \in Seq(Seq(Int)) /\ Len(down'["S"]) <= CHANNEL_CAP
        /\ down'["R"] \in Seq(Seq(Int)) /\ Len(down'["R"]) <= CHANNEL_CAP
    <3>1. Len(down["R"]) <= CHANNEL_CAP /\ CHANNEL_CAP \in Nat
          /\ 2 <= CHANNEL_CAP
      BY TransferAssumption DEF TypeOK, ConnectionsOK
    <3> QED
      BY <1>c, <1>e, <3>1
  <2>3. ConnectionsOK'
    BY <2>1, <2>2 DEF ConnectionsOK
  <2> QED
    BY <1>a, <2>3 DEF TypeOK
<1>2. Wires'
    BY <1>a, <1>b, <1>c DEF Wires
<1>3. FileKnown'
    BY <1>a, <1>b, <1>c DEF FileKnown, Content
<1>4. AnswerKnown'
    BY <1>a, <1>b, <1>c DEF AnswerKnown
<1>5. ReceiverAcks'
    BY <1>a, <1>b, <1>c DEF ReceiverAcks, TakenAll
<1>6. SenderAcks'
  <2>0. down'["S"][Len(down["S"]) + 1] # ACK /\ 0 + 1 = 1 /\ 1 + 1 = 2
    BY <1>c, Texts DEF Extended
  <2>1. sender \in {"open", "send", "await_final"} => down'["S"][1] # ACK
    <3>1. sender \in {"open", "send", "await_final"} => Len(down["S"]) = 0
      BY <1>a, EmptySeq DEF SenderAcks
    <3> QED
      BY <2>0, <3>1
  <2>2. Len(down'["S"]) <= 1 \/ down'["S"][2] # ACK
    <3>1. CASE Len(down["S"]) = 0
      BY <1>e, <3>1
    <3>2. CASE Len(down["S"]) = 1
      BY <2>0, <3>2
    <3>3. Len(down["S"]) = 0 \/ Len(down["S"]) = 1
      <4>1. \A n \in Nat : n <= 1 => n = 0 \/ n = 1
        OBVIOUS
      <4> QED
        BY <1>e, <4>1
    <3> QED
      BY <3>1, <3>2, <3>3
  <2> QED
    BY <1>a, <1>e, <2>1, <2>2 DEF SenderAcks
<1>7. MetadataFirst'
    BY <1>a, <1>b, <1>c DEF MetadataFirst
<1>8. PathChecked'
    BY <1>a, <1>b, <1>c DEF PathChecked, WillLookAtPath, HasReceivedFile, Content
<1>9. SentInOrder'
  <2>1. ~Honest'
    BY <1>a, <1>d DEF Honest
  <2> QED
    BY <2>1 DEF SentInOrder
<1>10. RelayedInOrder'
  <2>1. ~Honest' /\ server # "failed" /\ server' # "failed"
    BY <1>a, <1>d DEF Honest
  <2>2. Spans(down["R"], total_transferred_bytes, total_received_bytes)'
    BY <1>a, <1>c DEF Spans, RelayedInOrder
  <2> QED
    BY <2>1, <2>2 DEF RelayedInOrder
<1> QED
    BY <1>1, <1>2, <1>3, <1>4, <1>5, <1>6, <1>7, <1>8, <1>9, <1>10

\* What of the message is still wanted is passed on and counted. Of an intact
\* sender that is all of it.
LEMMA ServerForwardKeeps ==
    ASSUME TransferInv, ServerForward
    PROVE  TransferInv'
<1> DEFINE ws == WriteSize(total_received_bytes, data)
           b == SubSeq(data, 1, ws)
<1>a. /\ server = "forward" /\ data' = <<>>
      /\ UNCHANGED <<file, sender, total_bytes_read, file_size, metadata,
                     receiver, total_transferred_bytes,
                     received_file, answer, path, happened, up>>
    BY DEF ServerForward, ServerSend, OnlyServer, senderVars, receiverVars
<1>t. /\ total_received_bytes \in Nat /\ metadata.file_size \in Nat
      /\ total_received_bytes <= metadata.file_size
      /\ data \in Seq(Nat) /\ Len(data) \in Nat /\ Len(data) <= BUFFER_SIZE
      /\ BUFFER_SIZE \in Nat
    BY TransferAssumption DEF TransferInv, TypeOK, Wires
<1>w. /\ ws \in Nat /\ ws <= Len(data)
      /\ total_received_bytes + ws <= metadata.file_size
      /\ ws = Len(data) \/ total_received_bytes + Len(data) > metadata.file_size
    BY <1>t DEF WriteSize, Lesser
<1> HIDE DEF ws
<1>c. /\ b \in Seq(Nat) /\ b \in Seq(Int) /\ Len(b) = ws
      /\ Len(b) <= BUFFER_SIZE
      /\ b = <<>> => ws = 0
      /\ b # METADATA
  <2>1. b \in Seq(Nat) /\ Len(b) = ws
    <3>1. ASSUME NEW i \in 1 .. ws PROVE data[i] \in Nat
      <4>1. i \in 1 .. Len(data)
        BY <1>t, <1>w
      <4> QED
        BY <1>t, <4>1, ElementOfSeq
    <3>2. /\ SubSeq(data, 1, ws) \in Seq(Nat)
          /\ Len(SubSeq(data, 1, ws)) = IF 1 <= ws THEN ws - 1 + 1 ELSE 0
      BY <1>w, <3>1, SubSeqProperties
    <3> QED
      BY <1>w, <3>2
  <2>2. b \in Seq(Int) /\ b # METADATA
    BY <2>1, NatsAreInts, Texts
  <2> HIDE DEF b
  <2> QED
    BY <1>t, <1>w, <2>1, <2>2
<1>d. /\ down' \in [{"S", "R"} -> Seq(Seq(Int))]
      /\ down'["S"] = down["S"]
      /\ \/ /\ server' = "receive" /\ b = <<>> /\ down' = down
            /\ total_received_bytes' = total_received_bytes
         \/ /\ server' = "receive" /\ b # <<>> /\ Len(down["R"]) < CHANNEL_CAP
            /\ Extended(down'["R"], down["R"], b)
            /\ total_received_bytes' = total_received_bytes + ws
         \/ /\ server' = "failed" /\ down' = down
            /\ total_received_bytes' = total_received_bytes
  <2>1. /\ total_received_bytes' = total_received_bytes
               + (IF server' = "receive" THEN ws ELSE 0)
        /\ \/ CanSend("R", b) /\ SendDown("R", b) /\ server' = "receive"
           \/ ClientEnded("R") /\ b # <<>> /\ server' = "failed" /\ UNCHANGED down
    BY DEF ServerForward, ServerSend, ws
  <2>2. down \in [{"S", "R"} -> Seq(Seq(Int))]
    BY DEF TransferInv, Wires
  <2> HIDE DEF b
  <2>3. CASE CanSend("R", b) /\ SendDown("R", b) /\ server' = "receive"
    <3>1. /\ down' \in [{"S", "R"} -> Seq(Seq(Int))] /\ down'["S"] = down["S"]
          /\ b = <<>> => down' = down
          /\ b # <<>> => Extended(down'["R"], down["R"], b)
      BY <1>c, <2>3, SentDown DEF TransferInv
    <3>2. b # <<>> => Len(down["R"]) < CHANNEL_CAP
      BY <2>3 DEF CanSend, Room
    <3>3. total_received_bytes' = total_received_bytes + ws
      BY <2>1, <2>3
    <3>4. b = <<>> => total_received_bytes' = total_received_bytes
      BY <1>c, <1>t, <3>3
    <3> QED
      BY <2>3, <3>1, <3>2, <3>3, <3>4
  <2>4. CASE ClientEnded("R") /\ b # <<>> /\ server' = "failed"
             /\ UNCHANGED down
    BY <1>t, <2>1, <2>2, <2>4
  <2> QED
    BY <2>1, <2>3, <2>4
<1> HIDE DEF b
<1>e. /\ server' \in {"receive", "failed"} /\ total_received_bytes' \in Nat
      /\ total_received_bytes <= total_received_bytes'
      /\ total_received_bytes' <= metadata.file_size
      /\ total_received_bytes' <= total_received_bytes + Len(data)
      /\ receiver \notin {"response", "confirm"}
  <2>1. receiver \notin {"response", "confirm"}
    BY <1>a DEF TransferInv, AnswerKnown
  <2> QED
    BY <1>d, <1>t, <1>w, <2>1
<1>h. Honest => ws = Len(data) /\ b = data
  <2>1. Honest => ws = Len(data)
    <3>1. Honest => total_received_bytes + Len(data) <= metadata.file_size
      BY FileIntact
    <3> QED
      BY <1>t, <1>w, <3>1
  <2>2. SubSeq(data, 1, Len(data)) = data
    BY <1>t, SubSeqFull
  <2> QED
    BY <2>1, <2>2 DEF b
<1> USE DEF TransferInv
<1>1. TypeOK'
  <2>1. data' \in Seq(Int) /\ Len(data') <= BUFFER_SIZE
    BY <1>a, <1>t
  <2>2. /\ down'["R"] \in Seq(Seq(Int)) /\ Len(down'["R"]) <= CHANNEL_CAP
        /\ down'["S"] \in Seq(Seq(Int)) /\ Len(down'["S"]) <= CHANNEL_CAP
    <3>1. /\ Len(down["R"]) \in Nat /\ Len(down["R"]) <= CHANNEL_CAP
          /\ Len(down["S"]) <= CHANNEL_CAP /\ CHANNEL_CAP \in Nat
      BY TransferAssumption DEF TypeOK, ConnectionsOK
    <3>2. Len(down'["R"]) = Len(down["R"]) \/ Len(down'["R"]) <= CHANNEL_CAP
      BY <1>d, <3>1 DEF Extended
    <3> QED
      BY <1>d, <3>1, <3>2
  <2>3. ConnectionsOK'
    BY <1>a, <2>2 DEF TypeOK, ConnectionsOK
  <2>4. total_received_bytes' \in 0 .. metadata.file_size
    BY <1>e, <1>t
  <2> QED
    BY <1>a, <1>e, <2>1, <2>3, <2>4 DEF TypeOK
<1>2. Wires'
  <2>1. data' \in Seq(Nat)
    BY <1>a
  <2> QED
    BY <1>a, <1>d, <2>1 DEF Wires
<1>3. FileKnown'
    BY <1>a, <1>d, <1>e DEF FileKnown, Content
<1>4. AnswerKnown'
    BY <1>a, <1>d, <1>e DEF AnswerKnown
<1>5. ReceiverAcks'
    BY <1>a, <1>d, <1>e DEF ReceiverAcks, TakenAll
<1>6. SenderAcks'
    BY <1>a, <1>d, <1>e DEF SenderAcks
<1>7. MetadataFirst'
  <2>1. ASSUME NEW i \in 1 .. Len(down'["R"]), down'["R"][i] = METADATA
        PROVE  i = 1 /\ receiver \in {"response", "failed"}
    <3>1. CASE down' = down
      BY <2>1, <3>1 DEF MetadataFirst
    <3>2. CASE Extended(down'["R"], down["R"], b)
      <4>1. Len(down["R"]) \in Nat
        BY DEF Wires
      <4>2. i \in 1 .. Len(down["R"]) + 1
        BY <2>1, <3>2 DEF Extended
      <4>3. i # Len(down["R"]) + 1
        BY <1>c, <2>1, <3>2 DEF Extended
      <4>4. i \in 1 .. Len(down["R"])
        BY <4>1, <4>2, <4>3
      <4>5. down["R"][i] = METADATA
        BY <2>1, <3>2, <4>4 DEF Extended
      <4> QED
        BY <4>4, <4>5 DEF MetadataFirst
    <3> QED
      BY <1>d, <3>1, <3>2
  <2> QED
    BY <1>a, <1>e, <2>1 DEF MetadataFirst
<1>8. PathChecked'
    BY <1>a, <1>d, <1>e DEF PathChecked, WillLookAtPath, HasReceivedFile, Content
<1>9. SentInOrder'
  <2>1. Honest' => Honest
    BY <1>a DEF Honest
  <2>2. /\ Len(data') = 0
        /\ total_received_bytes' + Len(data') = total_received_bytes'
        /\ data' = SubSeq(file, total_received_bytes' + 1,
                          total_received_bytes' + Len(data'))
    <3>1. data' = <<>> /\ Len(data') = 0
      BY <1>a, EmptySeq
    <3>2. total_received_bytes' + Len(data') = total_received_bytes'
      <4>1. total_received_bytes' \in Nat
        BY <1>e
      <4>2. \A n \in Nat : n + 0 = n
        OBVIOUS
      <4> QED
        BY <3>1, <4>1, <4>2
    <3>3. SubSeq(file, total_received_bytes' + 1, total_received_bytes') = <<>>
      BY <1>e, NoBytes
    <3> QED
      BY <3>1, <3>2, <3>3
  <2>3. Honest => total_received_bytes' <= total_bytes_read
    BY <1>e, <1>t DEF SentInOrder, TypeOK
  <2>4. ASSUME Honest, server' = "receive"
        PROVE  Pieces(file, up["S"], total_received_bytes', total_bytes_read)
    <3>1. total_received_bytes' = total_received_bytes + Len(data)
      <4>1. ws = Len(data)
        BY <1>h, <2>4
      <4>2. CASE b = <<>> /\ total_received_bytes' = total_received_bytes
        BY <1>c, <1>t, <4>1, <4>2
      <4>3. CASE total_received_bytes' = total_received_bytes + ws
        BY <4>1, <4>3
      <4> QED
        BY <1>d, <2>4, <4>2, <4>3
    <3>2. Pieces(file, up["S"], total_received_bytes + Len(data), total_bytes_read)
      BY <1>a, <2>4 DEF SentInOrder, ServerEnded
    <3> QED
      BY <3>1, <3>2
  <2>5. Honest /\ server' = "receive" =>
            Pieces(file, up["S"], total_received_bytes' + Len(data'), total_bytes_read)
    BY <2>2, <2>4
  <2>6. Honest => total_received_bytes' + Len(data') <= total_bytes_read
    BY <2>2, <2>3
  <2> QED
    BY <1>a, <1>e, <2>1, <2>2, <2>5, <2>6 DEF SentInOrder, ServerEnded
<1>10. RelayedInOrder'
  <2>1. CASE down' = down /\ total_received_bytes' = total_received_bytes
    BY <1>a, <1>e, <2>1, RelayedFrame
  <2>2. CASE /\ server' = "receive" /\ b # <<>>
             /\ Extended(down'["R"], down["R"], b)
             /\ total_received_bytes' = total_received_bytes + ws
    <3>1. /\ down["R"] \in Seq(Seq(Int)) /\ total_transferred_bytes \in Nat
          /\ ws \in 0 .. BUFFER_SIZE
      BY <1>c, <1>t, <1>w DEF Wires, TypeOK
    <3>2. Spans(down'["R"], total_transferred_bytes, total_received_bytes')
      <4>1. Spans(down["R"], total_transferred_bytes, total_received_bytes)
        BY <1>a DEF RelayedInOrder
      <4>2. Spans(down'["R"], total_transferred_bytes,
                  total_received_bytes + (IF b = METADATA THEN 0 ELSE Len(b)))
        BY <1>c, <1>t, <2>2, <3>1, <4>1, SpansExtended
      <4> QED
        BY <1>c, <2>2, <4>2
    <3>3. ASSUME Honest
          PROVE  Pieces(file, down'["R"], total_transferred_bytes, total_received_bytes')
      <4>1. Pieces(file, down["R"], total_transferred_bytes, total_received_bytes)
        BY <1>a, <3>3 DEF RelayedInOrder
      <4>2. b = SubSeq(file, total_received_bytes + 1, total_received_bytes + ws)
        BY <1>h, <3>3 DEF SentInOrder
      <4> QED
        BY <1>t, <2>2, <3>1, <4>1, <4>2, PiecesExtended
    <3>4. Honest' => Honest
      BY <1>a DEF Honest
    <3>5. Honest => total_transferred_bytes <= total_received_bytes'
      BY <1>e, <1>t, <3>1 DEF RelayedInOrder
    <3> QED
      BY <1>a, <2>2, <3>2, <3>3, <3>4, <3>5 DEF RelayedInOrder
  <2> QED
    BY <1>d, <2>1, <2>2
<1> QED
    BY <1>1, <1>2, <1>3, <1>4, <1>5, <1>6, <1>7, <1>8, <1>9, <1>10

\* The receiver's second acknowledgement: it has taken everything.
LEMMA ServerFinalACKKeeps ==
    ASSUME TransferInv, ServerReceiveACK("final", "ack_final")
    PROVE  TransferInv'
<1>a. /\ server = "final" /\ up["R"] # <<>>
      /\ \/ Head(up["R"]) = ACK /\ server' = "ack_final"
         \/ Head(up["R"]) # ACK /\ server' = "disconnect"
      /\ UNCHANGED <<file, sender, total_bytes_read, file_size, metadata,
                     data, total_received_bytes, receiver,
                     total_transferred_bytes, received_file, answer,
                     path, happened, down>>
    BY DEF ServerReceiveACK, IsACK, OnlyServer, senderVars, receiverVars
<1>b. /\ up' \in [{"S", "R"} -> Seq(Seq(Int))]
      /\ Shortened(up'["R"], up["R"]) /\ up'["S"] = up["S"]
      /\ Head(up["R"]) = up["R"][1] /\ Len(up["R"]) >= 1
    BY TookUp DEF ServerReceiveACK, TransferInv
<1>c. \/ server' = "ack_final" /\ answer = "y"
      \/ server' = "disconnect" /\ receiver = "failed"
  <2>1. Len(up["R"]) \in Nat /\ 1 \in 1 .. Len(up["R"])
    BY <1>b DEF TransferInv, Wires
  <2>2. \/ up["R"][1] = ACK /\ answer = "y"
        \/ up["R"][1] = ABORT /\ receiver = "failed"
    BY <2>1 DEF TransferInv, AnswerKnown
  <2> QED
    BY <1>a, <1>b, <2>2, Texts
<1> USE DEF TransferInv
<1>1. TypeOK'
  <2>1. /\ up'["S"] \in Seq(Seq(Int)) /\ Len(up'["S"]) <= CHANNEL_CAP
        /\ up'["R"] \in Seq(Seq(Int)) /\ Len(up'["R"]) <= CHANNEL_CAP
        /\ down'["S"] \in Seq(Seq(Int)) /\ Len(down'["S"]) <= CHANNEL_CAP
        /\ down'["R"] \in Seq(Seq(Int)) /\ Len(down'["R"]) <= CHANNEL_CAP
    BY <1>a, <1>b, TransferAssumption
    DEF TypeOK, ConnectionsOK, Wires, Shortened
  <2>2. ConnectionsOK'
    BY <2>1 DEF ConnectionsOK
  <2> QED
    BY <1>a, <2>2 DEF TypeOK
<1>2. Wires'
    BY <1>a, <1>b, <1>c DEF Wires
<1>3. FileKnown'
    BY <1>a, <1>b, <1>c DEF FileKnown, Content
<1>4. AnswerKnown'
  <2>1. \A i \in 1 .. Len(up'["R"]) : i + 1 \in 1 .. Len(up["R"])
                                     /\ up'["R"][i] = up["R"][i + 1]
    BY <1>b DEF Wires, Shortened
  <2>2. \A i \in 1 .. Len(up'["R"]) :
            \/ up'["R"][i] = ACK /\ answer = "y"
            \/ up'["R"][i] = ABORT /\ receiver = "failed"
    BY <2>1 DEF AnswerKnown
  <2>3. receiver \notin {"response", "confirm"}
    BY <1>a DEF AnswerKnown
  <2> QED
    BY <1>a, <1>c, <2>2, <2>3 DEF AnswerKnown
<1>5. ReceiverAcks'
  <2>1. up'["R"] # <<>> => Len(up["R"]) >= 2
    BY <1>b DEF Shortened, Wires
  <2> QED
    BY <1>a, <1>c, <2>1 DEF ReceiverAcks, TakenAll
<1>6. SenderAcks'
    BY <1>a, <1>b, <1>c DEF SenderAcks
<1>7. MetadataFirst'
    BY <1>a, <1>b, <1>c DEF MetadataFirst
<1>8. PathChecked'
    BY <1>a, <1>b, <1>c DEF PathChecked, WillLookAtPath, HasReceivedFile, Content
<1>9. SentInOrder'
    BY <1>a, <1>b, <1>c, SentFrame DEF ServerEnded
<1>10. RelayedInOrder'
  <2>1. server # "failed" /\ server' # "failed"
    BY <1>a
  <2>2. Spans(down["R"], total_transferred_bytes, total_received_bytes)
        => Spans(down["R"], total_transferred_bytes, total_received_bytes)'
    BY <1>a DEF Spans
  <2>3. Pieces(file, down["R"], total_transferred_bytes, total_received_bytes)
        => Pieces(file, down["R"], total_transferred_bytes, total_received_bytes)'
    BY <1>a DEF Pieces
  <2> QED
    BY <1>a, <1>c, <2>1, <2>2, <2>3 DEF RelayedInOrder, Honest
<1> QED
    BY <1>1, <1>2, <1>3, <1>4, <1>5, <1>6, <1>7, <1>8, <1>9, <1>10

\* The server's last act: the sender is told.
LEMMA ServerAckFinalKeeps ==
    ASSUME TransferInv, ServerSendACK("ack_final", "done")
    PROVE  TransferInv'
<1>a. /\ server = "ack_final"
      /\ UNCHANGED <<file, sender, total_bytes_read, file_size, metadata,
                     data, total_received_bytes, receiver,
                     total_transferred_bytes, received_file, answer,
                     path, happened, up>>
    BY DEF ServerSendACK, ServerSend, OnlyServer, senderVars, receiverVars
<1>b. /\ down' \in [{"S", "R"} -> Seq(Seq(Int))]
      /\ down'["R"] = down["R"]
      /\ \/ /\ server' = "done" /\ Extended(down'["S"], down["S"], ACK)
            /\ Len(down["S"]) < CHANNEL_CAP
         \/ server' = "failed" /\ down' = down /\ ClientEnded("S")
  <2>1. down \in [{"S", "R"} -> Seq(Seq(Int))]
    BY DEF TransferInv, Wires
  <2>2. CASE SendDown("S", ACK) /\ CanSend("S", ACK) /\ server' = "done"
    BY <2>2, SentDown, Texts DEF TransferInv, CanSend, Room
  <2>3. CASE ClientEnded("S") /\ server' = "failed" /\ UNCHANGED down
    BY <2>1, <2>3
  <2> QED
    BY <2>2, <2>3 DEF ServerSendACK, ServerSend
<1> USE DEF TransferInv
<1>1. TypeOK'
  <2>1. /\ up'["S"] \in Seq(Seq(Int)) /\ Len(up'["S"]) <= CHANNEL_CAP
        /\ up'["R"] \in Seq(Seq(Int)) /\ Len(up'["R"]) <= CHANNEL_CAP
        /\ down'["S"] \in Seq(Seq(Int)) /\ Len(down'["S"]) <= CHANNEL_CAP
        /\ down'["R"] \in Seq(Seq(Int)) /\ Len(down'["R"]) <= CHANNEL_CAP
    BY <1>a, <1>b, TransferAssumption
    DEF TypeOK, ConnectionsOK, Wires, Extended
  <2>2. ConnectionsOK'
    BY <2>1 DEF ConnectionsOK
  <2>3. server' \in {"done", "failed"}
    BY <1>b
  <2> QED
    BY <1>a, <2>2, <2>3 DEF TypeOK
<1>2. Wires'
    BY <1>a, <1>b DEF Wires
<1>3. FileKnown'
    BY <1>a, <1>b DEF FileKnown, Content
<1>4. AnswerKnown'
    BY <1>a, <1>b DEF AnswerKnown
<1>5. ReceiverAcks'
    BY <1>a, <1>b DEF ReceiverAcks, TakenAll
<1>6. SenderAcks'
  <2>1. CASE server' = "failed" /\ down' = down
    BY <1>a, <2>1 DEF SenderAcks
  <2>2. CASE server' = "done" /\ Extended(down'["S"], down["S"], ACK)
    <3>1. /\ Len(down["S"]) \in Nat /\ Len(down["S"]) <= 1
          /\ down["S"] = <<>> => Len(down["S"]) = 0
          /\ sender \in {"open", "send", "await_final"} => down["S"] = <<>>
      BY <1>a DEF SenderAcks, Wires
    <3>2. Len(down'["S"]) = Len(down["S"]) + 1
      BY <2>2 DEF Extended
    <3> QED
      BY <1>a, <2>2, <3>1, <3>2 DEF SenderAcks
  <2> QED
    BY <1>b, <2>1, <2>2
<1>7. MetadataFirst'
    BY <1>a, <1>b DEF MetadataFirst
<1>8. PathChecked'
    BY <1>a, <1>b DEF PathChecked, WillLookAtPath, HasReceivedFile, Content
<1>9. SentInOrder'
    BY <1>a, <1>b, SentFrame DEF ServerEnded
<1>10. RelayedInOrder'
    BY <1>a, <1>b, RelayedFrame
<1> QED
    BY <1>1, <1>2, <1>3, <1>4, <1>5, <1>6, <1>7, <1>8, <1>9, <1>10

\* A client is gone before what it owes.
LEMMA ServerReadErrorKeeps ==
    ASSUME TransferInv, ServerReadError
    PROVE  TransferInv'
<1> USE DEF TransferInv, ServerReadError, OnlyServer, senderVars, receiverVars
<1>1. TypeOK' /\ Wires'
    BY DEF TypeOK, ConnectionsOK, Wires
<1>2. FileKnown' /\ PathChecked'
    BY DEF FileKnown, Content, PathChecked, WillLookAtPath, HasReceivedFile
<1>3. AnswerKnown'
    BY DEF AnswerKnown, ReadFails, ClientEnded, ReceiverEnded
<1>4. ReceiverAcks' /\ SenderAcks' /\ MetadataFirst'
    BY DEF ReceiverAcks, TakenAll, SenderAcks, MetadataFirst
<1>5. SentInOrder'
    BY SentFrame DEF ServerEnded
<1>6. RelayedInOrder'
    BY RelayedFrame
<1> QED
    BY <1>1, <1>2, <1>3, <1>4, <1>5, <1>6

\* The error text goes down the receiver's connection. In an intact transfer
\* nobody reads it: only a receiver that had given up makes the server do
\* this.
LEMMA ServerDisconnectKeeps ==
    ASSUME TransferInv, ServerDisconnect
    PROVE  TransferInv'
<1>a. /\ server = "disconnect"
      /\ UNCHANGED <<file, sender, total_bytes_read, file_size, metadata,
                     data, total_received_bytes, receiver,
                     total_transferred_bytes, received_file, answer,
                     path, happened, up>>
    BY DEF ServerDisconnect, ServerSend, OnlyServer, senderVars, receiverVars
<1>b. /\ down' \in [{"S", "R"} -> Seq(Seq(Int))]
      /\ down'["S"] = down["S"]
      /\ \/ /\ server' = "failed" /\ Extended(down'["R"], down["R"], ERROR_TEXT)
            /\ Len(down["R"]) < CHANNEL_CAP
         \/ server' = "failed" /\ down' = down /\ ClientEnded("R")
  <2>1. down \in [{"S", "R"} -> Seq(Seq(Int))]
    BY DEF TransferInv, Wires
  <2>2. CASE SendDown("R", ERROR_TEXT) /\ CanSend("R", ERROR_TEXT)
             /\ server' = "failed"
    BY <2>2, SentDown, Texts DEF TransferInv, CanSend, Room
  <2>3. CASE ClientEnded("R") /\ server' = "failed" /\ UNCHANGED down
    BY <2>1, <2>3
  <2> QED
    BY <2>2, <2>3 DEF ServerDisconnect, ServerSend
<1> USE DEF TransferInv
<1>1. TypeOK'
  <2>1. /\ up'["S"] \in Seq(Seq(Int)) /\ Len(up'["S"]) <= CHANNEL_CAP
        /\ up'["R"] \in Seq(Seq(Int)) /\ Len(up'["R"]) <= CHANNEL_CAP
        /\ down'["S"] \in Seq(Seq(Int)) /\ Len(down'["S"]) <= CHANNEL_CAP
        /\ down'["R"] \in Seq(Seq(Int)) /\ Len(down'["R"]) <= CHANNEL_CAP
    BY <1>a, <1>b, TransferAssumption
    DEF TypeOK, ConnectionsOK, Wires, Extended
  <2>2. ConnectionsOK'
    BY <2>1 DEF ConnectionsOK
  <2>3. server' \in {"failed"}
    BY <1>b
  <2> QED
    BY <1>a, <2>2, <2>3 DEF TypeOK
<1>2. Wires'
    BY <1>a, <1>b DEF Wires
<1>3. FileKnown'
    BY <1>a, <1>b DEF FileKnown, Content
<1>4. AnswerKnown'
    BY <1>a, <1>b DEF AnswerKnown
<1>5. ReceiverAcks'
    BY <1>a, <1>b DEF ReceiverAcks, TakenAll
<1>6. SenderAcks'
    BY <1>a, <1>b DEF SenderAcks
<1>7. MetadataFirst'
  <2>1. receiver \notin {"response", "confirm"} /\ server' = "failed"
    BY <1>a, <1>b DEF AnswerKnown
  <2>2. ASSUME NEW i \in 1 .. Len(down'["R"]), down'["R"][i] = METADATA
        PROVE  i = 1 /\ receiver \in {"response", "failed"}
    <3>1. CASE down' = down
      BY <2>2, <3>1 DEF MetadataFirst
    <3>2. CASE Extended(down'["R"], down["R"], ERROR_TEXT)
      <4>1. Len(down["R"]) \in Nat
        BY DEF Wires
      <4>2. i \in 1 .. Len(down["R"])
        <5>1. i \in 1 .. Len(down["R"]) + 1
          BY <2>2, <3>2 DEF Extended
        <5>2. i # Len(down["R"]) + 1
          BY <2>2, <3>2, Texts DEF Extended
        <5> QED
          BY <4>1, <5>1, <5>2
      <4>3. down["R"][i] = METADATA
        BY <2>2, <3>2, <4>2 DEF Extended
      <4> QED
        BY <4>2, <4>3 DEF MetadataFirst
    <3> QED
      BY <1>b, <3>1, <3>2
  <2> QED
    BY <1>a, <2>1, <2>2 DEF MetadataFirst
<1>8. PathChecked'
    BY <1>a, <1>b DEF PathChecked, WillLookAtPath, HasReceivedFile, Content
<1>9. SentInOrder'
    BY <1>a, <1>b, SentFrame DEF ServerEnded
<1>10. RelayedInOrder'
  <2>1. Honest' <=> Honest
    BY <1>a DEF Honest
  <2>2. server' = "failed"
    BY <1>b
  <2> QED
    BY <1>a, <2>1, <2>2 DEF RelayedInOrder
<1> QED
    BY <1>1, <1>2, <1>3, <1>4, <1>5, <1>6, <1>7, <1>8, <1>9, <1>10

\* The receiver's first message: the metadata.
LEMMA ReceiverGetResponseKeeps ==
    ASSUME TransferInv, ReceiverGetResponse
    PROVE  TransferInv'
<1>a. /\ receiver = "response" /\ down["R"] # <<>>
      /\ receiver' \in {"confirm", "failed"}
      /\ receiver' = "confirm" => path = "absent"
      /\ UNCHANGED <<file, sender, total_bytes_read, file_size, metadata,
                     server, data, total_received_bytes,
                     total_transferred_bytes, received_file, answer,
                     path, happened, up>>
    BY
    DEF ReceiverGetResponse, AssertJsonProperties, OnlyReceiver,
        SameReceivedFile, senderVars, serverVars
<1>b. /\ down' \in [{"S", "R"} -> Seq(Seq(Int))]
      /\ Shortened(down'["R"], down["R"]) /\ down'["S"] = down["S"]
      /\ Len(down["R"]) >= 1
    BY <1>a, TookDown DEF TransferInv, ReceiverGetResponse
<1>c. down["R"][1] = METADATA /\ server # "metadata"
    BY <1>a DEF TransferInv, MetadataFirst
<1> USE DEF TransferInv
<1>1. TypeOK'
  <2>1. /\ up'["S"] \in Seq(Seq(Int)) /\ Len(up'["S"]) <= CHANNEL_CAP
        /\ up'["R"] \in Seq(Seq(Int)) /\ Len(up'["R"]) <= CHANNEL_CAP
        /\ down'["S"] \in Seq(Seq(Int)) /\ Len(down'["S"]) <= CHANNEL_CAP
        /\ down'["R"] \in Seq(Seq(Int)) /\ Len(down'["R"]) <= CHANNEL_CAP
    BY <1>a, <1>b, TransferAssumption
    DEF TypeOK, ConnectionsOK, Wires, Shortened
  <2>2. ConnectionsOK'
    BY <2>1 DEF ConnectionsOK
  <2> QED
    BY <1>a, <2>2 DEF TypeOK
<1>2. Wires'
    BY <1>a, <1>b, <1>c DEF Wires
<1>3. FileKnown'
    BY <1>a, <1>b, <1>c DEF FileKnown, Content
<1>4. AnswerKnown'
    BY <1>a, <1>b, <1>c DEF AnswerKnown
<1>5. ReceiverAcks'
    BY <1>a, <1>b, <1>c DEF ReceiverAcks, TakenAll
<1>6. SenderAcks'
    BY <1>a, <1>b, <1>c DEF SenderAcks
<1>7. MetadataFirst'
  <2>1. ASSUME NEW i \in 1 .. Len(down'["R"]), down'["R"][i] = METADATA
        PROVE  FALSE
    <3>1. i + 1 \in 1 .. Len(down["R"]) /\ i + 1 # 1
      BY <1>b DEF Shortened, Wires
    <3>2. down["R"][i + 1] = METADATA
      BY <1>b, <2>1 DEF Shortened
    <3> QED
      BY <3>1, <3>2 DEF MetadataFirst
  <2> QED
    BY <1>a, <1>c, <2>1 DEF MetadataFirst
<1>8. PathChecked'
    BY <1>a, <1>b, <1>c DEF PathChecked, WillLookAtPath, HasReceivedFile, Content
<1>9. SentInOrder'
    BY <1>a, <1>b, <1>c, SentFrame DEF ServerEnded
<1>10. RelayedInOrder'
  <2>1. /\ down["R"] \in Seq(Seq(Int)) /\ total_received_bytes \in Nat
        /\ total_transferred_bytes \in Nat
    BY DEF Wires, TypeOK
  <2>2. server # "failed" =>
            Spans(down'["R"], total_transferred_bytes, total_received_bytes)
    <3>1. server # "failed" =>
              Spans(down'["R"], total_transferred_bytes
                        + (IF down["R"][1] = METADATA THEN 0 ELSE Len(down["R"][1])),
                    total_received_bytes)
      BY <1>b, <2>1, SpansShortened DEF RelayedInOrder
    <3>2. total_transferred_bytes
              + (IF down["R"][1] = METADATA THEN 0 ELSE Len(down["R"][1]))
          = total_transferred_bytes
      BY <1>c, <2>1
    <3> QED
      BY <3>1, <3>2
  <2>3. Honest =>
            Pieces(file, down'["R"], total_transferred_bytes, total_received_bytes)
    BY <1>a, <1>b, <1>c, NextRelayedPiece
  <2>4. Honest' => Honest
    BY <1>a DEF Honest
  <2> QED
    BY <1>a, <2>2, <2>3, <2>4 DEF RelayedInOrder
<1> QED
    BY <1>1, <1>2, <1>3, <1>4, <1>5, <1>6, <1>7, <1>8, <1>9, <1>10

\* The user answers: this is where the answer becomes known, and the first
\* message of the receiver.
LEMMA ReceiverConfirmKeeps ==
    ASSUME TransferInv, NEW a \in {"y", "n"}, ReceiverConfirm(a)
    PROVE  TransferInv'
<1> DEFINE m == IF a = "y" THEN ACK ELSE ABORT
<1>a. /\ receiver = "confirm" /\ Len(up["R"]) < CHANNEL_CAP /\ answer' = a
      /\ a = "y" => receiver' = "check"
      /\ a = "n" => receiver' = "failed"
      /\ UNCHANGED <<file, sender, total_bytes_read, file_size, metadata,
                     server, data, total_received_bytes,
                     total_transferred_bytes, received_file, path,
                     happened, down>>
    BY
    DEF ReceiverConfirm, Room, OnlyReceiver, SameReceivedFile, senderVars,
        serverVars
<1>b. /\ up' \in [{"S", "R"} -> Seq(Seq(Int))]
      /\ Extended(up'["R"], up["R"], m) /\ up'["S"] = up["S"]
  <2>1. m \in Seq(Int) /\ m # <<>> /\ Len(m) <= BUFFER_SIZE
    BY Texts
  <2>2. SendUp("R", m)
    BY DEF ReceiverConfirm
  <2> HIDE DEF m
  <2> QED
    BY <2>1, <2>2, SentUp DEF TransferInv
<1>c. /\ up["R"] = <<>> /\ answer = "none" /\ server \in {"metadata", "confirm"}
      /\ Len(up["R"]) = 0
    BY <1>a, EmptySeq DEF TransferInv, AnswerKnown
<1>d. Len(up'["R"]) = 1 /\ up'["R"][1] = m
  <2>1. 0 + 1 = 1
    OBVIOUS
  <2> HIDE DEF m
  <2> QED
    BY <1>b, <1>c, <2>1 DEF Extended
<1> USE DEF TransferInv
<1>1. TypeOK'
  <2>1. /\ up'["S"] \in Seq(Seq(Int)) /\ Len(up'["S"]) <= CHANNEL_CAP
        /\ up'["R"] \in Seq(Seq(Int)) /\ Len(up'["R"]) <= CHANNEL_CAP
        /\ down'["S"] \in Seq(Seq(Int)) /\ Len(down'["S"]) <= CHANNEL_CAP
        /\ down'["R"] \in Seq(Seq(Int)) /\ Len(down'["R"]) <= CHANNEL_CAP
    BY <1>a, <1>b, <1>c, <1>d, TransferAssumption
    DEF TypeOK, ConnectionsOK, Wires, Extended
  <2>2. ConnectionsOK'
    BY <2>1 DEF ConnectionsOK
  <2> QED
    BY <1>a, <2>2 DEF TypeOK
<1>2. Wires'
    BY <1>a, <1>b, <1>c, <1>d DEF Wires
<1>3. FileKnown'
    BY <1>a, <1>b, <1>c, <1>d DEF FileKnown, Content
<1>4. AnswerKnown'
  <2>1. \A i \in 1 .. Len(up'["R"]) : up'["R"][i] = m
    BY <1>d
  <2> QED
    BY <1>a, <1>c, <2>1 DEF AnswerKnown
<1>5. ReceiverAcks'
  <2>1. ~(Len(up'["R"]) >= 2)
    BY <1>d
  <2> QED
    BY <1>a, <1>c, <2>1 DEF ReceiverAcks, TakenAll
<1>6. SenderAcks'
    BY <1>a, <1>b, <1>c, <1>d DEF SenderAcks
<1>7. MetadataFirst'
    BY <1>a, <1>b, <1>c, <1>d DEF MetadataFirst
<1>8. PathChecked'
    BY <1>a, <1>b, <1>c, <1>d DEF PathChecked, WillLookAtPath, HasReceivedFile, Content
<1>9. SentInOrder'
    BY <1>a, <1>b, <1>c, <1>d, SentFrame DEF ServerEnded
<1>10. RelayedInOrder'
    BY <1>a, <1>b, <1>c, <1>d, RelayedFrame
<1> QED
    BY <1>1, <1>2, <1>3, <1>4, <1>5, <1>6, <1>7, <1>8, <1>9, <1>10

\* The receiver looks at the path it is about to open.
LEMMA ReceiverCheckPathKeeps ==
    ASSUME TransferInv, ReceiverCheckPath
    PROVE  TransferInv'
<1> USE DEF TransferInv, ReceiverCheckPath, PathIsFree, OnlyReceiver,
            SameReceivedFile, senderVars, serverVars
<1>1. TypeOK' /\ Wires'
    BY DEF TypeOK, ConnectionsOK, Wires
<1>2. FileKnown' /\ PathChecked'
    BY DEF FileKnown, Content, PathChecked, WillLookAtPath, HasReceivedFile
<1>3. AnswerKnown' /\ ReceiverAcks' /\ SenderAcks' /\ MetadataFirst'
    BY DEF AnswerKnown, ReceiverAcks, TakenAll, SenderAcks, MetadataFirst
<1>4. SentInOrder'
    BY SentFrame DEF ServerEnded
<1>5. RelayedInOrder'
    BY RelayedFrame
<1> QED
    BY <1>1, <1>2, <1>3, <1>4, <1>5

\* It opens the path, one step later.
LEMMA ReceiverOpenKeeps ==
    ASSUME TransferInv, ReceiverOpen
    PROVE  TransferInv'
<1> USE DEF TransferInv, ReceiverOpen, OnlyReceiver, SameReceivedFile,
            senderVars, serverVars
<1>1. TypeOK' /\ Wires'
    BY DEF TypeOK, ConnectionsOK, Wires
<1>2. FileKnown' /\ PathChecked'
    BY DEF FileKnown, Content, PathChecked, WillLookAtPath, HasReceivedFile
<1>3. AnswerKnown' /\ ReceiverAcks' /\ SenderAcks' /\ MetadataFirst'
    BY DEF AnswerKnown, ReceiverAcks, TakenAll, SenderAcks, MetadataFirst
<1>4. SentInOrder'
    BY SentFrame DEF ServerEnded
<1>5. RelayedInOrder'
    BY RelayedFrame
<1> QED
    BY <1>1, <1>2, <1>3, <1>4, <1>5

\* It cannot open it, and goes on.
LEMMA ReceiverOpenFailsKeeps ==
    ASSUME TransferInv, ReceiverOpenFails
    PROVE  TransferInv'
<1> USE DEF TransferInv, ReceiverOpenFails, Happens, SameReceivedFile,
            senderVars, serverVars
<1>1. TypeOK' /\ Wires'
    BY DEF TypeOK, ConnectionsOK, Wires
<1>2. FileKnown' /\ PathChecked'
    BY DEF FileKnown, Content, PathChecked, WillLookAtPath, HasReceivedFile
<1>3. AnswerKnown' /\ ReceiverAcks' /\ SenderAcks' /\ MetadataFirst'
    BY DEF AnswerKnown, ReceiverAcks, TakenAll, SenderAcks, MetadataFirst
<1>4. SentInOrder'
    BY SentFrame DEF ServerEnded
<1>5. RelayedInOrder'
    BY RelayedFrame
<1> QED
    BY <1>1, <1>2, <1>3, <1>4, <1>5

\* The next message is written: what follows in the file, as long as nobody
\* interfered, and counted as the relay counted it.
LEMMA ReceiverWriteKeeps ==
    ASSUME TransferInv, ReceiverWrite
    PROVE  TransferInv'
<1> DEFINE m == down["R"][1]
           ws == WriteSize(total_transferred_bytes, m)
<1>a. /\ receiver = "receive" /\ down["R"] # <<>>
      /\ ~(total_transferred_bytes >= metadata.file_size)
      /\ UNCHANGED <<file, sender, total_bytes_read, file_size, metadata,
                     server, data, total_received_bytes, receiver,
                     answer, path, happened, up>>
    BY DEF ReceiverWrite, TransferredAll, OnlyReceiver, senderVars, serverVars
<1>b. /\ down' \in [{"S", "R"} -> Seq(Seq(Int))]
      /\ Shortened(down'["R"], down["R"]) /\ down'["S"] = down["S"]
      /\ Head(down["R"]) = m /\ m \in Seq(Int) /\ Len(m) \in Nat
      /\ Len(down["R"]) >= 1
    BY <1>a, TookDown DEF TransferInv, ReceiverWrite
<1>c. /\ total_transferred_bytes' = total_transferred_bytes + ws
      /\ received_file' = IF "disk" \in happened THEN received_file
                           ELSE received_file \o SubSeq(m, 1, ws)
    BY <1>b DEF ReceiverWrite
<1>t. /\ total_transferred_bytes \in Nat /\ metadata.file_size \in Nat
      /\ total_received_bytes \in Nat
      /\ total_received_bytes <= metadata.file_size
      /\ total_transferred_bytes <= metadata.file_size
      /\ received_file \in Seq(Int)
      /\ Len(received_file) <= total_transferred_bytes
      /\ down["R"] \in Seq(Seq(Int))
    BY DEF TransferInv, TypeOK, Wires
<1>n. /\ total_transferred_bytes \in Nat /\ metadata.file_size \in Nat
      /\ Len(m) \in Nat /\ total_transferred_bytes <= metadata.file_size
      /\ total_received_bytes \in Nat
      /\ total_received_bytes <= metadata.file_size
    BY <1>b, <1>t
<1>m. m # METADATA
  <2>1. 1 \in 1 .. Len(down["R"])
    BY <1>b, <1>t
  <2> QED
    BY <1>a, <2>1 DEF TransferInv, MetadataFirst
<1> HIDE DEF m
<1>w. /\ ws \in Nat /\ ws <= Len(m)
      /\ total_transferred_bytes + ws <= metadata.file_size
      /\ total_transferred_bytes + Len(m) <= metadata.file_size => ws = Len(m)
    BY <1>n DEF WriteSize, Lesser
<1> HIDE DEF ws
<1>r. received_file' \in Seq(Int)
      /\ Len(received_file') <= total_transferred_bytes'
  <2>1. SubSeq(m, 1, ws) \in Seq(Int) /\ Len(SubSeq(m, 1, ws)) = ws
    <3>1. ASSUME NEW i \in 1 .. ws PROVE m[i] \in Int
      <4>1. i \in 1 .. Len(m)
        BY <1>b, <1>w
      <4> QED
        BY <1>b, <4>1, ElementOfSeq
    <3>2. /\ SubSeq(m, 1, ws) \in Seq(Int)
          /\ Len(SubSeq(m, 1, ws)) = IF 1 <= ws THEN ws - 1 + 1 ELSE 0
      BY <1>w, <3>1, SubSeqProperties
    <3> QED
      BY <1>w, <3>2
  <2>2. CASE "disk" \in happened
    BY <1>c, <1>t, <1>w, <2>2
  <2>3. CASE "disk" \notin happened
    BY <1>c, <1>t, <1>w, <2>1, <2>3, ConcatProperties
  <2> QED
    BY <2>2, <2>3
<1> USE DEF TransferInv
<1>1. TypeOK'
  <2>1. /\ down'["R"] \in Seq(Seq(Int)) /\ Len(down'["R"]) <= CHANNEL_CAP
        /\ down'["S"] \in Seq(Seq(Int)) /\ Len(down'["S"]) <= CHANNEL_CAP
    <3>1. /\ Len(down["R"]) \in Nat /\ Len(down["R"]) <= CHANNEL_CAP
          /\ Len(down["S"]) <= CHANNEL_CAP /\ CHANNEL_CAP \in Nat
      BY TransferAssumption DEF TypeOK, ConnectionsOK
    <3> QED
      BY <1>b, <3>1 DEF Shortened
  <2>2. ConnectionsOK'
    BY <1>a, <2>1 DEF TypeOK, ConnectionsOK
  <2>3. total_transferred_bytes' \in 0 .. metadata.file_size
    BY <1>c, <1>t, <1>w
  <2> QED
    BY <1>a, <1>r, <2>2, <2>3 DEF TypeOK
<1>2. Wires'
    BY <1>a, <1>b DEF Wires
<1>3. FileKnown'
    BY <1>a, <1>b DEF FileKnown, Content
<1>4. AnswerKnown'
    BY <1>a, <1>b DEF AnswerKnown
<1>5. ReceiverAcks'
  <2>1. ~TakenAll
    BY <1>a, <1>t DEF TakenAll
  <2> QED
    BY <1>a, <2>1 DEF ReceiverAcks
<1>6. SenderAcks'
    BY <1>a, <1>b DEF SenderAcks
<1>7. MetadataFirst'
  <2>1. ASSUME NEW i \in 1 .. Len(down'["R"]), down'["R"][i] = METADATA
        PROVE  FALSE
    <3>1. i + 1 \in 1 .. Len(down["R"])
      BY <1>b DEF Shortened, Wires
    <3>2. down["R"][i + 1] = METADATA
      BY <1>b, <2>1 DEF Shortened
    <3> QED
      BY <1>a, <3>1, <3>2 DEF MetadataFirst
  <2>2. server # "metadata"
    BY <1>a DEF MetadataFirst
  <2> QED
    BY <1>a, <2>1, <2>2 DEF MetadataFirst
<1>8. PathChecked'
    BY <1>a, <1>b DEF PathChecked, WillLookAtPath, HasReceivedFile, Content
<1>9. SentInOrder'
    BY <1>a, <1>b, SentFrame DEF ServerEnded
<1>10. RelayedInOrder'
  <2>1. server # "failed" =>
            Spans(down'["R"], total_transferred_bytes', total_received_bytes)
    <3>1. SUFFICES ASSUME server # "failed"
                   PROVE  Spans(down'["R"], total_transferred_bytes',
                                total_received_bytes)
      OBVIOUS
    <3>2. Spans(down["R"], total_transferred_bytes, total_received_bytes)
      BY <3>1 DEF RelayedInOrder
    <3>3. /\ Spans(down'["R"], total_transferred_bytes
                       + (IF m = METADATA THEN 0 ELSE Len(m)), total_received_bytes)
          /\ total_transferred_bytes + (IF m = METADATA THEN 0 ELSE Len(m))
             <= total_received_bytes
      BY <1>b, <1>t, <3>2, SpansShortened DEF m
    <3>4. total_transferred_bytes + Len(m) <= metadata.file_size
      BY <1>b, <1>m, <1>t, <3>3
    <3>5. ws = Len(m)
      BY <1>w, <3>4
    <3> QED
      BY <1>c, <1>m, <3>3, <3>5
  <2>2. ASSUME Honest
        PROVE  /\ received_file' = SubSeq(file, 1, total_transferred_bytes')
               /\ total_transferred_bytes' <= total_received_bytes
               /\ Pieces(file, down'["R"], total_transferred_bytes',
                         total_received_bytes)
    <3>1. /\ m = SubSeq(file, total_transferred_bytes + 1,
                        total_transferred_bytes + Len(m))
          /\ total_transferred_bytes + Len(m) <= total_received_bytes
          /\ Pieces(file, down'["R"], total_transferred_bytes + Len(m),
                    total_received_bytes)
      BY <1>a, <1>b, <1>m, <2>2, NextRelayedPiece DEF m
    <3>2. ws = Len(m)
      <4>1. total_transferred_bytes + Len(m) <= total_received_bytes
        BY <3>1
      <4>2. total_transferred_bytes + Len(m) <= metadata.file_size
        BY <1>n, <4>1
      <4> QED
        BY <1>w, <4>2
    <3>3. total_transferred_bytes' = total_transferred_bytes + Len(m)
      BY <1>c, <3>2
    <3>4. received_file' = received_file \o m
      <4>1. SubSeq(m, 1, ws) = m
        BY <1>b, <3>2, SubSeqFull
      <4>2. "disk" \notin happened
        BY <2>2 DEF Honest
      <4> QED
        BY <1>c, <4>1, <4>2
    <3>5. received_file = SubSeq(file, 1, total_transferred_bytes)
      BY <2>2 DEF RelayedInOrder
    <3>6. /\ file \in Seq(Int) /\ Len(file) \in Nat
          /\ total_transferred_bytes + Len(m) <= Len(file)
      <4>1. file \in Seq(Int) /\ Len(file) = metadata.file_size
        BY <2>2, FileIntact
      <4> QED
        BY <1>b, <1>t, <3>1, <4>1
    <3>7. SubSeq(file, 1, total_transferred_bytes)
              \o SubSeq(file, total_transferred_bytes + 1,
                        total_transferred_bytes + Len(m))
          = SubSeq(file, 1, total_transferred_bytes + Len(m))
      <4>1. /\ total_transferred_bytes + Len(m) \in Nat
            /\ total_transferred_bytes <= total_transferred_bytes + Len(m)
        BY <1>n
      <4> QED
        BY <1>n, <3>6, <4>1, PiecesJoin
    <3> QED
      BY <3>1, <3>3, <3>4, <3>5, <3>7
  <2>3. Honest' => Honest
    BY <1>a DEF Honest
  <2> QED
    BY <1>a, <2>1, <2>2, <2>3 DEF RelayedInOrder
<1> QED
    BY <1>1, <1>2, <1>3, <1>4, <1>5, <1>6, <1>7, <1>8, <1>9, <1>10

\* The second acknowledgement, after the last byte.
LEMMA ReceiverSendACKKeeps ==
    ASSUME TransferInv, ReceiverSendACK
    PROVE  TransferInv'
<1>a. /\ receiver = "receive" /\ Len(up["R"]) < CHANNEL_CAP
      /\ receiver' = "flush" /\ total_transferred_bytes >= metadata.file_size
      /\ UNCHANGED <<file, sender, total_bytes_read, file_size, metadata,
                     server, data, total_received_bytes,
                     total_transferred_bytes, received_file, answer,
                     path, happened, down>>
    BY
    DEF ReceiverSendACK, TransferredAll, Room, OnlyReceiver, SameReceivedFile,
        senderVars, serverVars
<1>b. /\ up' \in [{"S", "R"} -> Seq(Seq(Int))]
      /\ Extended(up'["R"], up["R"], ACK) /\ up'["S"] = up["S"]
    BY SentUp, Texts DEF TransferInv, ReceiverSendACK
<1>c. TakenAll
    BY <1>a DEF TransferInv, TypeOK, TakenAll
<1> USE DEF TransferInv
<1>1. TypeOK'
  <2>1. /\ up'["S"] \in Seq(Seq(Int)) /\ Len(up'["S"]) <= CHANNEL_CAP
        /\ up'["R"] \in Seq(Seq(Int)) /\ Len(up'["R"]) <= CHANNEL_CAP
        /\ down'["S"] \in Seq(Seq(Int)) /\ Len(down'["S"]) <= CHANNEL_CAP
        /\ down'["R"] \in Seq(Seq(Int)) /\ Len(down'["R"]) <= CHANNEL_CAP
    BY <1>a, <1>b, TransferAssumption
    DEF TypeOK, ConnectionsOK, Wires, Extended
  <2>2. ConnectionsOK'
    BY <2>1 DEF ConnectionsOK
  <2> QED
    BY <1>a, <2>2 DEF TypeOK
<1>2. Wires'
    BY <1>a, <1>b, <1>c DEF Wires
<1>3. FileKnown'
    BY <1>a, <1>b, <1>c DEF FileKnown, Content
<1>4. AnswerKnown'
  <2>1. ASSUME NEW i \in 1 .. Len(up'["R"]) PROVE up'["R"][i] = ACK /\ answer = "y"
    <3>1. answer = "y" /\ Len(up["R"]) \in Nat
      BY <1>a DEF AnswerKnown, Wires
    <3>2. i \in 1 .. Len(up["R"]) \/ i = Len(up["R"]) + 1
      BY <1>b, <3>1 DEF Extended
    <3>3. i \in 1 .. Len(up["R"]) => up["R"][i] = ACK
      BY <1>a DEF AnswerKnown
    <3> QED
      BY <1>b, <3>1, <3>2, <3>3 DEF Extended
  <2> QED
    BY <1>a, <2>1 DEF AnswerKnown
<1>5. ReceiverAcks'
    BY <1>a, <1>b, <1>c DEF ReceiverAcks, TakenAll
<1>6. SenderAcks'
    BY <1>a, <1>b, <1>c DEF SenderAcks
<1>7. MetadataFirst'
    BY <1>a, <1>b, <1>c DEF MetadataFirst
<1>8. PathChecked'
    BY <1>a, <1>b, <1>c DEF PathChecked, WillLookAtPath, HasReceivedFile, Content
<1>9. SentInOrder'
    BY <1>a, <1>b, <1>c, SentFrame DEF ServerEnded
<1>10. RelayedInOrder'
    BY <1>a, <1>b, <1>c, RelayedFrame
<1> QED
    BY <1>1, <1>2, <1>3, <1>4, <1>5, <1>6, <1>7, <1>8, <1>9, <1>10

\* The file is flushed.
LEMMA ReceiverFlushKeeps ==
    ASSUME TransferInv, ReceiverFlush
    PROVE  TransferInv'
<1> USE DEF TransferInv, ReceiverFlush, OnlyReceiver, SameReceivedFile,
            senderVars, serverVars
<1>1. TypeOK' /\ Wires'
    BY DEF TypeOK, ConnectionsOK, Wires
<1>2. FileKnown' /\ PathChecked'
    BY DEF FileKnown, Content, PathChecked, WillLookAtPath, HasReceivedFile
<1>3. AnswerKnown' /\ ReceiverAcks' /\ SenderAcks' /\ MetadataFirst'
    BY DEF AnswerKnown, ReceiverAcks, TakenAll, SenderAcks, MetadataFirst
<1>4. SentInOrder'
    BY SentFrame DEF ServerEnded
<1>5. RelayedInOrder'
    BY RelayedFrame
<1> QED
    BY <1>1, <1>2, <1>3, <1>4, <1>5

\* The hash decides: only the announced content passes.
LEMMA ReceiverValidateFileHashKeeps ==
    ASSUME TransferInv, ReceiverValidateFileHash
    PROVE  TransferInv'
<1> USE DEF TransferInv, ReceiverValidateFileHash, FileHash, OnlyReceiver,
            SameReceivedFile, senderVars, serverVars
<1>1. TypeOK' /\ Wires'
    BY DEF TypeOK, ConnectionsOK, Wires
<1>2. FileKnown' /\ PathChecked'
    BY DEF FileKnown, Content, PathChecked, WillLookAtPath, HasReceivedFile, TypeOK
<1>3. AnswerKnown' /\ ReceiverAcks' /\ SenderAcks' /\ MetadataFirst'
    BY DEF AnswerKnown, ReceiverAcks, TakenAll, SenderAcks, MetadataFirst
<1>4. SentInOrder'
    BY SentFrame DEF ServerEnded
<1>5. RelayedInOrder'
    BY RelayedFrame
<1> QED
    BY <1>1, <1>2, <1>3, <1>4, <1>5

\* An archive is unpacked.
LEMMA ReceiverHandleCompressedKeeps ==
    ASSUME TransferInv, ReceiverHandleCompressed
    PROVE  TransferInv'
<1> USE DEF TransferInv, ReceiverHandleCompressed, OnlyReceiver,
            SameReceivedFile, senderVars, serverVars
<1>1. TypeOK'
    BY DEF TypeOK, ConnectionsOK
<1>2. Wires'
    BY DEF Wires
<1>3. FileKnown' /\ PathChecked'
    BY DEF FileKnown, Content, PathChecked, WillLookAtPath, HasReceivedFile
<1>4. AnswerKnown' /\ ReceiverAcks' /\ SenderAcks' /\ MetadataFirst'
    BY DEF AnswerKnown, ReceiverAcks, TakenAll, SenderAcks, MetadataFirst
<1>5. SentInOrder'
    BY SentFrame DEF ServerEnded
<1>6. RelayedInOrder'
    BY RelayedFrame
<1> QED
    BY <1>1, <1>2, <1>3, <1>4, <1>5, <1>6

\* The connection to the server ended before the next message came.
LEMMA ReceiverReadErrorKeeps ==
    ASSUME TransferInv, ReceiverReadError
    PROVE  TransferInv'
<1> USE DEF TransferInv, ReceiverReadError, OnlyReceiver, SameReceivedFile,
            senderVars, serverVars
<1>1. TypeOK' /\ Wires'
    BY DEF TypeOK, ConnectionsOK, Wires
<1>2. FileKnown' /\ PathChecked'
    BY DEF FileKnown, Content, PathChecked, WillLookAtPath, HasReceivedFile
<1>3. AnswerKnown' /\ ReceiverAcks' /\ SenderAcks' /\ MetadataFirst'
    BY DEF AnswerKnown, ReceiverAcks, TakenAll, SenderAcks, MetadataFirst
<1>4. SentInOrder'
    BY SentFrame DEF ServerEnded
<1>5. RelayedInOrder'
    BY RelayedFrame
<1> QED
    BY <1>1, <1>2, <1>3, <1>4, <1>5

\* The server is gone before the receiver could answer.
LEMMA ReceiverWriteErrorKeeps ==
    ASSUME TransferInv, ReceiverWriteError
    PROVE  TransferInv'
<1> USE DEF TransferInv, ReceiverWriteError, OnlyReceiver, SameReceivedFile,
            senderVars, serverVars
<1>1. TypeOK' /\ Wires'
    BY DEF TypeOK, ConnectionsOK, Wires
<1>2. FileKnown' /\ PathChecked'
    BY DEF FileKnown, Content, PathChecked, WillLookAtPath, HasReceivedFile
<1>3. AnswerKnown' /\ ReceiverAcks' /\ SenderAcks' /\ MetadataFirst'
    BY DEF AnswerKnown, ReceiverAcks, TakenAll, SenderAcks, MetadataFirst
<1>4. SentInOrder'
    BY SentFrame DEF ServerEnded
<1>5. RelayedInOrder'
    BY RelayedFrame
<1> QED
    BY <1>1, <1>2, <1>3, <1>4, <1>5

\* The file is changed, once: it keeps its length, grows by a byte or
\* shrinks.
LEMMA FileChangesKeeps ==
    ASSUME TransferInv, FileChanges
    PROVE  TransferInv'
<1>a. /\ happened \cap FileFaults = {} /\ happened \subseteq happened'
      /\ happened' \subseteq Faults /\ happened' \cap FileFaults # {}
      /\ UNCHANGED <<sender, total_bytes_read, file_size, metadata, server,
                     data, total_received_bytes, receiver,
                     total_transferred_bytes, received_file, answer,
                     path, up, down>>
    BY
    DEF FileChanges, Happens, OnlySender, serverVars, receiverVars,
        TransferInv, TypeOK
<1>b. file' \in Seq(0 .. MAX_FILE_SIZE) /\ Len(file') <= metadata.file_size + 1
  <2>1. /\ file \in Seq(0 .. MAX_FILE_SIZE) /\ MAX_FILE_SIZE \in Nat
        /\ Len(file) \in Nat /\ metadata.file_size \in Nat
    BY TransferAssumption DEF TransferInv, TypeOK
  <2>2. Len(file) = metadata.file_size
    <3>1. file = Content
      BY <1>a DEF TransferInv, FileKnown
    <3> QED
      BY <2>1, <3>1, ContentIs
  <2>3. PICK f \in FileFaults : file' \in FileVariants(f)
    BY DEF FileChanges
  <2>4. 0 \in 0 .. MAX_FILE_SIZE
    BY <2>1
  <2>5. CASE f = "replace"
    <3>1. PICK i \in DOMAIN file : file' = [file EXCEPT ![i] = 0]
      BY <2>3, <2>5 DEF FileVariants, OTHER_BYTE
    <3>2. file' \in Seq(0 .. MAX_FILE_SIZE) /\ Len(file') = Len(file)
      BY <2>1, <2>4, <3>1, ExceptSeq
    <3> QED
      BY <2>1, <2>2, <3>2
  <2>6. CASE f = "grow"
    <3>1. file' = Append(file, 0)
      BY <2>3, <2>6 DEF FileVariants, OTHER_BYTE
    <3>2. file' \in Seq(0 .. MAX_FILE_SIZE) /\ Len(file') = Len(file) + 1
      BY <2>1, <2>4, <3>1, AppendProperties
    <3> QED
      BY <2>1, <2>2, <3>2
  <2>7. CASE f = "shrink"
    <3>1. PICK n \in 0 .. Len(file) - 1 : file' = SubSeq(file, 1, n)
      BY <2>3, <2>7 DEF FileVariants
    <3>2. \A i \in 1 .. n : file[i] \in 0 .. MAX_FILE_SIZE
      <4>1. \A i \in 1 .. n : i \in 1 .. Len(file)
        BY <2>1
      <4> QED
        BY <2>1, <4>1, ElementOfSeq
    <3>3. /\ SubSeq(file, 1, n) \in Seq(0 .. MAX_FILE_SIZE)
          /\ Len(SubSeq(file, 1, n)) = IF 1 <= n THEN n - 1 + 1 ELSE 0
      BY <2>1, <3>2, SubSeqProperties
    <3> QED
      BY <2>1, <2>2, <3>1, <3>3
  <2> QED
    BY <2>3, <2>5, <2>6, <2>7 DEF FileFaults
<1>c. ~Honest'
    BY <1>a DEF Honest
<1> USE DEF TransferInv
<1>1. TypeOK'
    BY <1>a, <1>b DEF TypeOK, ConnectionsOK
<1>2. Wires'
    BY <1>a, <1>b DEF Wires
<1>3. FileKnown'
  <2> HIDE DEF TransferInv
  <2> QED
    BY <1>a, <1>b DEF FileKnown, Content, TransferInv
<1>4. AnswerKnown'
    BY <1>a, <1>b DEF AnswerKnown
<1>5. ReceiverAcks'
    BY <1>a, <1>b DEF ReceiverAcks, TakenAll
<1>6. SenderAcks'
    BY <1>a, <1>b DEF SenderAcks
<1>7. MetadataFirst'
    BY <1>a, <1>b DEF MetadataFirst
<1>8. PathChecked'
    BY <1>a, <1>b DEF PathChecked, WillLookAtPath, HasReceivedFile, Content
<1>9. SentInOrder'
    BY <1>c DEF SentInOrder
<1>10. RelayedInOrder'
  <2>1. server # "failed" =>
            Spans(down["R"], total_transferred_bytes, total_received_bytes)'
    BY <1>a DEF Spans, RelayedInOrder
  <2> QED
    BY <1>a, <1>c, <2>1 DEF RelayedInOrder
<1> QED
    BY <1>1, <1>2, <1>3, <1>4, <1>5, <1>6, <1>7, <1>8, <1>9, <1>10

\* A sender that is another program sends what it likes.
LEMMA ForeignSendKeeps ==
    ASSUME TransferInv, ForeignSend
    PROVE  TransferInv'
<1>a. /\ sender = "foreign" /\ Len(up["S"]) < CHANNEL_CAP
      /\ UNCHANGED <<file, sender, total_bytes_read, file_size, metadata,
                     server, data, total_received_bytes, receiver,
                     total_transferred_bytes, received_file, answer,
                     path, happened, down>>
    BY DEF ForeignSend, Room, senderVars, OnlySender, serverVars, receiverVars
<1>b. /\ up' \in [{"S", "R"} -> Seq(Seq(Int))] /\ up'["S"] \in Seq(Seq(Nat))
      /\ up'["R"] = up["R"] /\ Len(up'["S"]) = Len(up["S"]) + 1
  <2>1. PICK n \in 0 .. BUFFER_SIZE + 1 :
            up' = [up EXCEPT !["S"] = Append(up["S"], [i \in 1 .. n |-> 0])]
    BY DEF ForeignSend, OTHER_BYTE
  <2> DEFINE m == [i \in 1 .. n |-> 0]
  <2>2. m \in Seq(Nat) /\ m \in Seq(Int)
    <3>1. n \in Nat
      BY TransferAssumption
    <3>2. \A i \in 1 .. n : 0 \in Nat /\ 0 \in Int
      OBVIOUS
    <3> QED
      BY <3>1, <3>2, IsASeq
  <2> HIDE DEF m
  <2>3. /\ up \in [{"S", "R"} -> Seq(Seq(Int))] /\ up["S"] \in Seq(Seq(Int))
        /\ up["S"] \in Seq(Seq(Nat))
    BY DEF TransferInv, Wires
  <2>4. /\ Append(up["S"], m) \in Seq(Seq(Nat))
        /\ Append(up["S"], m) \in Seq(Seq(Int))
        /\ Len(Append(up["S"], m)) = Len(up["S"]) + 1
    BY <2>2, <2>3, AppendProperties
  <2>5. up' = [up EXCEPT !["S"] = Append(up["S"], m)]
    BY <2>1 DEF m
  <2> QED
    BY <2>3, <2>4, <2>5
<1>c. ~Honest'
    BY <1>a DEF Honest, TransferInv, FileKnown
<1> USE DEF TransferInv
<1>1. TypeOK'
  <2>1. /\ up'["S"] \in Seq(Seq(Int)) /\ Len(up'["S"]) <= CHANNEL_CAP
        /\ up'["R"] \in Seq(Seq(Int)) /\ Len(up'["R"]) <= CHANNEL_CAP
        /\ down'["S"] \in Seq(Seq(Int)) /\ Len(down'["S"]) <= CHANNEL_CAP
        /\ down'["R"] \in Seq(Seq(Int)) /\ Len(down'["R"]) <= CHANNEL_CAP
    BY <1>a, <1>b, TransferAssumption
    DEF TypeOK, ConnectionsOK, Wires
  <2>2. ConnectionsOK'
    BY <2>1 DEF ConnectionsOK
  <2> QED
    BY <1>a, <2>2 DEF TypeOK
<1>2. Wires'
    BY <1>a, <1>b DEF Wires
<1>3. FileKnown'
    BY <1>a, <1>b DEF FileKnown, Content
<1>4. AnswerKnown'
    BY <1>a, <1>b DEF AnswerKnown
<1>5. ReceiverAcks'
    BY <1>a, <1>b DEF ReceiverAcks, TakenAll
<1>6. SenderAcks'
    BY <1>a, <1>b DEF SenderAcks
<1>7. MetadataFirst'
    BY <1>a, <1>b DEF MetadataFirst
<1>8. PathChecked'
    BY <1>a, <1>b DEF PathChecked, WillLookAtPath, HasReceivedFile, Content
<1>9. SentInOrder'
    BY <1>c DEF SentInOrder
<1>10. RelayedInOrder'
    BY <1>a, <1>b, RelayedFrame
<1> QED
    BY <1>1, <1>2, <1>3, <1>4, <1>5, <1>6, <1>7, <1>8, <1>9, <1>10

\* The sender is killed.
LEMMA SenderCrashKeeps ==
    ASSUME TransferInv, SenderCrash
    PROVE  TransferInv'
<1> USE DEF TransferInv, SenderCrash, Happens, OnlySender, serverVars,
            receiverVars
<1>1. TypeOK' /\ Wires'
    BY DEF TypeOK, ConnectionsOK, Wires
<1>2. FileKnown' /\ PathChecked'
    BY DEF FileKnown, Content, PathChecked, WillLookAtPath, HasReceivedFile
<1>3. AnswerKnown' /\ ReceiverAcks' /\ SenderAcks' /\ MetadataFirst'
    BY DEF AnswerKnown, ReceiverAcks, TakenAll, SenderAcks, MetadataFirst
<1>4. SentInOrder'
    BY SentFrame DEF ServerEnded
<1>5. RelayedInOrder'
    BY RelayedFrame
<1> QED
    BY <1>1, <1>2, <1>3, <1>4, <1>5

\* The receiver is killed.
LEMMA ReceiverCrashKeeps ==
    ASSUME TransferInv, ReceiverCrash
    PROVE  TransferInv'
<1> USE DEF TransferInv, ReceiverCrash, Happens, SameReceivedFile, senderVars,
            serverVars
<1>1. TypeOK' /\ Wires'
    BY DEF TypeOK, ConnectionsOK, Wires
<1>2. FileKnown' /\ PathChecked'
    BY DEF FileKnown, Content, PathChecked, WillLookAtPath, HasReceivedFile
<1>3. AnswerKnown' /\ ReceiverAcks' /\ SenderAcks' /\ MetadataFirst'
    BY DEF AnswerKnown, ReceiverAcks, TakenAll, SenderAcks, MetadataFirst
<1>4. SentInOrder'
    BY SentFrame DEF ServerEnded
<1>5. RelayedInOrder'
    BY RelayedFrame
<1> QED
    BY <1>1, <1>2, <1>3, <1>4, <1>5

\* The receiver's disk is full.
LEMMA DiskFillsKeeps ==
    ASSUME TransferInv, DiskFills
    PROVE  TransferInv'
<1> USE DEF TransferInv, DiskFills, Happens, senderVars, serverVars,
            receiverVars
<1>1. TypeOK' /\ Wires'
    BY DEF TypeOK, ConnectionsOK, Wires
<1>2. FileKnown' /\ PathChecked'
    BY DEF FileKnown, Content, PathChecked, WillLookAtPath, HasReceivedFile
<1>3. AnswerKnown' /\ ReceiverAcks' /\ SenderAcks' /\ MetadataFirst'
    BY DEF AnswerKnown, ReceiverAcks, TakenAll, SenderAcks, MetadataFirst
<1>4. SentInOrder'
    BY SentFrame DEF ServerEnded
<1>5. RelayedInOrder'
    BY RelayedFrame
<1> QED
    BY <1>1, <1>2, <1>3, <1>4, <1>5

\* Somebody takes the announced name.
LEMMA PathAppearsKeeps ==
    ASSUME TransferInv, PathAppears
    PROVE  TransferInv'
<1> USE DEF TransferInv, PathAppears, Happens, SameReceivedFile, senderVars,
            serverVars
<1>1. TypeOK' /\ Wires'
    BY DEF TypeOK, ConnectionsOK, Wires
<1>2. FileKnown' /\ PathChecked'
    BY DEF FileKnown, Content, PathChecked, WillLookAtPath, HasReceivedFile
<1>3. AnswerKnown' /\ ReceiverAcks' /\ SenderAcks' /\ MetadataFirst'
    BY DEF AnswerKnown, ReceiverAcks, TakenAll, SenderAcks, MetadataFirst
<1>4. SentInOrder'
    BY SentFrame DEF ServerEnded
<1>5. RelayedInOrder'
    BY RelayedFrame
<1> QED
    BY <1>1, <1>2, <1>3, <1>4, <1>5

-----------------------------------------------------------------------------
(* The invariant. *)

\* The three programs have come to where the server found the sender.
LEMMA TransferInit == Init => TransferInv
<1> SUFFICES ASSUME Init PROVE TransferInv
    OBVIOUS
<1>1. PICK n \in 0 .. MAX_FILE_SIZE, c \in BOOLEAN :
          file = [i \in 1 .. n |-> i] /\ metadata = Announced(file, c)
    BY DEF Init
<1>2. n \in Nat /\ n <= MAX_FILE_SIZE
    BY TransferAssumption
<1>3. file \in Seq(0 .. MAX_FILE_SIZE) /\ Len(file) = n
  <2>1. \A i \in 1 .. n : i \in 0 .. MAX_FILE_SIZE
    BY <1>2, TransferAssumption
  <2> QED
    BY <1>1, <1>2, <2>1, IsASeq
<1>4. /\ metadata.file_size = n /\ metadata.is_compressed = c
      /\ metadata.file_hash = FileHash(file)
    BY <1>1, <1>3 DEF Announced
<1>5. Content = file
    BY <1>1, <1>4 DEF Content
<1>6. /\ up = [x \in {"S", "R"} |-> <<>>] /\ down = [x \in {"S", "R"} |-> <<>>]
      /\ data = <<>> /\ received_file = <<>>
    BY DEF Init
<1>7. /\ up["S"] = <<>> /\ up["R"] = <<>> /\ down["S"] = <<>>
      /\ down["R"] = <<>>
      /\ Len(<<>>) = 0
    BY <1>6, EmptySeq
<1>8. /\ <<>> \in Seq(Seq(Int)) /\ <<>> \in Seq(Int) /\ <<>> \in Seq(Nat)
      /\ <<>> \in Seq(Seq(Nat))
    BY EmptySeq
<1>9. /\ total_bytes_read = 0 /\ file_size = 0 /\ total_received_bytes = 0
      /\ total_transferred_bytes = 0 /\ server = "metadata"
      /\ receiver = "response"
      /\ answer = "none" /\ path = "absent"
      /\ sender \in {"await_ack", "foreign"} /\ happened \subseteq Faults
      /\ sender = "foreign" => "foreign" \in happened
    BY DEF Init
<1>10. /\ 0 \in 0 .. MAX_FILE_SIZE + 1 /\ 0 \in 0 .. n
       /\ n \in 0 .. MAX_FILE_SIZE
       /\ 0 <= BUFFER_SIZE /\ 0 <= CHANNEL_CAP /\ 0 <= n + 1 /\ n <= n + 1
       /\ 0 <= n /\ 0 <= 0 /\ ~(0 > 0) /\ ~(0 >= 2) /\ 0 <= 2
    BY <1>2, TransferAssumption
<1>11. TypeOK
  <2>1. ConnectionsOK
    BY <1>7, <1>8, <1>10 DEF ConnectionsOK
  <2> QED
    BY <1>3, <1>4, <1>6, <1>7, <1>8, <1>9, <1>10, <2>1 DEF TypeOK
<1>12. Wires
    BY <1>6, <1>7, <1>8 DEF Wires
<1>13. FileKnown
    BY <1>3, <1>4, <1>5, <1>9, <1>10 DEF FileKnown
<1>14. AnswerKnown
    BY <1>7, <1>9, <1>10 DEF AnswerKnown
<1>15. ReceiverAcks /\ SenderAcks
    BY <1>7, <1>9, <1>10 DEF ReceiverAcks, SenderAcks
<1>16. MetadataFirst /\ PathChecked
    BY <1>7, <1>9 DEF MetadataFirst, PathChecked, WillLookAtPath, HasReceivedFile
<1> DEFINE pos == [i \in 0 .. 0 |-> 0]
<1>17. /\ pos \in [0 .. Len(<<>>) -> 0 .. 0] /\ pos[0] = 0 /\ pos[Len(<<>>)] = 0
       /\ ~\E i \in 1 .. Len(<<>>) : TRUE
    BY <1>7
<1> HIDE DEF pos
<1>18. Spans(<<>>, 0, 0)
    BY <1>17 DEF Spans
<1>19. Pieces(file, <<>>, 0, 0)
    BY <1>17 DEF Pieces
<1>20. SubSeq(file, 0 + 1, 0) = <<>> /\ 0 + 0 = 0 /\ 0 + 1 = 1
    BY NoBytes
<1>21. SentInOrder
    BY <1>6, <1>7, <1>9, <1>10, <1>19, <1>20 DEF SentInOrder
<1>22. RelayedInOrder
    BY <1>6, <1>7, <1>9, <1>10, <1>18, <1>19, <1>20 DEF RelayedInOrder
<1> QED
    BY <1>11, <1>12, <1>13, <1>14, <1>15, <1>16, <1>21, <1>22 DEF TransferInv

\* A step that changes nothing.
LEMMA StutterKeeps ==
    ASSUME TransferInv, UNCHANGED vars
    PROVE  TransferInv'
<1> USE DEF vars, senderVars, serverVars, receiverVars, TransferInv
<1>1. TypeOK' /\ Wires'
    BY DEF TypeOK, ConnectionsOK, Wires
<1>2. FileKnown' /\ AnswerKnown'
    BY DEF FileKnown, AnswerKnown, Content
<1>3. ReceiverAcks' /\ SenderAcks'
    BY DEF ReceiverAcks, SenderAcks, TakenAll
<1>4. MetadataFirst' /\ PathChecked'
    BY DEF MetadataFirst, PathChecked, WillLookAtPath, HasReceivedFile, Content
<1>5. SentInOrder'
    BY SentFrame DEF ServerEnded
<1>6. RelayedInOrder'
    BY RelayedFrame
<1> QED
    BY <1>1, <1>2, <1>3, <1>4, <1>5, <1>6

\* One step of a client, of the server or of their surroundings.
LEMMA TransferStep == TransferInv /\ [Next]_vars => TransferInv'
<1> SUFFICES ASSUME TransferInv, [Next]_vars PROVE TransferInv'
    OBVIOUS
<1>1. CASE SendFSEntry
    BY <1>1, SenderFirstACKKeeps, SenderOpenFileKeeps, SenderOpenFailsKeeps,
       SenderSendChunkKeeps, SenderWriteErrorKeeps, SenderLoopEndsKeeps,
       SenderFinalACKKeeps, SenderReadErrorKeeps DEF SendFSEntry
<1>2. CASE ReceiveFileInServer
    BY <1>2, ServerSendMetadataKeeps, ServerFirstACKKeeps,
       ServerAckSenderKeeps,
       ServerLoopEndsKeeps, ServerReceiveDataKeeps, ServerRefuseOversizeKeeps,
       ServerForwardKeeps, ServerFinalACKKeeps, ServerAckFinalKeeps,
       ServerReadErrorKeeps, ServerDisconnectKeeps DEF ReceiveFileInServer
<1>3. CASE ReceiveFile
    BY <1>3, ReceiverGetResponseKeeps, ReceiverConfirmKeeps,
       ReceiverCheckPathKeeps,
       ReceiverOpenKeeps, ReceiverOpenFailsKeeps, ReceiverWriteKeeps, ReceiverSendACKKeeps,
       ReceiverFlushKeeps, ReceiverValidateFileHashKeeps,
       ReceiverHandleCompressedKeeps, ReceiverReadErrorKeeps,
       ReceiverWriteErrorKeeps DEF ReceiveFile
<1> QED
    BY <1>1, <1>2, <1>3, FileChangesKeeps, ForeignSendKeeps, SenderCrashKeeps,
       ReceiverCrashKeeps, DiskFillsKeeps, PathAppearsKeeps, StutterKeeps
    DEF Next, Terminated

-----------------------------------------------------------------------------
(* The promise to the two users. *)

\* What a step that keeps the promise needs to know, before and after it.
DeliveryKnown ==
    /\ metadata.file_size \in Nat
    /\ total_transferred_bytes \in Nat /\ total_transferred_bytes <= metadata.file_size
    /\ total_bytes_read \in Nat
    /\ received_file \in Seq(Int) /\ Len(received_file) <= total_transferred_bytes
    /\ receiver \in {"response", "confirm"} => answer = "none"
    /\ receiver \notin {"response", "confirm", "failed"} => answer = "y"
    /\ sender \in {"open", "send", "await_final", "sent"} => answer = "y"
    /\ sender = "sent" => total_transferred_bytes = metadata.file_size
    /\ receiver = "received" =>
           received_file = [i \in 1 .. metadata.file_size |-> i]

\* The invariant knows it.
LEMMA DeliveryIsKnown == TransferInv => DeliveryKnown
<1> SUFFICES ASSUME TransferInv PROVE DeliveryKnown
    OBVIOUS
<1>1. /\ metadata.file_size \in Nat
      /\ total_transferred_bytes \in Nat /\ total_transferred_bytes <= metadata.file_size
      /\ total_bytes_read \in Nat
      /\ received_file \in Seq(Int) /\ Len(received_file) <= total_transferred_bytes
    BY TransferAssumption DEF TransferInv, TypeOK
<1>2. /\ receiver \in {"response", "confirm"} => answer = "none"
      /\ receiver \notin {"response", "confirm", "failed"} => answer = "y"
      /\ sender \in {"open", "send", "await_final", "sent"} => answer = "y"
    BY DEF TransferInv, AnswerKnown
<1>3. sender = "sent" => total_transferred_bytes = metadata.file_size
    BY DEF TransferInv, SenderAcks, ReceiverAcks, TakenAll
<1>4. receiver = "received" => received_file = [i \in 1 .. metadata.file_size |-> i]
    BY DEF TransferInv, PathChecked, Content
<1> QED
    BY <1>1, <1>2, <1>3, <1>4 DEF DeliveryKnown

\* A step of the sender that sends nothing: it is told of success only when
\* everything has arrived.
LEMMA SenderTold ==
    ASSUME DeliveryKnown, DeliveryKnown', sender \notin {"sent", "failed", "received"},
           sender' # "received",
           UNCHANGED <<metadata, total_bytes_read, receiver, answer,
                       total_transferred_bytes, received_file>>
    PROVE  [D!Next]_(D!vars)
<1>1. Outcome(sender) = "pending" /\ Outcome(receiver)' = Outcome(receiver)
    BY DEF Outcome
<1>2. CASE sender' = "sent"
  <2>1. answer = "y" /\ total_transferred_bytes = metadata.file_size
    BY <1>2 DEF DeliveryKnown
  <2>2. Outcome(sender)' = "sent"
    BY <1>2 DEF Outcome
  <2>3. D!SenderSucceeds
    BY <1>1, <2>1, <2>2 DEF D!SenderSucceeds
  <2> QED
    BY <2>3 DEF D!Next
<1>3. CASE sender' = "failed"
  <2>1. Outcome(sender)' = "failed"
    BY <1>3 DEF Outcome
  <2>2. D!SenderFails
    BY <1>1, <2>1 DEF D!SenderFails
  <2> QED
    BY <2>2 DEF D!Next
<1>4. CASE sender' \notin {"sent", "failed"}
  <2>1. Outcome(sender)' = Outcome(sender)
    BY <1>1, <1>4 DEF Outcome
  <2> QED
    BY <1>1, <2>1 DEF D!vars
<1> QED
    BY <1>2, <1>3, <1>4

\* A step of the receiver that takes nothing: it is told of success only when
\* it keeps what was announced.
LEMMA ReceiverTold ==
    ASSUME DeliveryKnown, DeliveryKnown', receiver \notin {"received", "failed", "sent"},
           receiver' # "sent",
           UNCHANGED <<metadata, total_bytes_read, sender, answer,
                       total_transferred_bytes, received_file>>
    PROVE  [D!Next]_(D!vars)
<1>1. Outcome(receiver) = "pending" /\ Outcome(sender)' = Outcome(sender)
    BY DEF Outcome
<1>2. CASE receiver' = "received"
  <2>1. answer = "y" /\ received_file = [i \in 1 .. metadata.file_size |-> i]
    BY <1>2 DEF DeliveryKnown
  <2>2. total_transferred_bytes = metadata.file_size
    <3>1. PICK n \in Nat, k \in Nat :
              /\ n = metadata.file_size /\ k = total_transferred_bytes
              /\ k <= n /\ Len(received_file) <= k
      BY DEF DeliveryKnown
    <3>2. Len([i \in 1 .. n |-> i]) = n
      BY IsASeq
    <3>3. n <= k
      BY <2>1, <3>1, <3>2
    <3> QED
      BY <3>1, <3>3
  <2>3. Outcome(receiver)' = "received"
    BY <1>2 DEF Outcome
  <2>4. D!ReceiverSucceeds
    BY <1>1, <2>1, <2>2, <2>3 DEF D!ReceiverSucceeds, D!Announced
  <2> QED
    BY <2>4 DEF D!Next
<1>3. CASE receiver' = "failed"
  <2>1. Outcome(receiver)' = "failed"
    BY <1>3 DEF Outcome
  <2>2. D!ReceiverFails
    BY <1>1, <2>1 DEF D!ReceiverFails
  <2> QED
    BY <2>2 DEF D!Next
<1>4. CASE receiver' \notin {"received", "failed"}
  <2>1. Outcome(receiver)' = Outcome(receiver)
    BY <1>1, <1>4 DEF Outcome
  <2> QED
    BY <1>1, <2>1 DEF D!vars
<1> QED
    BY <1>2, <1>3, <1>4

\* Neither user is told anything, and no byte leaves or arrives.
LEMMA NobodyTold ==
    ASSUME UNCHANGED <<metadata, total_bytes_read, sender, receiver, answer,
                       total_transferred_bytes, received_file>>
    PROVE  [D!Next]_(D!vars)
BY DEF D!vars, Outcome

\* Bytes leave the sender, which may fail over them.
LEMMA BytesLeave ==
    ASSUME TransferInv, SenderSendChunk \/ SenderWriteError
    PROVE  [D!Next]_(D!vars)
<1>1. /\ sender = "send" /\ ReadSome # <<>> /\ sender' \in {"send", "failed"}
      /\ total_bytes_read' = total_bytes_read + Len(ReadSome)
      /\ UNCHANGED <<metadata, receiver, total_transferred_bytes, received_file, answer>>
    BY DEF SenderSendChunk, SenderWriteError, OnlySender, receiverVars
<1>2. answer = "y" /\ total_bytes_read \in Nat
    BY <1>1, DeliveryIsKnown DEF DeliveryKnown
<1>3. Len(ReadSome) \in Nat /\ Len(ReadSome) > 0
  <2>1. /\ MAX_FILE_SIZE \in Nat /\ file \in Seq(0 .. MAX_FILE_SIZE)
    BY TransferAssumption DEF TransferInv, TypeOK
  <2>2. ReadSome \in Seq(Nat)
    BY <1>2, <2>1, ReadSomeIs
  <2> QED
    BY <1>1, <2>2, EmptySeq
<1>4. total_bytes_read' > total_bytes_read
    BY <1>1, <1>2, <1>3
<1>5. /\ Outcome(sender) = "pending" /\ Outcome(sender)' \in {"pending", "failed"}
      /\ Outcome(receiver)' = Outcome(receiver)
    BY <1>1 DEF Outcome
<1>6. D!Leave
    BY <1>1, <1>2, <1>4, <1>5 DEF D!Leave
<1> QED
    BY <1>6 DEF D!Next

\* The user answers; who says no is told of the failure at once.
LEMMA UserAnswers ==
    ASSUME TransferInv, NEW a \in {"y", "n"}, ReceiverConfirm(a)
    PROVE  [D!Next]_(D!vars)
<1>1. /\ receiver = "confirm" /\ answer' = a
      /\ receiver' = IF a = "y" THEN "check" ELSE "failed"
      /\ UNCHANGED <<metadata, sender, total_bytes_read,
                     total_transferred_bytes, received_file>>
    BY DEF ReceiverConfirm, OnlyReceiver, SameReceivedFile, senderVars
<1>2. answer = "none"
    BY <1>1, DeliveryIsKnown DEF DeliveryKnown
<1>3. Outcome(receiver) = "pending" /\ Outcome(sender)' = Outcome(sender)
    BY <1>1 DEF Outcome
<1>4. CASE a = "y"
  <2>1. Outcome(receiver)' = "pending"
    BY <1>1, <1>4 DEF Outcome
  <2>2. D!Agree
    BY <1>1, <1>2, <1>3, <1>4, <2>1 DEF D!Agree
  <2> QED
    BY <2>2 DEF D!Next
<1>5. CASE a = "n"
  <2>1. Outcome(receiver)' = "failed"
    BY <1>1, <1>5 DEF Outcome
  <2>2. D!Decline
    BY <1>1, <1>2, <1>3, <1>5, <2>1 DEF D!Decline
  <2> QED
    BY <2>2 DEF D!Next
<1> QED
    BY <1>4, <1>5

\* What was there before something was appended is its beginning.
LEMMA BeginningKept ==
    ASSUME NEW s \in Seq(Int), NEW more \in Seq(Int)
    PROVE  SubSeq(s \o more, 1, Len(s)) = s
<1> DEFINE all == s \o more
<1>1. /\ all \in Seq(Int) /\ Len(all) = Len(s) + Len(more)
      /\ Len(s) \in Nat /\ Len(more) \in Nat
      /\ \A i \in 1 .. Len(s) : all[i] = s[i]
    BY ConcatProperties, LenProperties
<1> HIDE DEF all
<1>2. \A i \in 1 .. Len(s) : all[i] \in Int
    BY <1>1, ElementOfSeq
<1>3. /\ SubSeq(all, 1, Len(s)) \in Seq(Int)
      /\ Len(SubSeq(all, 1, Len(s))) = IF 1 <= Len(s) THEN Len(s) - 1 + 1 ELSE 0
      /\ \A i \in 1 .. Len(s) - 1 + 1 : SubSeq(all, 1, Len(s))[i] = all[1 + i - 1]
    BY <1>1, <1>2, SubSeqProperties
<1>4. Len(SubSeq(all, 1, Len(s))) = Len(s)
    BY <1>1, <1>3
<1>5. \A i \in 1 .. Len(s) : SubSeq(all, 1, Len(s))[i] = s[i]
    BY <1>1, <1>3
<1>6. SubSeq(all, 1, Len(s)) = s
    BY <1>3, <1>4, <1>5, SeqEqual
<1> QED
    BY <1>6 DEF all

\* A message arrives, which may be empty or hold more than is still to come.
LEMMA BytesArrive ==
    ASSUME TransferInv, ReceiverWrite
    PROVE  [D!Next]_(D!vars)
<1>1. /\ receiver = "receive" /\ down["R"] # <<>>
      /\ ~(total_transferred_bytes >= metadata.file_size)
      /\ UNCHANGED <<metadata, sender, total_bytes_read, receiver, answer>>
    BY DEF ReceiverWrite, TransferredAll, OnlyReceiver, senderVars
<1>2. PICK m \in Seq(Int) : m = Head(down["R"])
  <2>1. down["R"] \in Seq(Seq(Int))
    BY DEF TransferInv, Wires
  <2> QED
    BY <1>1, <2>1, ShortenedBy
<1>3. PICK size \in Nat, taken \in Nat, n \in Nat :
          /\ size = metadata.file_size /\ taken = total_transferred_bytes /\ n = Len(m)
          /\ taken < size
  <2>1. metadata.file_size \in Nat /\ total_transferred_bytes \in Nat /\ Len(m) \in Nat
    BY DeliveryIsKnown, LenProperties DEF DeliveryKnown
  <2> QED
    BY <1>1, <2>1
<1>4. PICK ws \in Nat : ws = WriteSize(taken, m) /\ ws <= n /\ taken + ws <= size
  <2>1. Lesser(size - taken, n) \in Nat /\ Lesser(size - taken, n) <= n
        /\ taken + Lesser(size - taken, n) <= size
    <3>1. size \in Nat /\ taken \in Nat /\ n \in Nat /\ taken < size
      BY <1>3
    <3> QED
      BY <3>1 DEF Lesser
  <2>2. WriteSize(taken, m) = Lesser(size - taken, n)
    BY <1>3, Zenon DEF WriteSize
  <2> QED
    BY <2>1, <2>2
<1>5. /\ total_transferred_bytes' = taken + ws
      /\ received_file' = IF "disk" \in happened THEN received_file
                           ELSE received_file \o SubSeq(m, 1, ws)
    BY <1>2, <1>3, <1>4 DEF ReceiverWrite
<1>6. answer = "y" /\ received_file \in Seq(Int)
    BY <1>1, DeliveryIsKnown DEF DeliveryKnown
<1>7. PICK more \in Seq(Int) : received_file' = received_file \o more /\ Len(more) <= ws
  <2>1. SubSeq(m, 1, ws) \in Seq(Int) /\ Len(SubSeq(m, 1, ws)) = ws
    <3>1. ASSUME NEW i \in 1 .. ws PROVE m[i] \in Int
      <4>1. i \in 1 .. Len(m)
        BY <1>3, <1>4
      <4> QED
        BY <4>1, ElementOfSeq
    <3>2. /\ SubSeq(m, 1, ws) \in Seq(Int)
          /\ Len(SubSeq(m, 1, ws)) = IF 1 <= ws THEN ws - 1 + 1 ELSE 0
      BY <3>1, SubSeqProperties
    <3> QED
      BY <3>2
  <2>2. CASE "disk" \in happened
    <3>1. <<>> \in Seq(Int) /\ Len(<<>>) <= ws /\ received_file \o <<>> = received_file
      BY <1>6, ConcatEmptySeq
    <3> QED
      BY <1>5, <2>2, <3>1
  <2>3. CASE "disk" \notin happened
    <3>1. Len(SubSeq(m, 1, ws)) <= ws
      <4>1. PICK k \in Nat : k = ws /\ k = Len(SubSeq(m, 1, ws))
        BY <2>1
      <4> QED
        BY <4>1
    <3>2. received_file' = received_file \o SubSeq(m, 1, ws)
      BY <1>5, <2>3
    <3> QED
      BY <2>1, <3>1, <3>2, Zenon
  <2> QED
    BY <2>2, <2>3
<1>8. CASE ws = 0
  <2>1. Len(more) = 0
    BY <1>7, <1>8, LenProperties
  <2>2. more = <<>>
    BY <2>1, EmptySeq
  <2>3. received_file' = received_file
    BY <1>6, <1>7, <2>2, ConcatEmptySeq
  <2>4. total_transferred_bytes' = total_transferred_bytes
    BY <1>3, <1>5, <1>8
  <2> QED
    BY <1>1, <2>3, <2>4, NobodyTold
<1>9. CASE ws > 0
  <2>1. /\ Len(received_file) \in Nat /\ Len(more) \in Nat
        /\ Len(received_file') = Len(received_file) + Len(more)
        /\ SubSeq(received_file', 1, Len(received_file)) = received_file
    <3>1. /\ Len(received_file \o more) = Len(received_file) + Len(more)
          /\ Len(received_file) \in Nat /\ Len(more) \in Nat
      BY <1>6, ConcatProperties, LenProperties
    <3>2. SubSeq(received_file \o more, 1, Len(received_file)) = received_file
      BY <1>6, BeginningKept
    <3> QED
      BY <1>7, <3>1, <3>2
  <2>2. Len(received_file') - Len(received_file) \in 0 .. (taken + ws) - taken
    BY <1>7, <2>1
  <2>3. taken + ws > taken /\ taken + ws <= size
    BY <1>4, <1>9
  <2>4. /\ Outcome(receiver) = "pending" /\ Outcome(receiver)' = Outcome(receiver)
        /\ Outcome(sender)' = Outcome(sender)
    BY <1>1 DEF Outcome
  <2>5. D!Arrive
    BY <1>1, <1>3, <1>5, <1>6, <2>1, <2>2, <2>3, <2>4 DEF D!Arrive
  <2> QED
    BY <2>5 DEF D!Next
<1> QED
    BY <1>8, <1>9

\* Every step of the three programs and their surroundings is one the promise
\* allows, or none.
LEMMA DeliveryStep ==
    ASSUME TransferInv, TransferInv', [Next]_vars
    PROVE  [D!Next]_(D!vars)
<1>0. DeliveryKnown /\ DeliveryKnown'
  <2>1. DeliveryKnown'
    BY DeliveryIsKnown, PTL
  <2> QED
    BY <2>1, DeliveryIsKnown
<1>1. CASE SendFSEntry
  <2>1. CASE SenderSendChunk \/ SenderWriteError
    BY <2>1, BytesLeave
  <2>2. CASE \/ SenderReceiveACK("await_ack", "open") \/ SenderReceiveACK("await_final", "sent")
             \/ SenderOpenFile \/ SenderOpenFails \/ SenderLoopEnds \/ SenderReadError
    <3>1. /\ sender \notin {"sent", "failed", "received"} /\ sender' # "received"
          /\ UNCHANGED <<metadata, total_bytes_read, receiver, answer,
                         total_transferred_bytes, received_file>>
      BY <2>2 DEF SenderReceiveACK, SenderOpenFile, SenderOpenFails, SenderLoopEnds,
                  SenderReadError, OnlySender, receiverVars
    <3> QED
      BY <1>0, <3>1, SenderTold
  <2> QED
    BY <1>1, <2>1, <2>2 DEF SendFSEntry
<1>2. CASE ReceiveFileInServer \/ ForeignSend \/ FileChanges \/ DiskFills \/ PathAppears
           \/ UNCHANGED vars
  <2>1. UNCHANGED <<metadata, total_bytes_read, sender, receiver, answer,
                    total_transferred_bytes, received_file>>
    <3>1. CASE ReceiveFileInServer
      BY <3>1 DEF ReceiveFileInServer, ServerSendMetadata, ServerReceiveACK, ServerSendACK,
             ServerSend, ServerLoopEnds, ServerReceiveData, ServerRefuseOversize,
             ServerForward, ServerReadError, ServerDisconnect, OnlyServer,
             senderVars, receiverVars
    <3>2. CASE ForeignSend \/ FileChanges \/ DiskFills \/ PathAppears \/ UNCHANGED vars
      BY <3>2 DEF ForeignSend, FileChanges, DiskFills, PathAppears, vars, OnlySender,
             SameReceivedFile, senderVars, receiverVars
    <3> QED
      BY <1>2, <3>1, <3>2
  <2> QED
    BY <2>1, NobodyTold
<1>3. CASE ReceiveFile
  <2>1. CASE ReceiverWrite
    BY <2>1, BytesArrive
  <2>2. CASE \E a \in {"y", "n"} : ReceiverConfirm(a)
    BY <2>2, UserAnswers
  <2>3. CASE \/ ReceiverGetResponse \/ ReceiverCheckPath \/ ReceiverOpen
             \/ ReceiverOpenFails \/ ReceiverSendACK
             \/ ReceiverFlush \/ ReceiverValidateFileHash \/ ReceiverHandleCompressed
             \/ ReceiverReadError \/ ReceiverWriteError
    <3>1. /\ receiver \notin {"received", "failed", "sent"} /\ receiver' # "sent"
          /\ UNCHANGED <<metadata, total_bytes_read, sender, answer,
                         total_transferred_bytes, received_file>>
      BY <2>3 DEF ReceiverGetResponse, ReceiverCheckPath, ReceiverOpen,
             ReceiverOpenFails, ReceiverSendACK,
             ReceiverFlush, ReceiverValidateFileHash, ReceiverHandleCompressed,
             ReceiverReadError, ReceiverWriteError, OnlyReceiver, SameReceivedFile,
             senderVars
    <3> QED
      BY <1>0, <3>1, ReceiverTold
  <2> QED
    BY <1>3, <2>1, <2>2, <2>3 DEF ReceiveFile
<1>4. CASE SenderCrash
  <2>1. /\ sender \notin {"sent", "failed", "received"} /\ sender' # "received"
        /\ UNCHANGED <<metadata, total_bytes_read, receiver, answer,
                       total_transferred_bytes, received_file>>
    BY <1>4 DEF SenderCrash, SenderEnded, OnlySender, receiverVars, TransferInv, TypeOK
  <2> QED
    BY <1>0, <2>1, SenderTold
<1>5. CASE ReceiverCrash
  <2>1. /\ receiver \notin {"received", "failed", "sent"} /\ receiver' # "sent"
        /\ UNCHANGED <<metadata, total_bytes_read, sender, answer,
                       total_transferred_bytes, received_file>>
    BY <1>5 DEF ReceiverCrash, ReceiverEnded, SameReceivedFile, senderVars, TransferInv, TypeOK
  <2> QED
    BY <1>0, <2>1, ReceiverTold
<1> QED
    BY <1>1, <1>2, <1>3, <1>4, <1>5 DEF Next, Terminated

\* A transfer begins with nothing agreed, moved or told.
LEMMA DeliveryInit == Init => D!Init
<1> SUFFICES ASSUME Init PROVE D!Init
    OBVIOUS
<1>1. metadata.file_size \in Nat
    BY TransferInit, DeliveryIsKnown DEF DeliveryKnown
<1>2. Outcome(sender) = "pending" /\ Outcome(receiver) = "pending"
    BY DEF Init, Outcome
<1> QED
    BY <1>1, <1>2 DEF Init, D!Init

-----------------------------------------------------------------------------
(* The theorems. *)

\* Who has heard what, who has counted what and what is on its way agree, for
\* a file and a buffer of any size, and for any faults.
THEOREM TransferInvariance == SafetySpec => []TransferInv
    BY TransferInit, TransferStep, PTL DEF SafetySpec

\* No connection holds more than a connection can, no counter passes what was
\* announced.
THEOREM TransferTyped == SafetySpec => []TypeOK
<1>1. TransferInv => TypeOK
    BY DEF TransferInv
<1> QED
    BY <1>1, TransferInvariance, PTL

\* sendFSEntry reports success only when the receiver, who agreed, has taken
\* every announced byte.
THEOREM SentIsTaken == SafetySpec => []SentMeansTaken
<1>1. TransferInv => SentMeansTaken
    BY DEF TransferInv, SenderAcks, ReceiverAcks, TakenAll, AnswerKnown,
           SentMeansTaken
<1> QED
    BY <1>1, TransferInvariance, PTL

\* receiveFile ends well only with the announced file under the announced
\* name.
THEOREM ReceivedFileIsAnnounced == SafetySpec => []ReceivedIsAnnounced
<1>1. TransferInv => ReceivedIsAnnounced
    BY DEF TransferInv, PathChecked, Content, ReceivedIsAnnounced
<1> QED
    BY <1>1, TransferInvariance, PTL

\* Until it fails, the relay has passed on exactly what it has counted, and
\* no more than was declared, whatever is sent to it.
THEOREM BytesControlled == SafetySpec => []ServerControlsBytes
<1>1. TransferInv => ServerControlsBytes
    BY DEF TransferInv, TypeOK, RelayedInOrder, ServerControlsBytes
<1> QED
    BY <1>1, TransferInvariance, PTL

\* What arrives of an intact transfer is the beginning of the file, byte by
\* byte.
THEOREM RelayKeepsOrder == SafetySpec => []StreamInOrder
<1>1. TransferInv => StreamInOrder
  <2> SUFFICES ASSUME TransferInv, Honest
               PROVE  /\ received_file = SubSeq(file, 1, Len(received_file))
                      /\ Len(received_file) <= total_received_bytes
                      /\ total_received_bytes <= total_bytes_read
    BY DEF StreamInOrder, Honest
  <2>1. /\ received_file = SubSeq(file, 1, total_transferred_bytes)
        /\ total_transferred_bytes <= total_received_bytes
        /\ total_received_bytes + Len(data) <= total_bytes_read
    BY DEF TransferInv, RelayedInOrder, SentInOrder
  <2>2. /\ total_transferred_bytes \in Nat /\ total_received_bytes \in Nat
        /\ Len(data) \in Nat /\ total_bytes_read \in Nat
        /\ MAX_FILE_SIZE \in Nat /\ file \in Seq(0 .. MAX_FILE_SIZE)
    BY TransferAssumption DEF TransferInv, TypeOK
  <2>3. total_transferred_bytes <= Len(file)
    BY <2>1, <2>2, FileIntact
  <2>4. Len(SubSeq(file, 0 + 1, total_transferred_bytes)) = total_transferred_bytes - 0
    BY <2>2, <2>3, BytesOfFile
  <2>5. Len(received_file) = total_transferred_bytes
    BY <2>1, <2>2, <2>4
  <2> QED
    BY <2>1, <2>2, <2>5
<1> QED
    BY <1>1, TransferInvariance, PTL

\* The sender sends nothing of its file before the receiving user agreed.
THEOREM NothingUnconfirmed == SafetySpec => []NothingSentUnconfirmed
<1>1. TransferInv => NothingSentUnconfirmed
    BY DEF TransferInv, AnswerKnown, NothingSentUnconfirmed
<1> QED
    BY <1>1, TransferInvariance, PTL

\* What was there under the announced name at the receiver's last look at its
\* current directory is never written to, whatever else happens: a file looks
\* in receiveFileImpl, an archive in assertJsonProperties. It says nothing of
\* what appears after that look, which the open or the unpacking overwrites.
THEOREM OlderPathSafe == SafetySpec => OlderPathKept
<1>1. TransferInv /\ [Next]_vars =>
          [path = "foreign" => path' = "foreign"]_vars
  <2> SUFFICES ASSUME TransferInv, Next, path = "foreign"
               PROVE  path' = "foreign"
    OBVIOUS
  <2>1. CASE ReceiverOpen
    BY <2>1 DEF ReceiverOpen, TransferInv, PathChecked, WillLookAtPath
  <2>2. CASE ReceiverHandleCompressed
    BY <2>2 DEF ReceiverHandleCompressed, TransferInv, PathChecked, WillLookAtPath
  <2>3. CASE PathAppears
    BY <2>3 DEF PathAppears
  <2>4. CASE SendFSEntry \/ FileChanges \/ ForeignSend \/ SenderCrash
    BY <2>4 DEF SendFSEntry, SenderReceiveACK, SenderReadError, SenderOpenFile,
                SenderOpenFails, SenderSendChunk, SenderWriteError, SenderLoopEnds,
                FileChanges, ForeignSend, SenderCrash, OnlySender, receiverVars
  <2>5. CASE ReceiveFileInServer
    BY <2>5 DEF ReceiveFileInServer, ServerSendMetadata, ServerReceiveACK,
                ServerSendACK, ServerLoopEnds, ServerReceiveData,
                ServerRefuseOversize, ServerForward, ServerReadError,
                ServerDisconnect, ServerSend, OnlyServer, receiverVars
  <2>6. CASE ReceiveFile /\ ~ReceiverOpen /\ ~ReceiverHandleCompressed
    BY <2>6 DEF ReceiveFile, ReceiverGetResponse, ReceiverConfirm,
                ReceiverCheckPath, ReceiverOpenFails, ReceiverWrite, ReceiverSendACK,
                ReceiverFlush,
                ReceiverValidateFileHash, ReceiverReadError, ReceiverWriteError
  <2>7. CASE ReceiverCrash \/ DiskFills \/ Terminated
    BY <2>7 DEF ReceiverCrash, DiskFills, Terminated, vars, receiverVars
  <2> QED
    BY <2>1, <2>2, <2>3, <2>4, <2>5, <2>6, <2>7 DEF Next
<1> QED
    BY <1>1, TransferInvariance, TransferStep, PTL
    DEF SafetySpec, OlderPathKept

\* sendFSEntry, the server's receiveFile and the receiver's receiveFile together
\* keep what a transfer promises its two users: no byte leaves before the
\* receiving user agreed, never more arrive than were announced, who is told of
\* success is told the truth, and what is told is final. This holds for files,
\* buffers and channels of any size and whichever faults happen.
THEOREM DeliveryImplemented == SafetySpec => ImplementsDelivery
<1>1. TransferInv /\ TransferInv' /\ [Next]_vars => [D!Next]_(D!vars)
    BY DeliveryStep
<1> QED
    BY <1>1, DeliveryInit, TransferInvariance, PTL
    DEF SafetySpec, ImplementsDelivery, D!Spec
=============================================================================
