--------------------------- MODULE DropFileServer ---------------------------
(***************************************************************************)
(* The server process: DropFileServer's accept loop, the server-side       *)
(* sessions and the sessions manager they share. Everything except the     *)
(* manager's controller runs on the one thread inside io_context.run():    *)
(* accepting, the TLS handshake, the first read of every session, and for  *)
(* a receiver the whole transfer, which blocks the thread until it ends.   *)
(*                                                                         *)
(* The relay of one file is Transfer.tla. Here it is two places where the  *)
(* thread blocks without a timeout: on the sender for the next piece, and  *)
(* on the receiver, to take a piece or to give its final answer. What a    *)
(* peer wrote before it left arrives before it leaves.                     *)
(***************************************************************************)
EXTENDS SessionsManager, Sequences

CONSTANTS REFUSAL_DELAY,  \* seconds slept before an unknown code is refused
          PROMPT          \* TRUE: the io thread's own steps take no time

ASSUME ServerAssumption ==
    /\ REFUSAL_DELAY \in Nat
    /\ PROMPT \in BOOLEAN
    /\ Sessions \cap Receivers = {}
    /\ None \notin Receivers

\* A connection is a sender's or a receiver's by its first message, if that is
\* valid; anybody may send something else.
Clients == Sessions \cup Receivers

VARIABLES client,     \* the peer: not connected yet, connected, gone
          conn,       \* the server's end of its connection
          inbox,      \* how much of its first message has arrived
          wanted,     \* the code a receiver entered
          meant,      \* the sender who had been told that code then
          reply,      \* a receiver's answer to the metadata
          heard,      \* the messages the server sent to it
          accepting,  \* is an async_accept pending
          io          \* what the io thread is doing, and for whom

peerVars == <<client, inbox, wanted, meant, reply>>
serverVars == <<client, conn, inbox, wanted, meant, reply, heard, accepting, io>>
vars == <<managerVars, serverVars>>

Idle == [at |-> "idle", who |-> None, left |-> 0]
Busy(at, x) == [at |-> at, who |-> x, left |-> 0]

ServerTypeOK ==
    /\ client \in [Clients -> {"off", "connected", "gone"}]
    /\ conn \in [Clients -> {"none", "backlog", "handshake", "header", "body",
                             "owned", "closed"}]
    /\ inbox \in [Clients -> {"empty", "oversize", "header", "message", "invalid"}]
    /\ wanted \in [Receivers -> Codes \cup {None}]
    /\ meant \in [Receivers -> Sessions \cup {None}]
    /\ reply \in [Receivers -> {"none", "ack", "abort"}]
    /\ heard \in [Clients -> Seq({"code", "metadata", "ack", "error"})]
    /\ accepting \in BOOLEAN
    /\ io.at \in {"idle", "handshake", "register", "send_code", "sleep",
                  "metadata", "confirm", "ack_sender", "relay", "forward"}
    /\ io.who \in Clients \cup {None}
    /\ io.left \in 0 .. REFUSAL_DELAY
    /\ (io.at = "idle") <=> (io.who = None)

Init ==
    /\ ManagerInit
    /\ client = [x \in Clients |-> "off"]
    /\ conn = [x \in Clients |-> "none"]
    /\ inbox = [x \in Clients |-> "empty"]
    /\ wanted = [r \in Receivers |-> None]
    /\ meant = [r \in Receivers |-> None]
    /\ reply = [r \in Receivers |-> "none"]
    /\ heard = [x \in Clients |-> <<>>]
    /\ accepting = TRUE
    /\ io = Idle

-----------------------------------------------------------------------------
(* The peers. *)

Alive(x) == client[x] = "connected"

\* A message to a peer that is gone is lost.
Tell(x, m) == [heard EXCEPT ![x] = IF Alive(x) THEN Append(@, m) ELSE @]

Told(s) == "code" \in {heard[s][i] : i \in DOMAIN heard[s]}

Connect(x) ==
    /\ client[x] = "off"
    /\ client' = [client EXCEPT ![x] = "connected"]
    /\ conn' = [conn EXCEPT ![x] = "backlog"]
    /\ UNCHANGED <<managerVars, inbox, wanted, meant, reply, heard, accepting, io>>

\* The first message arrives, header first.
SendHeader(x) ==
    /\ Alive(x)
    /\ conn[x] = "header"
    /\ inbox[x] = "empty"
    /\ \E h \in {"header", "oversize"} : inbox' = [inbox EXCEPT ![x] = h]
    /\ UNCHANGED <<managerVars, client, conn, wanted, meant, reply, heard,
                   accepting, io>>

\* The rest of it arrives: a receiver has entered some code, and that may be
\* the code a sender was told who is still within its timeout.
SendBody(x) ==
    /\ Alive(x)
    /\ inbox[x] = "header"
    /\ \E m \in {"message", "invalid"} : inbox' = [inbox EXCEPT ![x] = m]
    /\ IF x \in Receivers /\ inbox'[x] = "message"
       THEN \E c \in Codes :
                /\ wanted' = [wanted EXCEPT ![x] = c]
                /\ meant' = [meant EXCEPT ![x] =
                       IF /\ Contains(c)
                          /\ ~TimedOut(c)
                          /\ Told(senders_sessions[c].client_session)
                       THEN senders_sessions[c].client_session ELSE None]
       ELSE UNCHANGED <<wanted, meant>>
    /\ UNCHANGED <<managerVars, client, conn, reply, heard, accepting, io>>

\* The receiving user, asked to confirm, does or does not.
UserReplies(r) ==
    /\ Alive(r)
    /\ heard[r] = <<"metadata">>
    /\ reply[r] = "none"
    /\ \E a \in {"ack", "abort"} : reply' = [reply EXCEPT ![r] = a]
    /\ UNCHANGED <<managerVars, client, conn, inbox, wanted, meant, heard,
                   accepting, io>>

Leave(x) ==
    /\ Alive(x)
    /\ conn[x] # "closed"
    /\ client' = [client EXCEPT ![x] = "gone"]
    /\ UNCHANGED <<managerVars, conn, inbox, wanted, meant, reply, heard,
                   accepting, io>>

-----------------------------------------------------------------------------
(* The accept loop, and ServerSideClientSession::start. *)

Accept(x) ==
    /\ io = Idle
    /\ accepting
    /\ conn[x] = "backlog"
    /\ accepting' = FALSE
    /\ conn' = [conn EXCEPT ![x] = "handshake"]
    /\ io' = Busy("handshake", x)
    /\ UNCHANGED <<managerVars, peerVars, heard>>

\* The blocking handshake succeeds and the first read is scheduled, or it
\* throws and the session is dropped. Either way the next accept is armed.
HandshakeDone(x) ==
    /\ io = Busy("handshake", x)
    /\ Alive(x)
    /\ conn' = [conn EXCEPT ![x] = "header"]
    /\ accepting' = TRUE
    /\ io' = Idle
    /\ UNCHANGED <<managerVars, peerVars, heard>>

\* Mistake: the exception leaves the handler before the accept is armed again.
HandshakeThrowsUnarmed(x) ==
    /\ io = Busy("handshake", x)
    /\ ~Alive(x)
    /\ conn' = [conn EXCEPT ![x] = "closed"]
    /\ io' = Idle
    /\ UNCHANGED <<managerVars, peerVars, heard, accepting>>

HandshakeThrows(x) ==
    /\ io = Busy("handshake", x)
    /\ ~Alive(x)
    /\ conn' = [conn EXCEPT ![x] = "closed"]
    /\ accepting' = TRUE
    /\ io' = Idle
    /\ UNCHANGED <<managerVars, peerVars, heard>>

-----------------------------------------------------------------------------
(* The asynchronous first read; its handlers run when the thread is free. *)

\* What has arrived is taken off the socket.
Taken(x) ==
    /\ inbox' = [inbox EXCEPT ![x] = "empty"]
    /\ UNCHANGED <<client, wanted, meant, reply>>

ReadHeader(x) ==
    /\ io = Idle
    /\ conn[x] = "header"
    /\ \/ /\ inbox[x] \in {"header", "message", "invalid"}
          /\ conn' = [conn EXCEPT ![x] = "body"]
          /\ UNCHANGED <<peerVars, heard>>
       \/ /\ inbox[x] = "oversize"
          /\ conn' = [conn EXCEPT ![x] = "closed"]
          /\ heard' = Tell(x, "error")
          /\ Taken(x)
    /\ UNCHANGED <<managerVars, accepting, io>>

\* End of stream before the message is complete: the session is dropped.
ReadError(x) ==
    /\ io = Idle
    /\ ~Alive(x)
    /\ \/ conn[x] = "header" /\ inbox[x] = "empty"
       \/ conn[x] = "body" /\ inbox[x] = "header"
    /\ conn' = [conn EXCEPT ![x] = "closed"]
    /\ Taken(x)
    /\ UNCHANGED <<managerVars, heard, accepting, io>>

MessageRead(x, m) ==
    /\ io = Idle
    /\ conn[x] = "body"
    /\ inbox[x] = m
    /\ Taken(x)

\* handleFirstRead of a message that InitSessionMessage::create refuses.
HandleInvalid(x) ==
    /\ MessageRead(x, "invalid")
    /\ conn' = [conn EXCEPT ![x] = "closed"]
    /\ heard' = Tell(x, "error")
    /\ UNCHANGED <<managerVars, accepting, io>>

\* handleFirstRead of a sender: registerSession calls registerSender, whose
\* loop spins on this thread until a free code is drawn.
HandleSend(s) ==
    /\ MessageRead(s, "message")
    /\ CallRegisterSender(s)
    /\ conn' = [conn EXCEPT ![s] = "owned"]
    /\ io' = Busy("register", s)
    /\ UNCHANGED <<heard, accepting>>

DrawCode(s, c) ==
    /\ io = Busy("register", s)
    /\ GenerateSessionID(s, c)
    /\ UNCHANGED serverVars

DrawAgain(s) ==
    /\ io = Busy("register", s)
    /\ RetryTakenCode(s)
    /\ UNCHANGED serverVars

\* Mistake: the handler returns to the queue and leaves the code to a task that
\* has not run yet.
RegisterAndReturn(s) ==
    /\ io = Busy("register", s)
    /\ InsertSender(s)
    /\ io' = Idle
    /\ UNCHANGED <<peerVars, conn, heard, accepting>>

Register(s) ==
    /\ io = Busy("register", s)
    /\ InsertSender(s)
    /\ io' = Busy("send_code", s)
    /\ UNCHANGED <<peerVars, conn, heard, accepting>>

\* The code is sent and the handler returns. From here on only the map owns
\* the session; if the controller has removed it already, this closes it.
SendCode(s) ==
    /\ io = Busy("send_code", s)
    /\ heard' = Tell(s, "code")
    /\ conn' = [conn EXCEPT ![s] = IF Waiting(s) THEN @ ELSE "closed"]
    /\ io' = Idle
    /\ UNCHANGED <<managerVars, peerVars, accepting>>

-----------------------------------------------------------------------------
(* handleFirstRead of a receiver, and ServerSideClientSession::receiveFile. *)

HandleReceive(r) ==
    /\ MessageRead(r, "message")
    /\ GetSenderWithMetadata(r, wanted[r])
    /\ conn' = [conn EXCEPT ![r] = "owned"]
    /\ io' = Busy("metadata", r)
    /\ UNCHANGED <<heard, accepting>>

\* Mistake: the receiver is refused although the code is known.
HandleKnownCodeAsUnknown(r) ==
    /\ MessageRead(r, "message")
    /\ claim[r] = None
    /\ claim' = [claim EXCEPT ![r] = Unknown]
    /\ conn' = [conn EXCEPT ![r] = "owned"]
    /\ io' = [at |-> "sleep", who |-> r, left |-> REFUSAL_DELAY]
    /\ UNCHANGED <<senders_sessions, caller, session_id, code, asked, terminated,
                   controller_sleep, clockVars, heard, accepting>>

\* An unknown code: the thread sleeps before it disconnects the receiver.
HandleUnknownCode(r) ==
    /\ MessageRead(r, "message")
    /\ ThrowUnknownSessionCode(r, wanted[r])
    /\ conn' = [conn EXCEPT ![r] = "owned"]
    /\ io' = [at |-> "sleep", who |-> r, left |-> REFUSAL_DELAY]
    /\ UNCHANGED <<heard, accepting>>

\* Mistake: the thread is left pointing at the session it has just closed.
RefuseCodeStale(r) ==
    /\ io = Busy("sleep", r)
    /\ heard' = Tell(r, "error")
    /\ conn' = [conn EXCEPT ![r] = "closed"]
    /\ io' = [io EXCEPT !.at = "idle"]
    /\ UNCHANGED <<managerVars, peerVars, accepting>>

RefuseCode(r) ==
    /\ io = Busy("sleep", r)
    /\ heard' = Tell(r, "error")
    /\ conn' = [conn EXCEPT ![r] = "closed"]
    /\ io' = Idle
    /\ UNCHANGED <<managerVars, peerVars, accepting>>

\* The handler of r ends: its session and the sender's lose their last owner.
EndTransfer(r) ==
    /\ conn' = [conn EXCEPT ![r] = "closed", ![claim[r]] = "closed"]
    /\ io' = Idle
    /\ UNCHANGED <<managerVars, peerVars, accepting>>

Phase(r, at, then) ==
    /\ io = Busy(at, r)
    /\ io' = Busy(then, r)
    /\ UNCHANGED <<managerVars, peerVars, conn, accepting>>

SendMetadata(r) ==
    /\ Phase(r, "metadata", "confirm")
    /\ heard' = Tell(r, "metadata")

Confirmed(r) ==
    /\ reply[r] = "ack"
    /\ Phase(r, "confirm", "ack_sender")
    /\ UNCHANGED heard

\* Mistake: an answer that is not the acknowledgement is not looked at.
AbortedIgnored(r) ==
    /\ io = Busy("confirm", r)
    /\ reply[r] = "abort"
    /\ UNCHANGED vars

\* receiveACK reads "abort": a SocketException, answered by safeDisconnect.
Aborted(r) ==
    /\ io = Busy("confirm", r)
    /\ reply[r] = "abort"
    /\ heard' = Tell(r, "error")
    /\ EndTransfer(r)

\* An empty file has no pieces: only the receiver's answer is missing.
AckSender(r) ==
    /\ \E then \in {"relay", "forward"} : Phase(r, "ack_sender", then)
    /\ heard' = Tell(claim[r], "ack")

\* sender->receive() returns, because the sender has sent a piece.
PieceReceived(r) ==
    /\ Phase(r, "relay", "forward")
    /\ Alive(claim[r])
    /\ UNCHANGED heard

\* send() returns, because the receiver takes it, and more is expected.
PieceSent(r) ==
    /\ Phase(r, "forward", "relay")
    /\ Alive(r)
    /\ UNCHANGED heard

\* The receiver has taken everything and acknowledges it.
RelaySucceeds(r) ==
    /\ io = Busy("forward", r)
    /\ Alive(r)
    /\ heard' = Tell(claim[r], "ack")
    /\ EndTransfer(r)

\* The sender sends a message that is too long, and is told so, or the receiver's
\* final answer is not the acknowledgement: a SocketException again.
RelayRefused(r) ==
    /\ \E told \in {{r}, {r, claim[r]}} :
           /\ \/ io = Busy("relay", r) /\ Alive(claim[r]) /\ told = {r, claim[r]}
              \/ io = Busy("forward", r) /\ Alive(r) /\ told = {r}
           /\ heard' = [x \in Clients |-> IF x \in told THEN Tell(x, "error")[x]
                                         ELSE heard[x]]
    /\ EndTransfer(r)

\* A boost error in receiveFile, since the peer the thread turns to is gone:
\* nobody is told anything. A receiver that leaves while the thread waits for
\* the sender's next piece is not noticed before that piece has come.
TransferThrows(r) ==
    /\ \/ io \in {Busy("metadata", r), Busy("confirm", r)} /\ ~Alive(r)
       \/ io = Busy("ack_sender", r) /\ ~Alive(claim[r])
       \/ io = Busy("relay", r) /\ ~Alive(claim[r])
       \/ io = Busy("forward", r) /\ ~Alive(r)
    /\ UNCHANGED heard
    /\ EndTransfer(r)

-----------------------------------------------------------------------------
(* The controller thread, and time. *)

\* Mistake: the map holds the session weakly, and removing the entry does not
\* close it.
SweepKeepsSession ==
    /\ TerminateTimeoutClients
    /\ UNCHANGED serverVars

\* A sender that is removed loses its last owner, unless its handler is still
\* running on the io thread.
Sweep ==
    /\ TerminateTimeoutClients
    /\ conn' = [x \in Clients |->
                   IF x \in terminated' \ terminated /\ io.who # x
                   THEN "closed" ELSE conn[x]]
    /\ UNCHANGED <<peerVars, heard, accepting, io>>

\* Does the io thread have something to do that depends on nobody else?
IoRunnable ==
    \/ io.at \in {"send_code", "metadata", "ack_sender"}
    \/ io.at = "register" /\ DOMAIN senders_sessions # Codes
    \/ io.at = "sleep" /\ io.left = 0
    \/ io.at = "confirm" /\ reply[io.who] # "none"
    \/ io.at = "idle" /\ \E x \in Clients :
           \/ conn[x] = "backlog"
           \/ conn[x] = "header" /\ inbox[x] # "empty"
           \/ conn[x] = "body" /\ inbox[x] # "header"

SecondPasses ==
    /\ PROMPT => ~IoRunnable
    /\ Tick
    /\ io' = [io EXCEPT !.left = IF @ > 0 THEN @ - 1 ELSE 0]
    /\ UNCHANGED <<peerVars, conn, heard, accepting>>

-----------------------------------------------------------------------------
\* The completions the io thread runs from its queue.
FirstRead(x) ==
    \/ ReadHeader(x)
    \/ ReadError(x)
    \/ HandleInvalid(x)
    \/ x \in Sessions /\ HandleSend(x)
    \/ x \in Receivers /\ (HandleReceive(x) \/ HandleUnknownCode(x))

RegisterSession(s) ==
    \/ \E c \in Codes : DrawCode(s, c)
    \/ DrawAgain(s)
    \/ Register(s)
    \/ SendCode(s)

RelayFile(r) ==
    \/ RefuseCode(r)
    \/ SendMetadata(r)
    \/ Confirmed(r)
    \/ Aborted(r)
    \/ AckSender(r)
    \/ TransferThrows(r)

\* The returns of blocking calls that need a peer to do something.
PeerMoves(r) ==
    \/ PieceReceived(r)
    \/ PieceSent(r)
    \/ RelaySucceeds(r)
    \/ RelayRefused(r)

IoThread ==
    \/ \E x \in Clients : Accept(x) \/ HandshakeThrows(x) \/ FirstRead(x)
    \/ \E s \in Sessions : RegisterSession(s)
    \/ \E r \in Receivers : RelayFile(r)

Peers ==
    \/ \E x \in Clients :
           Connect(x) \/ HandshakeDone(x) \/ SendHeader(x) \/ SendBody(x) \/ Leave(x)
    \/ \E r \in Receivers : UserReplies(r) \/ PeerMoves(r)

Next == IoThread \/ Peers \/ Sweep \/ SecondPasses

\* The io thread, the controller and the clock keep going; draws of a code are
\* random. No peer has to do anything: it may be silent for ever in its
\* handshake, its first message, its answer and every piece of the file.
Fairness ==
    /\ WF_vars(IoThread)
    /\ \A x \in Clients : WF_vars(Accept(x) \/ FirstRead(x))
    /\ \A s \in Sessions, c \in Codes : SF_vars(DrawCode(s, c))
    /\ WF_vars(Sweep)
    /\ WF_vars(SecondPasses)

SafetySpec == Init /\ [][Next]_vars

Spec == SafetySpec /\ Fairness

-----------------------------------------------------------------------------
(* Properties. *)

\* Each peer hears what its client is waiting for, in that order: a sender its
\* code (sendFSEntryMetadata), then that somebody confirmed, then that the file
\* arrived (sendFSEntry); a receiver the metadata; either of them an error
\* instead of what would be next. Nobody hears of a transfer before it was told its code.
HeardInOrder ==
    /\ \A s \in Sessions :
           heard[s] \in {<<>>, <<"error">>, <<"code">>, <<"code", "ack">>,
                         <<"code", "ack", "ack">>, <<"code", "ack", "error">>}
    /\ \A r \in Receivers :
           heard[r] \in {<<>>, <<"error">>, <<"metadata">>,
                         <<"metadata", "error">>}

\* A session in the map has an open connection, and the connection of a sender
\* is closed when it is in the map no more, unless the io thread is still
\* registering it or relaying its file.
OwnedByMap ==
    \A s \in Sessions :
        /\ Waiting(s) => conn[s] = "owned"
        /\ conn[s] = "owned" =>
               \/ Waiting(s)
               \/ io.who = s
               \/ io.who \in Receivers /\ claim[io.who] = s

\* A receiver that entered the code of a waiting sender is refused only when
\* that sender was given to somebody else or has been terminated since.
RefusedOnlyWhenGone ==
    \A r \in Receivers :
        claim[r] = Unknown /\ meant[r] # None =>
            Claimed(meant[r]) \/ meant[r] \in terminated

\* A receiver is given the sender under the code it entered; when that is not
\* the sender it meant, for the code was freed and drawn again while its message
\* was on the way, the sender it meant was given to somebody else or terminated.
EnteredCodeMeets ==
    \A r \in Receivers :
        claim[r] \in Sessions =>
            /\ code[claim[r]] = wanted[r]
            /\ meant[r] \notin {None, claim[r]} =>
                   Claimed(meant[r]) \/ meant[r] \in terminated

\* The peers that have the io thread wait for them, without a timeout.
WaitsFor(x) ==
    \/ io.who = x /\ io.at \in {"handshake", "forward"}
    \/ io.who = x /\ io.at = "confirm" /\ reply[x] = "none"
    \/ io.at = "relay" /\ claim[io.who] = x

HeldUp == \E x \in Clients : Alive(x) /\ WaitsFor(x)

\* A peer that is connected and owes the rest of its first message.
Owes(x) ==
    /\ Alive(x)
    /\ \/ conn[x] = "header" /\ inbox[x] = "empty"
       \/ conn[x] = "body" /\ inbox[x] = "header"

\* The io thread gets back to its queue again and again, past handshakes, full
\* code spaces, refusals, transfers and peers that leave at any point of them;
\* the one thing that keeps it for ever is a connected peer it waits for.
IoReturns == []<>(io = Idle) \/ <>[]HeldUp

\* Unless the io thread is kept for ever, the server accepts every connection
\* and lets go of it in the end, whatever the others do; it keeps only those
\* that owe their first message for ever, and they hold up nobody else.
ConnectionsReleased ==
    \/ <>[]HeldUp
    \/ \A x \in Clients :
           [](client[x] = "connected" => <>(conn[x] = "closed" \/ []Owes(x)))

\* ServerArgParser: the timeout is the time a sender is kept "before returned
\* code is entered": entered in time, a code is honoured.
EnteredCodeIsHonoured ==
    \A r \in Receivers :
        claim[r] = Unknown /\ meant[r] # None => Claimed(meant[r])
=============================================================================
