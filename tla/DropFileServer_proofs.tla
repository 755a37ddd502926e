------------------------ MODULE DropFileServer_proofs ------------------------
(***************************************************************************)
(* Proofs about DropFileServer, for any number of senders and receivers,   *)
(* any codes and any times: nobody hears anything its client does not      *)
(* expect; connections are owned as they should be; a code meets its       *)
(* sender, and is refused, or meets another, only when its sender is gone; *)
(* and what is proved of the manager holds while this server uses it.      *)
(***************************************************************************)
EXTENDS DropFileServer, SessionsManager_proofs

-----------------------------------------------------------------------------
(* The inductive invariant, in parts. *)

IoPlaces == {"idle", "handshake", "register", "send_code", "sleep",
             "metadata", "confirm", "ack_sender", "relay", "forward"}

\* The phases of receiveFile: the io thread holds a receiver and its sender.
Relaying == {"metadata", "confirm", "ack_sender", "relay", "forward"}

\* Those after the sender was told that somebody confirmed.
Passing == {"relay", "forward"}

\* A connection whose first message has not been handled.
Early == {"none", "backlog", "handshake", "header", "body"}

PeersTyped ==
    /\ client \in [Clients -> {"off", "connected", "gone"}]
    /\ conn \in [Clients -> Early \cup {"owned", "closed"}]
    /\ inbox \in [Clients -> {"empty", "oversize", "header", "message",
                              "invalid"}]
    /\ wanted \in [Receivers -> Codes \cup {None}]
    /\ meant \in [Receivers -> Sessions \cup {None}]
    /\ reply \in [Receivers -> {"none", "ack", "abort"}]
    /\ heard \in [Clients -> Seq({"code", "metadata", "ack", "error"})]
    /\ accepting \in BOOLEAN
    /\ io \in [at : IoPlaces, who : Clients \cup {None},
               left : 0 .. REFUSAL_DELAY]

\* A code has been entered when the message that asks for it has arrived.
CodeEntered == \A r \in Receivers : inbox[r] = "message" => wanted[r] \in Codes

\* Only a connection that is being read has unread input.
Unread == \A x \in Clients : inbox[x] # "empty" => conn[x] \in {"header", "body"}

\* Before its first message was handled a session has called nobody and was told
\* nothing; before it connected there is no session.
EarlyIsNew ==
    /\ \A x \in Clients : client[x] = "off" => conn[x] = "none"
    /\ \A x \in Clients : conn[x] \in Early => heard[x] = <<>>
    /\ \A s \in Sessions : conn[s] \in Early => caller[s] = "out"
    /\ \A r \in Receivers : conn[r] \in Early => claim[r] = None

\* For whom the io thread works, and how far that session is.
IoWorksFor ==
    LET x == io.who
    IN  /\ io.at = "idle" <=> x = None
        /\ io.at = "handshake" => conn[x] = "handshake"
        /\ io.at = "register" =>
               /\ x \in Sessions
               /\ conn[x] = "owned"
               /\ caller[x] \in {"generate", "insert"}
               /\ heard[x] = <<>>
        /\ io.at = "send_code" =>
               /\ x \in Sessions
               /\ conn[x] = "owned"
               /\ caller[x] = "returned"
               /\ heard[x] = <<>>
        /\ io.at = "sleep" =>
               /\ x \in Receivers
               /\ conn[x] = "owned"
               /\ claim[x] = Unknown
               /\ heard[x] = <<>>
        /\ io.at \in Relaying =>
               /\ x \in Receivers
               /\ conn[x] = "owned"
               /\ claim[x] \in Sessions
               /\ conn[claim[x]] = "owned"
               /\ IF io.at = "metadata" THEN heard[x] = <<>>
                  ELSE heard[x] = <<"metadata">> \/ (~Alive(x) /\ heard[x] = <<>>)

\* The io thread holds the session s of a sender, as its own or as the claimed.
HeldByIo(s) ==
    io.who = s \/ (io.at \in Relaying /\ claim[io.who] = s)

\* Who owns a session. This says slightly more than OwnedByMap.
OwnedByOne ==
    /\ \A s \in Sessions : Waiting(s) => conn[s] = "owned"
    /\ \A s \in Sessions : conn[s] = "owned" => Waiting(s) \/ HeldByIo(s)
    /\ \A r \in Receivers : conn[r] = "owned" => io.who = r

\* What a sender has heard that is waiting or being served.
SenderHeard ==
    \A s \in Sessions :
        conn[s] = "owned" /\ io.who # s =>
            \/ /\ io.at \in Passing /\ claim[io.who] = s
               /\ \/ heard[s] = <<"code", "ack">>
                  \/ ~Alive(s) /\ heard[s] \in {<<>>, <<"code">>}
            \/ /\ ~(io.at \in Passing /\ claim[io.who] = s)
               /\ \/ heard[s] = <<"code">>
                  \/ ~Alive(s) /\ heard[s] = <<>>

\* The sender a receiver means has been told the code the receiver wants.
MeantWasTold ==
    \A r \in Receivers : meant[r] # None =>
        /\ caller[meant[r]] = "returned"
        /\ code[meant[r]] = wanted[r]

ServerInv ==
    /\ PeersTyped
    /\ CodeEntered
    /\ Unread
    /\ EarlyIsNew
    /\ IoWorksFor
    /\ OwnedByOne
    /\ SenderHeard
    /\ HeardInOrder
    /\ MeantWasTold
    /\ RefusedOnlyWhenGone
    /\ EnteredCodeMeets

-----------------------------------------------------------------------------
(* Facts about the operators. *)

\* What is appended to a short sequence.
LEMMA AppendToNone == ASSUME NEW a PROVE Append(<<>>, a) = <<a>>
OBVIOUS

LEMMA AppendToOne == ASSUME NEW a, NEW b PROVE Append(<<a>>, b) = <<a, b>>
<1> DEFINE t == Append(<<a>>, b)
<1>1. t \in Seq({a, b}) /\ Len(t) = 2 /\ t[1] = a /\ t[2] = b
    OBVIOUS
<1> HIDE DEF t
<1>2. t = <<a, b>>
    BY <1>1
<1> QED
    BY <1>2 DEF t

LEMMA AppendToTwo ==
    ASSUME NEW a, NEW b, NEW c PROVE Append(<<a, b>>, c) = <<a, b, c>>
<1> DEFINE t == Append(<<a, b>>, c)
<1>1. t \in Seq({a, b, c}) /\ Len(t) = 3 /\ t[1] = a /\ t[2] = b /\ t[3] = c
    OBVIOUS
<1> HIDE DEF t
<1>2. t = <<a, b, c>>
    BY <1>1
<1> QED
    BY <1>2 DEF t

\* A message reaches the peer it is meant for, if that is there, and nobody else.
LEMMA TellEffect ==
    ASSUME PeersTyped, NEW x \in Clients,
           NEW m \in {"code", "metadata", "ack", "error"}
    PROVE  /\ Tell(x, m) \in [Clients -> Seq({"code", "metadata", "ack", "error"})]
           /\ \A y \in Clients : y # x => Tell(x, m)[y] = heard[y]
           /\ Alive(x) => Tell(x, m)[x] = Append(heard[x], m)
           /\ ~Alive(x) => Tell(x, m)[x] = heard[x]
BY DEF PeersTyped, Tell

\* A sender that a receiver was given is not in the map.
LEMMA ClaimedNotWaiting ==
    ASSUME ManagerInv, NEW r \in Receivers
    PROVE  ~Waiting(claim[r])
BY DEF ManagerInv, EntryOwned, Waiting

\* The end of a transfer keeps the invariant, whatever the two peers are told
\* in order.
LEMMA EndKeeps ==
    ASSUME ServerInv, ManagerInv, NEW r \in Receivers,
           io.who = r, io.at \in Relaying, EndTransfer(r),
           heard' \in [Clients -> Seq({"code", "metadata", "ack", "error"})],
           \A x \in Clients : x # r /\ x # claim[r] => heard'[x] = heard[x],
           HeardInOrder'
    PROVE  ServerInv'
<1>a. /\ r \in Clients /\ conn[r] = "owned"
      /\ claim[r] \in Sessions /\ claim[r] \in Clients
      /\ conn[claim[r]] = "owned"
      /\ claim[r] # r /\ None \notin Clients
    BY ServerAssumption, NamesAssumption DEF ServerInv, IoWorksFor, Clients
<1>b. ~Waiting(claim[r])
    BY ClaimedNotWaiting
<1>c. /\ conn' \in [Clients -> Early \cup {"owned", "closed"}]
      /\ conn'[r] = "closed"
      /\ conn'[claim[r]] = "closed"
      /\ \A x \in Clients : x # r /\ x # claim[r] => conn'[x] = conn[x]
    BY <1>a DEF EndTransfer, ServerInv, PeersTyped
<1>d. io'.at = "idle" /\ io'.who = None
    BY DEF EndTransfer, Idle
<1>e. UNCHANGED <<managerVars, peerVars, accepting>>
    BY DEF EndTransfer
<1>w. \A s \in Sessions : Waiting(s)' <=> Waiting(s)
    BY <1>e DEF Waiting, managerVars
<1> USE DEF ServerInv, peerVars, managerVars
<1>1. PeersTyped'
  <2>1. io' \in [at : IoPlaces, who : Clients \cup {None}, left : 0 .. REFUSAL_DELAY]
    BY ServerAssumption DEF EndTransfer, Idle, IoPlaces
  <2> QED
    BY <1>c, <1>e, <2>1 DEF PeersTyped
<1>2. CodeEntered'
    BY <1>e DEF CodeEntered
<1>3. Unread'
    BY <1>a, <1>c, <1>e DEF Unread
<1>4. EarlyIsNew'
  <2>1. \A x \in Clients : conn'[x] \in Early =>
            conn[x] \in Early /\ x # r /\ x # claim[r]
    BY <1>c DEF Early
  <2>2. \A x \in Clients : client'[x] = "off" => conn'[x] = "none"
    BY <1>a, <1>c, <1>e DEF EarlyIsNew
  <2> QED
    BY <2>1, <2>2, <1>e DEF EarlyIsNew, Clients
<1>5. IoWorksFor'
    BY <1>d DEF IoWorksFor, Relaying
<1>6. OwnedByOne'
  <2>1. \A s \in Sessions : s # r
    BY ServerAssumption
  <2>2. ASSUME NEW s \in Sessions, Waiting(s)' PROVE conn'[s] = "owned"
    BY <1>b, <1>c, <1>w, <2>1, <2>2 DEF OwnedByOne, Clients
  <2>3. ASSUME NEW s \in Sessions, conn'[s] = "owned" PROVE Waiting(s)'
    BY <1>a, <1>c, <1>w, <2>1, <2>3 DEF OwnedByOne, HeldByIo, Clients
  <2>4. ASSUME NEW q \in Receivers PROVE conn'[q] # "owned"
    BY <1>a, <1>c, ServerAssumption DEF OwnedByOne, Clients
  <2> QED
    BY <2>2, <2>3, <2>4 DEF OwnedByOne
<1>7. SenderHeard'
    BY <1>a, <1>c, <1>d, <1>e, ServerAssumption DEF SenderHeard, Passing, Alive, Clients
<1>9. MeantWasTold'
    BY <1>e DEF MeantWasTold
<1>10. RefusedOnlyWhenGone' /\ EnteredCodeMeets'
    BY <1>e DEF RefusedOnlyWhenGone, EnteredCodeMeets, Claimed
<1> QED
    BY <1>1, <1>2, <1>3, <1>4, <1>5, <1>6, <1>7, <1>9, <1>10

\* A session that is closed before its first message was handled keeps the
\* invariant, and its peer is told at most an error.
LEMMA CloseEarlyKeeps ==
    ASSUME ServerInv, ManagerInv, NEW x \in Clients,
           io = Idle, conn[x] \in {"header", "body"},
           conn' = [conn EXCEPT ![x] = "closed"], Taken(x),
           heard' \in [Clients -> Seq({"code", "metadata", "ack", "error"})],
           \A y \in Clients : y # x => heard'[y] = heard[y],
           heard'[x] \in {<<>>, <<"error">>},
           UNCHANGED <<managerVars, accepting, io>>
    PROVE  ServerInv'
<1>a. /\ conn' \in [Clients -> Early \cup {"owned", "closed"}]
      /\ conn'[x] = "closed"
      /\ \A y \in Clients : y # x => conn'[y] = conn[y]
    BY DEF ServerInv, PeersTyped
<1>b. /\ inbox' \in [Clients -> {"empty", "oversize", "header", "message", "invalid"}]
      /\ inbox'[x] = "empty"
      /\ \A y \in Clients : y # x => inbox'[y] = inbox[y]
      /\ UNCHANGED <<client, wanted, meant, reply>>
    BY DEF Taken, ServerInv, PeersTyped
<1>c. io.at = "idle" /\ io.who = None
    BY DEF Idle
<1>w. \A y \in Sessions : Waiting(y)' <=> Waiting(y)
    BY DEF Waiting, managerVars
<1> USE DEF ServerInv, managerVars
<1>1. PeersTyped'
    BY <1>a, <1>b DEF PeersTyped
<1>2. CodeEntered'
    BY <1>b DEF CodeEntered, Clients
<1>3. Unread'
    BY <1>a, <1>b DEF Unread
<1>4. EarlyIsNew'
  <2>1. \A y \in Clients : conn'[y] \in Early => conn[y] \in Early /\ y # x
    BY <1>a DEF Early
  <2>2. \A y \in Clients : client'[y] = "off" => conn'[y] = "none"
    BY <1>a, <1>b DEF EarlyIsNew
  <2> QED
    BY <2>1, <2>2 DEF EarlyIsNew, Clients
<1>5. IoWorksFor'
    BY <1>c DEF IoWorksFor, Relaying
<1>6. OwnedByOne'
    BY <1>a, <1>w DEF OwnedByOne, HeldByIo, Clients
<1>7. SenderHeard'
    BY <1>a, <1>b DEF SenderHeard, Passing, Alive, Clients
<1>8. HeardInOrder'
    BY DEF HeardInOrder, Clients
<1>9. MeantWasTold'
    BY <1>b DEF MeantWasTold
<1>10. RefusedOnlyWhenGone' /\ EnteredCodeMeets'
    BY <1>b DEF RefusedOnlyWhenGone, EnteredCodeMeets, Claimed
<1> QED
    BY <1>1, <1>2, <1>3, <1>4, <1>5, <1>6, <1>7, <1>8, <1>9, <1>10

-----------------------------------------------------------------------------
(* Every step keeps the invariant. *)

\* A peer connects: it is new to the server, and nothing of it was read.
LEMMA ConnectKeeps ==
    ASSUME ServerInv, ManagerInv, NEW x \in Clients, Connect(x)
    PROVE  ServerInv'
<1> USE DEF ServerInv, PeersTyped, ManagerInv, Connect, managerVars, clockVars
<1>w. \A y \in Sessions : Waiting(y)' <=> Waiting(y)
    BY DEF Waiting
<1>1. PeersTyped'
    BY ServerAssumption DEF Clients, IoPlaces, Early
<1>2. CodeEntered'
    BY DEF CodeEntered
<1>3. Unread'
    BY DEF Unread, EarlyIsNew
<1>4. EarlyIsNew'
    BY DEF EarlyIsNew, Early, Clients
<1>5. IoWorksFor'
    BY ServerAssumption, NamesAssumption
    DEF IoWorksFor, Relaying, Alive, EarlyIsNew, Early, Clients
<1>6. OwnedByOne'
    BY <1>w DEF OwnedByOne, HeldByIo, EarlyIsNew, Clients
<1>7. SenderHeard'
    BY DEF SenderHeard, Passing, Alive
<1>8. HeardInOrder'
    BY DEF HeardInOrder
<1>9. MeantWasTold'
    BY DEF MeantWasTold
<1>10. RefusedOnlyWhenGone' /\ EnteredCodeMeets'
    BY DEF RefusedOnlyWhenGone, EnteredCodeMeets, Claimed
<1> QED
    BY <1>1, <1>2, <1>3, <1>4, <1>5, <1>6, <1>7, <1>8, <1>9, <1>10

\* The header of the first message arrives on a connection that is being read.
LEMMA SendHeaderKeeps ==
    ASSUME ServerInv, ManagerInv, NEW x \in Clients, SendHeader(x)
    PROVE  ServerInv'
<1> USE DEF ServerInv, PeersTyped, ManagerInv, SendHeader, managerVars,
            clockVars, Alive
<1>w. \A y \in Sessions : Waiting(y)' <=> Waiting(y)
    BY DEF Waiting
<1>1. PeersTyped'
    OBVIOUS
<1>2. CodeEntered'
    BY DEF CodeEntered
<1>3. Unread'
    BY DEF Unread
<1>4. EarlyIsNew'
    BY DEF EarlyIsNew
<1>5. IoWorksFor'
    BY DEF IoWorksFor, Relaying, Alive
<1>6. OwnedByOne'
    BY <1>w DEF OwnedByOne, HeldByIo
<1>7. SenderHeard'
    BY DEF SenderHeard, Passing, Alive
<1>8. HeardInOrder'
    BY DEF HeardInOrder
<1>9. MeantWasTold'
    BY DEF MeantWasTold
<1>10. RefusedOnlyWhenGone' /\ EnteredCodeMeets'
    BY DEF RefusedOnlyWhenGone, EnteredCodeMeets, Claimed
<1> QED
    BY <1>1, <1>2, <1>3, <1>4, <1>5, <1>6, <1>7, <1>8, <1>9, <1>10

\* The rest of it arrives. A code that leads to a sender is the one that sender
\* was told: the map's entry is found under it (EntryOwned).
LEMMA SendBodyKeeps ==
    ASSUME ServerInv, ManagerInv, NEW x \in Clients, SendBody(x)
    PROVE  ServerInv'
<1> USE DEF ServerInv, PeersTyped, ManagerInv, SendBody, managerVars,
            clockVars, Alive
<1>w. \A y \in Sessions : Waiting(y)' <=> Waiting(y)
    BY DEF Waiting
<1>m. /\ wanted' \in [Receivers -> Codes \cup {None}]
      /\ meant' \in [Receivers -> Sessions \cup {None}]
      /\ \A q \in Receivers : q # x => wanted'[q] = wanted[q] /\ meant'[q] = meant[q]
      /\ x \in Receivers /\ inbox'[x] = "message" => wanted'[x] \in Codes
      /\ x \in Receivers /\ meant'[x] # None /\ meant'[x] # meant[x] =>
             /\ wanted'[x] \in DOMAIN senders_sessions
             /\ meant'[x] = senders_sessions[wanted'[x]].client_session
      /\ x \in Receivers /\ meant'[x] = meant[x] /\ meant[x] # None =>
             \/ wanted'[x] = wanted[x]
             \/ /\ wanted'[x] \in DOMAIN senders_sessions
                /\ meant'[x] = senders_sessions[wanted'[x]].client_session
  <2>1. CASE x \in Receivers /\ inbox'[x] = "message"
    <3>1. PICK c \in Codes :
              /\ wanted' = [wanted EXCEPT ![x] = c]
              /\ \/ meant' = [meant EXCEPT ![x] = None]
                 \/ /\ c \in DOMAIN senders_sessions
                    /\ meant' = [meant EXCEPT ![x] = senders_sessions[c].client_session]
      BY <2>1 DEF Contains
    <3>2. c \in DOMAIN senders_sessions =>
              senders_sessions[c].client_session \in Sessions
      BY DEF TypeOK, TimedClientSession
    <3> QED
      BY <2>1, <3>1, <3>2
  <2>2. CASE ~(x \in Receivers /\ inbox'[x] = "message")
    BY <2>2
  <2> QED
    BY <2>1, <2>2
<1>1. PeersTyped'
    BY <1>m
<1>2. CodeEntered'
    BY <1>m DEF CodeEntered, Clients
<1>3. Unread'
    BY DEF Unread
<1>4. EarlyIsNew'
    BY DEF EarlyIsNew
<1>5. IoWorksFor'
    BY DEF IoWorksFor, Relaying, Alive
<1>6. OwnedByOne'
    BY <1>w DEF OwnedByOne, HeldByIo
<1>7. SenderHeard'
    BY DEF SenderHeard, Passing, Alive
<1>8. HeardInOrder'
    BY DEF HeardInOrder
<1>9. MeantWasTold'
    BY <1>m DEF MeantWasTold, EntryOwned
<1>10. RefusedOnlyWhenGone' /\ EnteredCodeMeets'
  <2>1. x \in Receivers => claim[x] = None
    BY DEF Unread, EarlyIsNew, Early
  <2>2. \A q \in Receivers : claim[q] # None => wanted'[q] = wanted[q] /\ meant'[q] = meant[q]
    BY <1>m, <2>1
  <2>3. UNCHANGED <<claim, code, terminated>>
    OBVIOUS
  <2> HIDE DEF SendBody, PeersTyped
  <2>4. RefusedOnlyWhenGone'
    BY <2>2, <2>3, NamesAssumption DEF RefusedOnlyWhenGone, Claimed
  <2>5. EnteredCodeMeets'
    BY <2>2, <2>3, NamesAssumption DEF EnteredCodeMeets, Claimed
  <2> QED
    BY <2>4, <2>5
<1> QED
    BY <1>1, <1>2, <1>3, <1>4, <1>5, <1>6, <1>7, <1>8, <1>9, <1>10

\* The user answers: nothing but the answer changes.
LEMMA UserRepliesKeeps ==
    ASSUME ServerInv, ManagerInv, NEW r \in Receivers, UserReplies(r)
    PROVE  ServerInv'
<1> USE DEF ServerInv, PeersTyped, ManagerInv, UserReplies, managerVars,
            clockVars, Alive
<1>w. \A y \in Sessions : Waiting(y)' <=> Waiting(y)
    BY DEF Waiting
<1>1. PeersTyped'
    OBVIOUS
<1>2. CodeEntered'
    BY DEF CodeEntered
<1>3. Unread'
    BY DEF Unread
<1>4. EarlyIsNew'
    BY DEF EarlyIsNew
<1>5. IoWorksFor'
    BY DEF IoWorksFor, Relaying, Alive
<1>6. OwnedByOne'
    BY <1>w DEF OwnedByOne, HeldByIo
<1>7. SenderHeard'
    BY DEF SenderHeard, Passing, Alive
<1>8. HeardInOrder'
    BY DEF HeardInOrder
<1>9. MeantWasTold'
    BY DEF MeantWasTold
<1>10. RefusedOnlyWhenGone' /\ EnteredCodeMeets'
    BY DEF RefusedOnlyWhenGone, EnteredCodeMeets, Claimed
<1> QED
    BY <1>1, <1>2, <1>3, <1>4, <1>5, <1>6, <1>7, <1>8, <1>9, <1>10

\* A peer leaves: what it was told stays told.
LEMMA LeaveKeeps ==
    ASSUME ServerInv, ManagerInv, NEW x \in Clients, Leave(x)
    PROVE  ServerInv'
<1> USE DEF ServerInv, PeersTyped, ManagerInv, Leave, managerVars, clockVars,
            Alive
<1>w. \A y \in Sessions : Waiting(y)' <=> Waiting(y)
    BY DEF Waiting
<1>1. PeersTyped'
    OBVIOUS
<1>2. CodeEntered'
    BY DEF CodeEntered
<1>3. Unread'
    BY DEF Unread
<1>4. EarlyIsNew'
    BY DEF EarlyIsNew
<1>5. IoWorksFor'
    BY DEF IoWorksFor, Relaying, Alive
<1>6. OwnedByOne'
    BY <1>w DEF OwnedByOne, HeldByIo
<1>7. SenderHeard'
    BY DEF SenderHeard, Passing, Alive
<1>8. HeardInOrder'
    BY DEF HeardInOrder
<1>9. MeantWasTold'
    BY DEF MeantWasTold
<1>10. RefusedOnlyWhenGone' /\ EnteredCodeMeets'
    BY DEF RefusedOnlyWhenGone, EnteredCodeMeets, Claimed
<1> QED
    BY <1>1, <1>2, <1>3, <1>4, <1>5, <1>6, <1>7, <1>8, <1>9, <1>10

\* The accept loop takes a connection off the backlog and starts its handshake.
LEMMA AcceptKeeps ==
    ASSUME ServerInv, ManagerInv, NEW x \in Clients, Accept(x)
    PROVE  ServerInv'
<1> USE DEF ServerInv, PeersTyped, ManagerInv, Accept, managerVars, clockVars,
            peerVars, Busy, Idle
<1>w. \A y \in Sessions : Waiting(y)' <=> Waiting(y)
    BY DEF Waiting
<1>1. PeersTyped'
    BY ServerAssumption DEF Clients, IoPlaces, Early
<1>2. CodeEntered'
    BY DEF CodeEntered
<1>3. Unread'
    BY DEF Unread
<1>4. EarlyIsNew'
    BY DEF EarlyIsNew, Early, Clients
<1>5. IoWorksFor'
    BY ServerAssumption, NamesAssumption
    DEF IoWorksFor, Relaying, Alive, Clients
<1>6. OwnedByOne'
    BY <1>w, ServerAssumption, NamesAssumption
    DEF OwnedByOne, HeldByIo, Relaying, Clients
<1>7. SenderHeard'
    BY ServerAssumption, NamesAssumption DEF SenderHeard, Passing, Alive, Clients
<1>8. HeardInOrder'
    BY DEF HeardInOrder
<1>9. MeantWasTold'
    BY DEF MeantWasTold
<1>10. RefusedOnlyWhenGone' /\ EnteredCodeMeets'
    BY DEF RefusedOnlyWhenGone, EnteredCodeMeets, Claimed
<1> QED
    BY <1>1, <1>2, <1>3, <1>4, <1>5, <1>6, <1>7, <1>8, <1>9, <1>10

\* The handshake is done and the first read is scheduled.
LEMMA HandshakeDoneKeeps ==
    ASSUME ServerInv, ManagerInv, NEW x \in Clients, HandshakeDone(x)
    PROVE  ServerInv'
<1> USE DEF ServerInv, PeersTyped, ManagerInv, HandshakeDone, managerVars,
            clockVars, peerVars, Busy, Idle, Alive
<1>w. \A y \in Sessions : Waiting(y)' <=> Waiting(y)
    BY DEF Waiting
<1>1. PeersTyped'
    BY ServerAssumption DEF Clients, IoPlaces, Early
<1>2. CodeEntered'
    BY DEF CodeEntered
<1>3. Unread'
    BY DEF Unread
<1>4. EarlyIsNew'
    BY ServerAssumption, NamesAssumption
    DEF EarlyIsNew, Early, Unread, Clients, IoWorksFor, Relaying, TypeOK
<1>5. IoWorksFor'
    BY DEF IoWorksFor, Relaying, Alive
<1>6. OwnedByOne'
    BY <1>w, ServerAssumption, NamesAssumption
    DEF OwnedByOne, HeldByIo, Early, IoWorksFor, Relaying, Clients, TypeOK
<1>7. SenderHeard'
    BY DEF SenderHeard, Passing, Alive
<1>8. HeardInOrder'
    BY DEF HeardInOrder
<1>9. MeantWasTold'
    BY DEF MeantWasTold
<1>10. RefusedOnlyWhenGone' /\ EnteredCodeMeets'
    BY DEF RefusedOnlyWhenGone, EnteredCodeMeets, Claimed
<1> QED
    BY <1>1, <1>2, <1>3, <1>4, <1>5, <1>6, <1>7, <1>8, <1>9, <1>10

\* The handshake fails: the session was nobody's yet.
LEMMA HandshakeThrowsKeeps ==
    ASSUME ServerInv, ManagerInv, NEW x \in Clients, HandshakeThrows(x)
    PROVE  ServerInv'
<1> USE DEF ServerInv, PeersTyped, ManagerInv, HandshakeThrows, managerVars,
            clockVars, peerVars, Busy, Idle, Alive
<1>w. \A y \in Sessions : Waiting(y)' <=> Waiting(y)
    BY DEF Waiting
<1>1. PeersTyped'
    BY ServerAssumption DEF Clients, IoPlaces, Early
<1>2. CodeEntered'
    BY DEF CodeEntered
<1>3. Unread'
    BY DEF Unread, Clients, IoWorksFor
<1>4. EarlyIsNew'
    BY ServerAssumption, NamesAssumption
    DEF EarlyIsNew, Early, Unread, Clients, IoWorksFor, Relaying, TypeOK
<1>5. IoWorksFor'
    BY DEF IoWorksFor, Relaying, Alive
<1>6. OwnedByOne'
    BY <1>w, ServerAssumption, NamesAssumption
    DEF OwnedByOne, HeldByIo, Early, IoWorksFor, Relaying, Clients, TypeOK
<1>7. SenderHeard'
    BY DEF SenderHeard, Passing, Alive
<1>8. HeardInOrder'
    BY DEF HeardInOrder
<1>9. MeantWasTold'
    BY DEF MeantWasTold
<1>10. RefusedOnlyWhenGone' /\ EnteredCodeMeets'
    BY DEF RefusedOnlyWhenGone, EnteredCodeMeets, Claimed
<1> QED
    BY <1>1, <1>2, <1>3, <1>4, <1>5, <1>6, <1>7, <1>8, <1>9, <1>10

\* The header is read: the body is next, or the message is too long.
LEMMA ReadHeaderKeeps ==
    ASSUME ServerInv, ManagerInv, NEW x \in Clients, ReadHeader(x)
    PROVE  ServerInv'
<1>1. heard[x] = <<>> /\ conn[x] \in {"header", "body"}
    BY DEF ReadHeader, ServerInv, EarlyIsNew, Early
<1>2. CASE inbox[x] = "oversize"
  <2>1. /\ heard' \in [Clients -> Seq({"code", "metadata", "ack", "error"})]
        /\ \A y \in Clients : y # x => heard'[y] = heard[y]
        /\ Alive(x) => heard'[x] = Append(heard[x], "error")
        /\ ~Alive(x) => heard'[x] = heard[x]
    BY <1>2, TellEffect DEF ReadHeader, ServerInv
  <2>2. heard'[x] \in {<<>>, <<"error">>}
    BY <1>1, <2>1, AppendToNone
  <2> QED
    BY <1>1, <1>2, <2>1, <2>2, CloseEarlyKeeps DEF ReadHeader
<1>3. CASE inbox[x] # "oversize"
  <2>1. /\ io = Idle /\ conn[x] = "header"
        /\ conn' = [conn EXCEPT ![x] = "body"]
        /\ UNCHANGED <<managerVars, peerVars, heard, accepting, io>>
    BY <1>3 DEF ReadHeader, peerVars
  <2>w. \A y \in Sessions : Waiting(y)' <=> Waiting(y)
    BY <2>1 DEF Waiting, managerVars
  <2> USE <2>1 DEF ServerInv, PeersTyped, managerVars, clockVars, peerVars
  <2>2. PeersTyped'
    BY DEF Early
  <2>3. CodeEntered' /\ Unread'
    BY DEF CodeEntered, Unread
  <2>4. EarlyIsNew'
    BY DEF EarlyIsNew, Early, Clients
  <2>5. IoWorksFor'
    BY DEF IoWorksFor, Relaying, Idle
  <2>6. OwnedByOne'
    BY <2>w DEF OwnedByOne, HeldByIo, Clients
  <2>7. SenderHeard'
    BY DEF SenderHeard, Passing, Alive, Clients
  <2>8. HeardInOrder' /\ MeantWasTold' /\ RefusedOnlyWhenGone' /\ EnteredCodeMeets'
    BY DEF HeardInOrder, MeantWasTold, RefusedOnlyWhenGone, EnteredCodeMeets,
           Claimed
  <2> QED
    BY <2>2, <2>3, <2>4, <2>5, <2>6, <2>7, <2>8
<1> QED
    BY <1>2, <1>3

\* The peer is gone before its first message was complete.
LEMMA ReadErrorKeeps ==
    ASSUME ServerInv, ManagerInv, NEW x \in Clients, ReadError(x)
    PROVE  ServerInv'
<1>1. heard[x] = <<>> /\ conn[x] \in {"header", "body"}
    BY DEF ReadError, ServerInv, EarlyIsNew, Early
<1> QED
    BY <1>1, CloseEarlyKeeps DEF ReadError, ServerInv, PeersTyped

\* The first message is not one: its session is closed with an error.
LEMMA HandleInvalidKeeps ==
    ASSUME ServerInv, ManagerInv, NEW x \in Clients, HandleInvalid(x)
    PROVE  ServerInv'
<1>1. /\ heard' \in [Clients -> Seq({"code", "metadata", "ack", "error"})]
      /\ \A y \in Clients : y # x => heard'[y] = heard[y]
      /\ Alive(x) => heard'[x] = Append(heard[x], "error")
      /\ ~Alive(x) => heard'[x] = heard[x]
    BY TellEffect DEF HandleInvalid, ServerInv
<1>2. heard[x] = <<>> /\ conn[x] \in {"header", "body"}
    BY DEF HandleInvalid, MessageRead, ServerInv, EarlyIsNew, Early
<1>3. heard'[x] \in {<<>>, <<"error">>}
    BY <1>1, <1>2, AppendToNone
<1> QED
    BY <1>1, <1>2, <1>3, CloseEarlyKeeps DEF HandleInvalid, MessageRead

\* A sender's first message: from here on the io thread holds its session.
LEMMA HandleSendKeeps ==
    ASSUME ServerInv, ManagerInv, NEW s \in Sessions, HandleSend(s)
    PROVE  ServerInv'
<1> USE DEF ServerInv, PeersTyped, ManagerInv, HandleSend, MessageRead, Taken,
            CallRegisterSender, Busy, clockVars
<1>w. \A y \in Sessions : Waiting(y)' <=> Waiting(y)
    BY DEF Waiting
<1>1. PeersTyped'
    BY ServerAssumption DEF Clients, IoPlaces, Early
<1>2. CodeEntered'
    BY DEF CodeEntered
<1>3. Unread'
    BY DEF Unread
<1>4. EarlyIsNew'
    BY DEF EarlyIsNew, Early, Clients
<1>5. IoWorksFor'
    BY ServerAssumption, NamesAssumption
    DEF IoWorksFor, Alive, Early, EarlyIsNew, Relaying, Clients, TypeOK
<1>6. OwnedByOne'
  <2>1. \A y \in Sessions : ~HeldByIo(y)
    BY NamesAssumption DEF Idle, HeldByIo, Relaying
  <2>2. /\ conn'[s] = "owned" /\ io'.who = s
        /\ \A y \in Clients : y # s => conn'[y] = conn[y]
    BY DEF Clients
  <2>3. \A q \in Receivers : q # s /\ conn[q] # "owned"
    BY NamesAssumption, ServerAssumption DEF OwnedByOne, Idle
  <2> HIDE DEF HandleSend
  <2> QED
    BY <1>w, <2>1, <2>2, <2>3 DEF OwnedByOne, HeldByIo, Clients
<1>7. SenderHeard'
    BY NamesAssumption DEF SenderHeard, Passing, Alive, Clients, Idle
<1>8. HeardInOrder'
    BY DEF HeardInOrder
<1>9. MeantWasTold'
    BY DEF MeantWasTold
<1>10. RefusedOnlyWhenGone' /\ EnteredCodeMeets'
    BY DEF RefusedOnlyWhenGone, EnteredCodeMeets, Claimed
<1> QED
    BY <1>1, <1>2, <1>3, <1>4, <1>5, <1>6, <1>7, <1>8, <1>9, <1>10

\* A code is drawn, and only the manager's variables change.
LEMMA DrawCodeKeeps ==
    ASSUME ServerInv, ManagerInv, NEW s \in Sessions, NEW c \in Codes, DrawCode(s,
           c)
    PROVE  ServerInv'
<1> USE DEF ServerInv, PeersTyped, ManagerInv, DrawCode, GenerateSessionID,
            serverVars, Busy, clockVars
<1>w. \A y \in Sessions : Waiting(y)' <=> Waiting(y)
    BY DEF Waiting
<1>1. PeersTyped'
    OBVIOUS
<1>2. CodeEntered'
    BY DEF CodeEntered
<1>3. Unread'
    BY DEF Unread
<1>4. EarlyIsNew'
    BY DEF EarlyIsNew
<1>5. IoWorksFor'
    BY DEF IoWorksFor, Relaying, Alive
<1>6. OwnedByOne'
    BY <1>w DEF OwnedByOne, HeldByIo
<1>7. SenderHeard'
    BY DEF SenderHeard, Passing, Alive
<1>8. HeardInOrder'
    BY DEF HeardInOrder
<1>9. MeantWasTold'
    BY DEF MeantWasTold
<1>10. RefusedOnlyWhenGone' /\ EnteredCodeMeets'
    BY DEF RefusedOnlyWhenGone, EnteredCodeMeets, Claimed
<1> QED
    BY <1>1, <1>2, <1>3, <1>4, <1>5, <1>6, <1>7, <1>8, <1>9, <1>10

\* The code was taken.
LEMMA DrawAgainKeeps ==
    ASSUME ServerInv, ManagerInv, NEW s \in Sessions, DrawAgain(s)
    PROVE  ServerInv'
<1> USE DEF ServerInv, PeersTyped, ManagerInv, DrawAgain, RetryTakenCode,
            serverVars, Busy, clockVars
<1>w. \A y \in Sessions : Waiting(y)' <=> Waiting(y)
    BY DEF Waiting
<1>1. PeersTyped'
    OBVIOUS
<1>2. CodeEntered'
    BY DEF CodeEntered
<1>3. Unread'
    BY DEF Unread
<1>4. EarlyIsNew'
    BY DEF EarlyIsNew
<1>5. IoWorksFor'
    BY DEF IoWorksFor, Relaying, Alive
<1>6. OwnedByOne'
    BY <1>w DEF OwnedByOne, HeldByIo
<1>7. SenderHeard'
    BY DEF SenderHeard, Passing, Alive
<1>8. HeardInOrder'
    BY DEF HeardInOrder
<1>9. MeantWasTold'
    BY DEF MeantWasTold
<1>10. RefusedOnlyWhenGone' /\ EnteredCodeMeets'
    BY DEF RefusedOnlyWhenGone, EnteredCodeMeets, Claimed
<1> QED
    BY <1>1, <1>2, <1>3, <1>4, <1>5, <1>6, <1>7, <1>8, <1>9, <1>10

\* The sender is in the map, and still held by the io thread.
LEMMA RegisterKeeps ==
    ASSUME ServerInv, ManagerInv, NEW s \in Sessions, Register(s)
    PROVE  ServerInv'
<1> USE DEF ServerInv, PeersTyped, ManagerInv, Register, InsertSender, Busy,
            clockVars, peerVars
<1>w. \A y \in Sessions : Waiting(y)' <=> Waiting(y) \/ y = s
    BY DEF Waiting, Insert, CodeTaken, Contains, TypeOK, TimedClientSession
<1>1. PeersTyped'
    BY ServerAssumption DEF Clients, IoPlaces, Early
<1>2. CodeEntered'
    BY DEF CodeEntered
<1>3. Unread'
    BY DEF Unread
<1>4. EarlyIsNew'
    BY DEF EarlyIsNew
<1>5. IoWorksFor'
    BY ServerAssumption, NamesAssumption
    DEF IoWorksFor, Alive, Early, EarlyIsNew, Relaying, Clients, TypeOK
<1>6. OwnedByOne'
    BY <1>w, ServerAssumption, NamesAssumption
    DEF OwnedByOne, HeldByIo, Early, IoWorksFor, Relaying, Clients, TypeOK
<1>7. SenderHeard'
    BY DEF SenderHeard, Passing, Alive
<1>8. HeardInOrder'
    BY DEF HeardInOrder
<1>9. MeantWasTold'
    BY DEF MeantWasTold
<1>10. RefusedOnlyWhenGone' /\ EnteredCodeMeets'
  <2>1. \A q \in Receivers : claim[q] \in Sessions => code'[claim[q]] = code[claim[q]]
    BY DEF ClaimOwned, TypeOK
  <2> QED
    BY <2>1 DEF RefusedOnlyWhenGone, EnteredCodeMeets, Claimed
<1> QED
    BY <1>1, <1>2, <1>3, <1>4, <1>5, <1>6, <1>7, <1>8, <1>9, <1>10

\* The code is sent. The session stays open exactly if it is still in the map.
LEMMA SendCodeKeeps ==
    ASSUME ServerInv, ManagerInv, NEW s \in Sessions, SendCode(s)
    PROVE  ServerInv'
<1> USE DEF ServerInv, PeersTyped, ManagerInv, SendCode, managerVars,
            clockVars, Busy, Idle, peerVars
<1>w. \A y \in Sessions : Waiting(y)' <=> Waiting(y)
    BY DEF Waiting
<1>t. /\ heard' \in [Clients -> Seq({"code", "metadata", "ack", "error"})]
      /\ \A y \in Clients : y # s => heard'[y] = heard[y]
      /\ Alive(s) => heard'[s] = Append(heard[s], "code")
      /\ ~Alive(s) => heard'[s] = heard[s]
    BY TellEffect DEF Clients
<1>1. PeersTyped'
    BY <1>t, ServerAssumption
    DEF IoPlaces, Early, Clients, TypeOK, TimedClientSession
<1>2. CodeEntered'
    BY DEF CodeEntered
<1>3. Unread'
    BY DEF Unread, Clients, IoWorksFor
<1>4. EarlyIsNew'
    BY <1>t, ServerAssumption, NamesAssumption
    DEF EarlyIsNew, Early, Unread, Clients, IoWorksFor, Relaying, TypeOK
<1>5. IoWorksFor'
    BY <1>t, AppendToNone, AppendToOne, ServerAssumption, NamesAssumption
    DEF IoWorksFor, Alive, Early, EarlyIsNew, Relaying, Clients, TypeOK
<1>6. OwnedByOne'
    BY <1>w, ServerAssumption, NamesAssumption
    DEF OwnedByOne, HeldByIo, Relaying, Clients
<1>7. SenderHeard'
    BY <1>t, AppendToNone, NamesAssumption
    DEF SenderHeard, Passing, Alive, IoWorksFor, Relaying, Clients
<1>8. HeardInOrder'
  <2>1. heard[s] = <<>>
    BY DEF IoWorksFor, Relaying
  <2>2. heard'[s] = <<>> \/ heard'[s] = <<"code">>
    BY <1>t, <2>1, AppendToNone
  <2> HIDE DEF SendCode
  <2> QED
    BY <1>t, <2>2, ServerAssumption DEF HeardInOrder, Clients
<1>9. MeantWasTold'
    BY DEF MeantWasTold
<1>10. RefusedOnlyWhenGone' /\ EnteredCodeMeets'
    BY DEF RefusedOnlyWhenGone, EnteredCodeMeets, Claimed
<1> QED
    BY <1>1, <1>2, <1>3, <1>4, <1>5, <1>6, <1>7, <1>8, <1>9, <1>10

\* A receiver is given the sender it asked for: the map loses that sender and the
\* io thread holds it, in the same step.
LEMMA HandleReceiveKeeps ==
    ASSUME ServerInv, ManagerInv, NEW r \in Receivers, HandleReceive(r)
    PROVE  ServerInv'
<1> USE DEF ServerInv, PeersTyped, ManagerInv, HandleReceive, MessageRead,
            Taken, GetSenderWithMetadata, Busy, clockVars
<1>c. /\ wanted[r] \in DOMAIN senders_sessions
      /\ claim'[r] = senders_sessions[wanted[r]].client_session
      /\ claim'[r] \in Sessions
      /\ \A q \in Receivers : q # r => claim'[q] = claim[q]
    BY DEF Find, TypeOK, TimedClientSession
<1>w. \A y \in Sessions : Waiting(y)' <=> Waiting(y) /\ y # claim'[r]
  <2>1. senders_sessions' = [c \in DOMAIN senders_sessions \ {wanted[r]} |->
                                senders_sessions[c]]
    BY DEF Find, Extract, Restrict
  <2>2. \A c \in DOMAIN senders_sessions :
            code[senders_sessions[c].client_session] = c
    BY DEF EntryOwned
  <2> HIDE DEF HandleReceive
  <2>3. ASSUME NEW y \in Sessions, Waiting(y)' PROVE Waiting(y) /\ y # claim'[r]
    <3>1. PICK c \in DOMAIN senders_sessions' : senders_sessions'[c].client_session = y
      BY <2>3 DEF Waiting
    <3>2. /\ c \in DOMAIN senders_sessions /\ c # wanted[r]
          /\ senders_sessions[c].client_session = y
      BY <2>1, <3>1
    <3> QED
      <4>1. Waiting(y)
        BY <3>2 DEF Waiting
      <4>2. code[y] = c /\ code[claim'[r]] = wanted[r]
        BY <1>c, <2>2, <3>2
      <4> QED
        BY <3>2, <4>1, <4>2
  <2>4. ASSUME NEW y \in Sessions, Waiting(y), y # claim'[r] PROVE Waiting(y)'
    BY <1>c, <2>1, <2>4 DEF Waiting
  <2> QED
    BY <2>3, <2>4
<1>v. Waiting(claim'[r])
    BY <1>c DEF Waiting
<1>i. io.at = "idle" /\ io.who = None
    BY DEF Idle
<1>1. PeersTyped'
    BY ServerAssumption DEF Clients, IoPlaces, Early
<1>2. CodeEntered'
    BY DEF CodeEntered
<1>3. Unread'
    BY DEF Unread
<1>4. EarlyIsNew'
    BY <1>c DEF EarlyIsNew, Early, Clients
<1>5. IoWorksFor'
  <2>1. conn'[r] = "owned" /\ conn'[claim'[r]] = "owned"
    BY <1>c, <1>v DEF OwnedByOne, Clients
  <2> QED
    BY <1>c, <2>1, ServerAssumption
    DEF IoWorksFor, Relaying, EarlyIsNew, Early, Clients
<1>6. OwnedByOne'
  <2>1. \A y \in Sessions : ~HeldByIo(y)
    BY <1>i, NamesAssumption DEF HeldByIo, Relaying
  <2>2. \A y \in Sessions : y = claim'[r] => HeldByIo(y)'
    BY DEF HeldByIo, Relaying
  <2> QED
    BY <1>i, <1>w, <2>1, <2>2, ServerAssumption DEF OwnedByOne, Clients
<1>7. SenderHeard'
    BY <1>i, NamesAssumption, ServerAssumption DEF SenderHeard, Passing, Alive, Clients
<1>8. HeardInOrder'
    BY DEF HeardInOrder
<1>9. MeantWasTold'
    BY DEF MeantWasTold
<1>10. RefusedOnlyWhenGone'
  <2>1. \A y \in Sessions : Claimed(y) => Claimed(y)'
    BY <1>c, NamesAssumption DEF Claimed
  <2> QED
    BY <1>c, <2>1, NamesAssumption DEF RefusedOnlyWhenGone
<1>11. EnteredCodeMeets'
  <2>1. /\ caller' = caller /\ code' = code /\ terminated' = terminated
        /\ wanted' = wanted /\ meant' = meant
        /\ claim'[r] \in Sessions /\ code[claim'[r]] = wanted[r]
    BY <1>c DEF EntryOwned
  <2>2. \A y \in Sessions : Claimed(y) => Claimed(y)'
    BY <1>c, NamesAssumption DEF Claimed
  <2>3. ASSUME meant[r] # None, meant[r] # claim'[r]
        PROVE  Claimed(meant[r]) \/ meant[r] \in terminated
    <3>1. /\ meant[r] \in Sessions
          /\ caller[meant[r]] = "returned"
          /\ code[meant[r]] = wanted[r]
      BY <2>3 DEF MeantWasTold
    <3>2. ~Waiting(meant[r])
      BY <1>c, <2>3, <3>1 DEF EntryOwned, Waiting
    <3> QED
      BY <3>1, <3>2 DEF NoneLost
  <2> HIDE DEF HandleReceive, MessageRead, Taken, GetSenderWithMetadata
  <2> QED
    BY <1>c, <2>1, <2>2, <2>3 DEF EnteredCodeMeets
<1> QED
    BY <1>1, <1>2, <1>3, <1>4, <1>5, <1>6, <1>7, <1>8, <1>9, <1>10, <1>11

\* A code is unknown. A sender that had been told it was then lost from the map,
\* that is claimed or terminated: here the manager's invariant is needed.
LEMMA HandleUnknownCodeKeeps ==
    ASSUME ServerInv, ManagerInv, NEW r \in Receivers, HandleUnknownCode(r)
    PROVE  ServerInv'
<1> USE DEF ServerInv, PeersTyped, ManagerInv, HandleUnknownCode, MessageRead,
            Taken, ThrowUnknownSessionCode, clockVars, Idle
<1>w. \A y \in Sessions : Waiting(y)' <=> Waiting(y)
    BY DEF Waiting
<1>1. PeersTyped'
    BY ServerAssumption DEF Clients, IoPlaces, Early
<1>2. CodeEntered'
    BY DEF CodeEntered
<1>3. Unread'
    BY DEF Unread
<1>4. EarlyIsNew'
    BY DEF EarlyIsNew, Early, Clients
<1>5. IoWorksFor'
    BY ServerAssumption, NamesAssumption
    DEF IoWorksFor, Alive, Early, EarlyIsNew, Relaying, Clients, TypeOK
<1>6. OwnedByOne'
    BY <1>w, ServerAssumption, NamesAssumption
    DEF OwnedByOne, HeldByIo, Relaying, Clients
<1>7. SenderHeard'
    BY ServerAssumption, NamesAssumption DEF SenderHeard, Passing, Alive, Clients
<1>8. HeardInOrder'
    BY DEF HeardInOrder
<1>9. MeantWasTold'
    BY DEF MeantWasTold
<1>10. RefusedOnlyWhenGone'
  <2>1. \A y \in Sessions : Claimed(y) => Claimed(y)'
    BY NamesAssumption DEF Claimed, TypeOK
  <2>2. \A y \in Sessions : caller[y] = "returned" /\ code[y] = wanted[r] =>
            Claimed(y) \/ y \in terminated
    <3>1. wanted[r] \notin DOMAIN senders_sessions
      BY DEF Find
    <3> HIDE DEF HandleUnknownCode, ThrowUnknownSessionCode
    <3> QED
      BY <3>1 DEF NoneLost, EntryOwned, Waiting
  <2>3. \A q \in Receivers : q # r => claim'[q] = claim[q]
    OBVIOUS
  <2>4. ASSUME NEW q \in Receivers, claim'[q] = Unknown, meant[q] # None
        PROVE  Claimed(meant[q]) \/ meant[q] \in terminated
    <3>1. meant[q] \in Sessions
      BY <2>4
    <3>2. CASE q = r
      BY <2>2, <2>4, <3>1, <3>2 DEF MeantWasTold
    <3>3. CASE q # r
      BY <2>3, <2>4, <3>3 DEF RefusedOnlyWhenGone
    <3> QED
      BY <3>2, <3>3
  <2> QED
    BY <2>1, <2>4 DEF RefusedOnlyWhenGone
<1>11. EnteredCodeMeets'
  <2>1. \A y \in Sessions : Claimed(y) => Claimed(y)'
    BY NamesAssumption DEF Claimed, TypeOK
  <2>2. \A q \in Receivers : claim'[q] \in Sessions => claim'[q] = claim[q]
    BY NamesAssumption DEF TypeOK
  <2> QED
    BY <2>1, <2>2 DEF EnteredCodeMeets
<1> QED
    BY <1>1, <1>2, <1>3, <1>4, <1>5, <1>6, <1>7, <1>8, <1>9, <1>10, <1>11

\* After the delay the receiver is told and dropped.
LEMMA RefuseCodeKeeps ==
    ASSUME ServerInv, ManagerInv, NEW r \in Receivers, RefuseCode(r)
    PROVE  ServerInv'
<1> USE DEF ServerInv, PeersTyped, ManagerInv, RefuseCode, managerVars,
            clockVars, Busy, Idle, peerVars
<1>w. \A y \in Sessions : Waiting(y)' <=> Waiting(y)
    BY DEF Waiting
<1>t. /\ heard' \in [Clients -> Seq({"code", "metadata", "ack", "error"})]
      /\ \A y \in Clients : y # r => heard'[y] = heard[y]
      /\ Alive(r) => heard'[r] = Append(heard[r], "error")
      /\ ~Alive(r) => heard'[r] = heard[r]
    BY TellEffect DEF Clients
<1>1. PeersTyped'
    BY <1>t, ServerAssumption
    DEF IoPlaces, Early, Clients, TypeOK, TimedClientSession
<1>2. CodeEntered'
    BY DEF CodeEntered
<1>3. Unread'
    BY DEF Unread, Clients, IoWorksFor
<1>4. EarlyIsNew'
    BY <1>t, ServerAssumption, NamesAssumption
    DEF EarlyIsNew, Early, Unread, Clients, IoWorksFor, Relaying, TypeOK
<1>5. IoWorksFor'
    BY <1>t, AppendToNone, AppendToOne, ServerAssumption, NamesAssumption
    DEF IoWorksFor, Alive, Early, EarlyIsNew, Relaying, Clients, TypeOK
<1>6. OwnedByOne'
    BY <1>w, ServerAssumption, NamesAssumption
    DEF OwnedByOne, HeldByIo, Relaying, Clients
<1>7. SenderHeard'
    BY <1>t, ServerAssumption
    DEF SenderHeard, Passing, Alive, IoWorksFor, Relaying, Clients
<1>8. HeardInOrder'
  <2>1. heard[r] = <<>>
    BY DEF IoWorksFor, Relaying
  <2>2. heard'[r] = <<>> \/ heard'[r] = <<"error">>
    BY <1>t, <2>1, AppendToNone
  <2> HIDE DEF RefuseCode
  <2> QED
    BY <1>t, <2>2, ServerAssumption DEF HeardInOrder, Clients
<1>9. MeantWasTold'
    BY DEF MeantWasTold
<1>10. RefusedOnlyWhenGone' /\ EnteredCodeMeets'
    BY DEF RefusedOnlyWhenGone, EnteredCodeMeets, Claimed
<1> QED
    BY <1>1, <1>2, <1>3, <1>4, <1>5, <1>6, <1>7, <1>8, <1>9, <1>10

\* The receiver is told the metadata, its first message.
LEMMA SendMetadataKeeps ==
    ASSUME ServerInv, ManagerInv, NEW r \in Receivers, SendMetadata(r)
    PROVE  ServerInv'
<1> USE DEF ServerInv, PeersTyped, ManagerInv, SendMetadata, managerVars,
            clockVars, Phase, Busy, peerVars
<1>w. \A y \in Sessions : Waiting(y)' <=> Waiting(y)
    BY DEF Waiting
<1>t. /\ heard' \in [Clients -> Seq({"code", "metadata", "ack", "error"})]
      /\ \A y \in Clients : y # r => heard'[y] = heard[y]
      /\ Alive(r) => heard'[r] = Append(heard[r], "metadata")
      /\ ~Alive(r) => heard'[r] = heard[r]
    BY TellEffect DEF Clients
<1>1. PeersTyped'
    BY <1>t, ServerAssumption
    DEF IoPlaces, Early, Clients, TypeOK, TimedClientSession
<1>2. CodeEntered'
    BY DEF CodeEntered
<1>3. Unread'
    BY DEF Unread
<1>4. EarlyIsNew'
  <2>1. conn[r] = "owned"
    BY DEF IoWorksFor, Relaying
  <2> QED
    BY <1>t, <2>1 DEF EarlyIsNew, Early
<1>5. IoWorksFor'
    BY <1>t, AppendToNone, AppendToOne, ServerAssumption, NamesAssumption
    DEF IoWorksFor, Alive, Early, EarlyIsNew, Relaying, Clients, TypeOK
<1>6. OwnedByOne'
    BY <1>w, ServerAssumption, NamesAssumption
    DEF OwnedByOne, HeldByIo, Relaying, Clients
<1>7. SenderHeard'
    BY <1>t, ServerAssumption
    DEF SenderHeard, Passing, Alive, IoWorksFor, Relaying, Clients
<1>8. HeardInOrder'
  <2>1. heard[r] = <<>>
    BY DEF IoWorksFor, Relaying
  <2>2. heard'[r] = <<>> \/ heard'[r] = <<"metadata">>
    BY <1>t, <2>1, AppendToNone
  <2> HIDE DEF SendMetadata
  <2> QED
    BY <1>t, <2>2, ServerAssumption DEF HeardInOrder, Clients
<1>9. MeantWasTold'
    BY DEF MeantWasTold
<1>10. RefusedOnlyWhenGone' /\ EnteredCodeMeets'
    BY DEF RefusedOnlyWhenGone, EnteredCodeMeets, Claimed
<1> QED
    BY <1>1, <1>2, <1>3, <1>4, <1>5, <1>6, <1>7, <1>8, <1>9, <1>10

\* The receiver confirmed.
LEMMA ConfirmedKeeps ==
    ASSUME ServerInv, ManagerInv, NEW r \in Receivers, Confirmed(r)
    PROVE  ServerInv'
<1> USE DEF ServerInv, PeersTyped, ManagerInv, Confirmed, managerVars,
            clockVars, Phase, Busy, peerVars
<1>w. \A y \in Sessions : Waiting(y)' <=> Waiting(y)
    BY DEF Waiting
<1>1. PeersTyped'
    BY ServerAssumption DEF Clients, IoPlaces, Early
<1>2. CodeEntered'
    BY DEF CodeEntered
<1>3. Unread'
    BY DEF Unread
<1>4. EarlyIsNew'
    BY DEF EarlyIsNew
<1>5. IoWorksFor'
    BY DEF IoWorksFor, Relaying, Alive
<1>6. OwnedByOne'
    BY <1>w, ServerAssumption, NamesAssumption
    DEF OwnedByOne, HeldByIo, Relaying, Clients
<1>7. SenderHeard'
    BY DEF SenderHeard, Passing, Alive
<1>8. HeardInOrder'
    BY DEF HeardInOrder
<1>9. MeantWasTold'
    BY DEF MeantWasTold
<1>10. RefusedOnlyWhenGone' /\ EnteredCodeMeets'
    BY DEF RefusedOnlyWhenGone, EnteredCodeMeets, Claimed
<1> QED
    BY <1>1, <1>2, <1>3, <1>4, <1>5, <1>6, <1>7, <1>8, <1>9, <1>10

\* The receiver did not want the file: it is told an error after the metadata.
LEMMA AbortedKeeps ==
    ASSUME ServerInv, ManagerInv, NEW r \in Receivers, Aborted(r)
    PROVE  ServerInv'
<1>1. io.who = r /\ io.at \in Relaying /\ EndTransfer(r)
    BY DEF Aborted, Busy, Relaying
<1>2. /\ heard' \in [Clients -> Seq({"code", "metadata", "ack", "error"})]
      /\ \A y \in Clients : y # r => heard'[y] = heard[y]
      /\ Alive(r) => heard'[r] = Append(heard[r], "error")
      /\ ~Alive(r) => heard'[r] = heard[r]
    BY TellEffect DEF Aborted, Clients, ServerInv
<1>3. heard[r] = <<"metadata">> \/ (~Alive(r) /\ heard[r] = <<>>)
    BY DEF Aborted, Busy, ServerInv, IoWorksFor, Relaying
<1>4. HeardInOrder'
    BY <1>2, <1>3, AppendToOne, ServerAssumption
    DEF HeardInOrder, ServerInv, Clients
<1> QED
    BY <1>1, <1>2, <1>4, EndKeeps

\* The sender is told that somebody confirmed, after its code.
LEMMA AckSenderKeeps ==
    ASSUME ServerInv, ManagerInv, NEW r \in Receivers, AckSender(r)
    PROVE  ServerInv'
<1> USE DEF ServerInv, PeersTyped, ManagerInv, AckSender, managerVars,
            clockVars, Phase, Busy, peerVars
<1>w. \A y \in Sessions : Waiting(y)' <=> Waiting(y)
    BY DEF Waiting
<1>c. claim[r] \in Sessions /\ claim[r] \in Clients /\ claim[r] # r
    BY ServerAssumption DEF IoWorksFor, Relaying, Clients
<1>t. /\ heard' \in [Clients -> Seq({"code", "metadata", "ack", "error"})]
      /\ \A y \in Clients : y # claim[r] => heard'[y] = heard[y]
      /\ Alive(claim[r]) => heard'[claim[r]] = Append(heard[claim[r]], "ack")
      /\ ~Alive(claim[r]) => heard'[claim[r]] = heard[claim[r]]
  <2>1. /\ Tell(claim[r], "ack")
               \in [Clients -> Seq({"code", "metadata", "ack", "error"})]
        /\ \A y \in Clients : y # claim[r] => Tell(claim[r], "ack")[y] = heard[y]
        /\ Alive(claim[r]) =>
               Tell(claim[r], "ack")[claim[r]] = Append(heard[claim[r]], "ack")
        /\ ~Alive(claim[r]) => Tell(claim[r], "ack")[claim[r]] = heard[claim[r]]
    BY <1>c, TellEffect
  <2>2. heard' = Tell(claim[r], "ack")
    OBVIOUS
  <2> HIDE DEF ServerInv, PeersTyped, ManagerInv, AckSender
  <2> QED
    BY <2>1, <2>2
<1>h. \/ /\ Alive(claim[r])
         /\ heard[claim[r]] = <<"code">> /\ heard'[claim[r]] = <<"code", "ack">>
      \/ /\ ~Alive(claim[r])
         /\ heard[claim[r]] = <<>> \/ heard[claim[r]] = <<"code">>
         /\ heard'[claim[r]] = heard[claim[r]]
  <2>1. Append(<<"code">>, "ack") = <<"code", "ack">>
    BY AppendToOne
  <2>2. conn[claim[r]] = "owned" /\ io.who # claim[r]
    BY <1>c DEF IoWorksFor, Relaying
  <2>3. heard[claim[r]] = <<"code">> \/ (~Alive(claim[r]) /\ heard[claim[r]] = <<>>)
    BY <1>c, <2>2 DEF SenderHeard, Passing
  <2> QED
    BY <1>t, <2>1, <2>3
<1>1. PeersTyped'
    BY <1>t, <1>c, ServerAssumption
    DEF IoPlaces, Early, Clients, TypeOK, TimedClientSession
<1>2. CodeEntered'
    BY DEF CodeEntered
<1>3. Unread'
    BY DEF Unread
<1>4. EarlyIsNew'
  <2>1. conn[claim[r]] = "owned"
    BY DEF IoWorksFor, Relaying
  <2> QED
    BY <1>t, <2>1 DEF EarlyIsNew, Early
<1>5. IoWorksFor'
    BY <1>t, <1>c, AppendToNone, AppendToOne, ServerAssumption, NamesAssumption
    DEF IoWorksFor, Alive, Early, EarlyIsNew, Relaying, Clients, TypeOK
<1>6. OwnedByOne'
    BY <1>w, ServerAssumption, NamesAssumption
    DEF OwnedByOne, HeldByIo, Relaying, Clients
<1>7. SenderHeard'
  <2>1. ASSUME NEW y \in Sessions, y # claim[r] PROVE heard'[y] = heard[y]
    BY <1>t, <2>1 DEF Clients
  <2>2. /\ io.who = r /\ io.at = "ack_sender" /\ io'.who = r /\ io'.at \in Passing
        /\ conn' = conn /\ claim' = claim
        /\ \A y \in Sessions : Alive(y)' <=> Alive(y)
    BY DEF Alive, Passing
  <2>3. ASSUME NEW y \in Sessions, y # claim[r], conn[y] = "owned", y # r
        PROVE  heard[y] = <<"code">> \/ (~Alive(y) /\ heard[y] = <<>>)
    BY <2>2, <2>3 DEF SenderHeard, Passing
  <2> HIDE DEF ServerInv, PeersTyped, ManagerInv, AckSender
  <2> QED
    BY <1>c, <1>h, <2>1, <2>2, <2>3 DEF SenderHeard, Passing
<1>8. HeardInOrder'
  <2>1. \/ heard'[claim[r]] = <<>> \/ heard'[claim[r]] = <<"code">>
        \/ heard'[claim[r]] = <<"code", "ack">>
    BY <1>h
  <2> HIDE DEF AckSender
  <2> QED
    BY <1>c, <1>t, <2>1, ServerAssumption DEF HeardInOrder, Clients
<1>9. MeantWasTold'
    BY DEF MeantWasTold
<1>10. RefusedOnlyWhenGone' /\ EnteredCodeMeets'
    BY DEF RefusedOnlyWhenGone, EnteredCodeMeets, Claimed
<1> QED
    BY <1>1, <1>2, <1>3, <1>4, <1>5, <1>6, <1>7, <1>8, <1>9, <1>10

\* A piece comes from the sender, or goes to the receiver.
LEMMA PieceKeeps ==
    ASSUME ServerInv, ManagerInv, NEW r \in Receivers,
           PieceReceived(r) \/ PieceSent(r)
    PROVE  ServerInv'
<1> USE DEF ServerInv, PeersTyped, ManagerInv, PieceReceived, PieceSent,
            managerVars, clockVars, Phase, Busy, peerVars
<1>w. \A y \in Sessions : Waiting(y)' <=> Waiting(y)
    BY DEF Waiting
<1>1. PeersTyped'
    BY ServerAssumption DEF Clients, IoPlaces, Early
<1>2. CodeEntered'
    BY DEF CodeEntered
<1>3. Unread'
    BY DEF Unread
<1>4. EarlyIsNew'
    BY DEF EarlyIsNew
<1>5. IoWorksFor'
    BY DEF IoWorksFor, Relaying, Alive
<1>6. OwnedByOne'
    BY <1>w, ServerAssumption, NamesAssumption
    DEF OwnedByOne, HeldByIo, Relaying, Clients
<1>7. SenderHeard'
    BY DEF SenderHeard, Passing, Alive
<1>8. HeardInOrder'
    BY DEF HeardInOrder
<1>9. MeantWasTold'
    BY DEF MeantWasTold
<1>10. RefusedOnlyWhenGone' /\ EnteredCodeMeets'
    BY DEF RefusedOnlyWhenGone, EnteredCodeMeets, Claimed
<1> QED
    BY <1>1, <1>2, <1>3, <1>4, <1>5, <1>6, <1>7, <1>8, <1>9, <1>10

\* The transfer is over and the sender is told so: its last message.
LEMMA RelaySucceedsKeeps ==
    ASSUME ServerInv, ManagerInv, NEW r \in Receivers, RelaySucceeds(r)
    PROVE  ServerInv'
<1>1. /\ io.who = r /\ io.at \in Passing /\ io.at \in Relaying
      /\ EndTransfer(r)
    BY DEF RelaySucceeds, Busy, Relaying, Passing
<1>2. /\ claim[r] \in Sessions /\ claim[r] \in Clients /\ claim[r] # r
      /\ conn[claim[r]] = "owned"
    BY <1>1, ServerAssumption DEF ServerInv, IoWorksFor, Clients
<1>3. /\ heard' \in [Clients -> Seq({"code", "metadata", "ack", "error"})]
      /\ \A y \in Clients : y # claim[r] => heard'[y] = heard[y]
      /\ Alive(claim[r]) => heard'[claim[r]] = Append(heard[claim[r]], "ack")
      /\ ~Alive(claim[r]) => heard'[claim[r]] = heard[claim[r]]
    BY <1>2, TellEffect DEF RelaySucceeds, ServerInv
<1>4. \/ heard[claim[r]] = <<"code", "ack">>
      \/ ~Alive(claim[r]) /\ heard[claim[r]] \in {<<>>, <<"code">>}
    BY <1>1, <1>2 DEF ServerInv, SenderHeard
<1>5. heard'[claim[r]] \in {<<>>, <<"code">>, <<"code", "ack">>,
                            <<"code", "ack", "ack">>}
  <2>1. Append(<<"code", "ack">>, "ack") = <<"code", "ack", "ack">>
    BY AppendToTwo
  <2>2. CASE Alive(claim[r])
    BY <1>3, <1>4, <2>1, <2>2
  <2>3. CASE ~Alive(claim[r])
    BY <1>3, <1>4, <2>3
  <2> QED
    BY <2>2, <2>3
<1>6. HeardInOrder'
    BY <1>2, <1>3, <1>5, ServerAssumption DEF HeardInOrder, ServerInv, Clients
<1> QED
    BY <1>1, <1>3, <1>6, EndKeeps

\* The transfer is refused: an error is the last message of either peer.
LEMMA RelayRefusedKeeps ==
    ASSUME ServerInv, ManagerInv, NEW r \in Receivers, RelayRefused(r)
    PROVE  ServerInv'
<1>1. /\ io.who = r /\ io.at \in Passing /\ io.at \in Relaying
      /\ EndTransfer(r)
    BY DEF RelayRefused, Busy, Relaying, Passing
<1>2. /\ claim[r] \in Sessions /\ claim[r] \in Clients /\ claim[r] # r
      /\ conn[claim[r]] = "owned" /\ r \in Clients
    BY <1>1, ServerAssumption DEF ServerInv, IoWorksFor, Clients
<1>3. \A y \in Clients :
          /\ Tell(y, "error")[y] \in Seq({"code", "metadata", "ack", "error"})
          /\ Alive(y) => Tell(y, "error")[y] = Append(heard[y], "error")
          /\ ~Alive(y) => Tell(y, "error")[y] = heard[y]
    BY TellEffect DEF ServerInv
<1>4. /\ heard' \in [Clients -> Seq({"code", "metadata", "ack", "error"})]
      /\ \A y \in Clients : y # r /\ y # claim[r] => heard'[y] = heard[y]
      /\ \A y \in Clients : heard'[y] = heard[y] \/
             (Alive(y) /\ heard'[y] = Append(heard[y], "error"))
  <2>1. PICK told \in {{r}, {r, claim[r]}} :
            heard' = [y \in Clients |-> IF y \in told THEN Tell(y, "error")[y]
                                       ELSE heard[y]]
    BY DEF RelayRefused
  <2>2. \A y \in Clients : heard[y] \in Seq({"code", "metadata", "ack", "error"})
    BY DEF ServerInv, PeersTyped
  <2> QED
    BY <1>2, <1>3, <2>1, <2>2
<1>5. \/ heard[claim[r]] = <<"code", "ack">>
      \/ ~Alive(claim[r]) /\ heard[claim[r]] \in {<<>>, <<"code">>}
    BY <1>1, <1>2 DEF ServerInv, SenderHeard
<1>6. heard[r] = <<"metadata">> \/ (~Alive(r) /\ heard[r] = <<>>)
    BY <1>1 DEF ServerInv, IoWorksFor, Passing
<1>7. /\ heard'[claim[r]] \in {<<>>, <<"code">>, <<"code", "ack">>,
                               <<"code", "ack", "error">>}
      /\ heard'[r] \in {<<>>, <<"metadata">>, <<"metadata", "error">>}
  <2>1. heard'[claim[r]] \in {<<>>, <<"code">>, <<"code", "ack">>,
                              <<"code", "ack", "error">>}
    <3>1. Append(<<"code", "ack">>, "error") = <<"code", "ack", "error">>
      BY AppendToTwo
    <3> QED
      BY <1>2, <1>4, <1>5, <3>1
  <2>2. heard'[r] \in {<<>>, <<"metadata">>, <<"metadata", "error">>}
    BY <1>2, <1>4, <1>6, AppendToOne
  <2> QED
    BY <2>1, <2>2
<1>8. HeardInOrder'
    BY <1>2, <1>4, <1>7, ServerAssumption DEF HeardInOrder, ServerInv, Clients
<1> QED
    BY <1>1, <1>4, <1>8, EndKeeps

\* The transfer breaks off and nobody is told.
LEMMA TransferThrowsKeeps ==
    ASSUME ServerInv, ManagerInv, NEW r \in Receivers, TransferThrows(r)
    PROVE  ServerInv'
<1>1. io.who = r /\ io.at \in Relaying /\ EndTransfer(r)
    BY DEF TransferThrows, Busy, Relaying
<1>2. HeardInOrder'
    BY DEF TransferThrows, HeardInOrder, ServerInv
<1> QED
    BY <1>1, <1>2, EndKeeps DEF TransferThrows, ServerInv, PeersTyped

\* The controller removes the senders that waited too long. Their connections are
\* closed unless the io thread is about to send the code; a sender in a transfer
\* is not in the map and is not touched.
LEMMA SweepKeeps ==
    ASSUME ServerInv, ManagerInv, Sweep
    PROVE  ServerInv'
<1>a. /\ senders_sessions' =
             [c \in DOMAIN senders_sessions \ Expired |-> senders_sessions[c]]
      /\ terminated' = terminated \cup
             {senders_sessions[c].client_session : c \in Expired}
      /\ UNCHANGED <<caller, session_id, code, claim, peerVars, heard, accepting, io>>
    BY DEF Sweep, TerminateTimeoutClients, Restrict
<1>b. \A y \in Sessions : Waiting(y)' => Waiting(y) /\ y \notin terminated'
    BY <1>a DEF Waiting, ManagerInv, EntryOwned, Expired
<1>c. \A y \in Sessions : Waiting(y) => Waiting(y)' \/ y \in terminated' \ terminated
    BY <1>a DEF Waiting, ManagerInv, EntryOwned, Expired
<1>d. \A y \in terminated' \ terminated : y \in Sessions /\ Waiting(y)
    BY <1>a DEF Waiting, Expired, ManagerInv, TypeOK, TimedClientSession
<1>e. /\ conn' \in [Clients -> Early \cup {"owned", "closed"}]
      /\ conn'[io.who] = conn[io.who] \/ io.who = None
      /\ \A y \in Clients : y \in terminated' \ terminated /\ io.who # y
             => conn[y] = "owned" /\ conn'[y] = "closed"
      /\ \A y \in Clients : y \notin terminated' \ terminated \/ io.who = y
             => conn'[y] = conn[y]
    BY <1>d DEF Sweep, ServerInv, PeersTyped, OwnedByOne
<1> USE DEF ServerInv, peerVars
<1>1. PeersTyped'
    BY <1>a, <1>e DEF PeersTyped
<1>2. CodeEntered'
    BY <1>a DEF CodeEntered
<1>3. Unread'
    BY <1>a, <1>e DEF Unread
<1>4. EarlyIsNew'
  <2>1. \A y \in Clients : conn'[y] \in Early => conn[y] \in Early
    BY <1>e DEF Early
  <2>2. \A y \in Clients : client'[y] = "off" => conn'[y] = "none"
    BY <1>a, <1>e DEF EarlyIsNew
  <2> QED
    BY <1>a, <2>1, <2>2 DEF EarlyIsNew, Clients
<1>5. IoWorksFor'
  <2>1. io.at \in Relaying => conn'[claim[io.who]] = "owned"
    BY <1>d, <1>e, ClaimedNotWaiting DEF IoWorksFor, Clients
  <2> QED
    BY <1>a, <1>e, <2>1, NamesAssumption, ServerAssumption
    DEF IoWorksFor, Alive, Relaying, Clients
<1>6. OwnedByOne'
    BY <1>a, <1>b, <1>c, <1>d, <1>e DEF OwnedByOne, HeldByIo, Clients
<1>7. SenderHeard'
    BY <1>a, <1>e DEF SenderHeard, Passing, Alive, Clients
<1>8. HeardInOrder'
    BY <1>a DEF HeardInOrder
<1>9. MeantWasTold'
    BY <1>a DEF MeantWasTold
<1>10. RefusedOnlyWhenGone' /\ EnteredCodeMeets'
    BY <1>a DEF RefusedOnlyWhenGone, EnteredCodeMeets, Claimed
<1> QED
    BY <1>1, <1>2, <1>3, <1>4, <1>5, <1>6, <1>7, <1>8, <1>9, <1>10

\* A second passes: nobody enters or leaves the map.
LEMMA SecondPassesKeeps ==
    ASSUME ServerInv, ManagerInv, SecondPasses
    PROVE  ServerInv'
<1> USE DEF ServerInv, PeersTyped, ManagerInv, SecondPasses, Tick, peerVars,
            clockVars
<1>w. \A y \in Sessions : Waiting(y)' <=> Waiting(y)
    BY DEF Waiting, Later
<1>1. PeersTyped'
  <2> DEFINE n == IF io.left > 0 THEN io.left - 1 ELSE 0
  <2>1. io.left \in 0 .. REFUSAL_DELAY /\ n \in 0 .. REFUSAL_DELAY
    BY ServerAssumption
  <2>2. io' = [io EXCEPT !.left = n]
    OBVIOUS
  <2> HIDE DEF n
  <2>3. io' \in [at : IoPlaces, who : Clients \cup {None}, left : 0 .. REFUSAL_DELAY]
    BY <2>1, <2>2
  <2> QED
    BY <2>3
<1>2. CodeEntered'
    BY DEF CodeEntered
<1>3. Unread'
    BY DEF Unread
<1>4. EarlyIsNew'
    BY DEF EarlyIsNew
<1>5. IoWorksFor'
    BY DEF IoWorksFor, Relaying, Alive
<1>6. OwnedByOne'
    BY <1>w DEF OwnedByOne, HeldByIo
<1>7. SenderHeard'
    BY DEF SenderHeard, Passing, Alive
<1>8. HeardInOrder'
    BY DEF HeardInOrder
<1>9. MeantWasTold'
    BY DEF MeantWasTold
<1>10. RefusedOnlyWhenGone' /\ EnteredCodeMeets'
    BY DEF RefusedOnlyWhenGone, EnteredCodeMeets, Claimed
<1> QED
    BY <1>1, <1>2, <1>3, <1>4, <1>5, <1>6, <1>7, <1>8, <1>9, <1>10

-----------------------------------------------------------------------------
(* The invariant, and the manager's along with it. *)

\* Before anybody connects.
LEMMA ServerInvInit == Init => ServerInv
<1> SUFFICES ASSUME Init PROVE ServerInv
    OBVIOUS
<1> USE DEF Init, ManagerInit, Idle, ServerInv
<1>1. PeersTyped
    BY ServerAssumption DEF PeersTyped, IoPlaces, Early
<1>2. CodeEntered /\ Unread
    BY DEF CodeEntered, Unread, Clients
<1>3. EarlyIsNew
    BY DEF EarlyIsNew, Clients
<1>4. IoWorksFor
    BY DEF IoWorksFor, Relaying
<1>5. OwnedByOne
    BY DEF OwnedByOne, Waiting, Clients
<1>6. SenderHeard
    BY DEF SenderHeard, Passing, Clients
<1>7. HeardInOrder /\ MeantWasTold
    BY DEF HeardInOrder, MeantWasTold, Clients
<1>8. RefusedOnlyWhenGone /\ EnteredCodeMeets
    BY NamesAssumption DEF RefusedOnlyWhenGone, EnteredCodeMeets
<1> QED
    BY <1>1, <1>2, <1>3, <1>4, <1>5, <1>6, <1>7, <1>8

\* The server calls its manager from one thread and with codes that are codes:
\* each of its steps is a step of the manager or leaves the manager alone.
LEMMA StepOfManager ==
    ASSUME ServerInv, [Next]_vars
    PROVE  [ManagerNext]_managerVars
<1>1. ASSUME NEW x \in Clients, Accept(x) \/ HandshakeThrows(x)
      PROVE  UNCHANGED managerVars
    BY <1>1 DEF Accept, HandshakeThrows
<1>2. ASSUME NEW x \in Clients, ReadHeader(x) \/ ReadError(x) \/ HandleInvalid(x)
      PROVE  UNCHANGED managerVars
    BY <1>2 DEF ReadHeader, ReadError, HandleInvalid
<1>3. ASSUME NEW s \in Sessions, HandleSend(s) PROVE ManagerNext
    BY <1>3 DEF HandleSend, ManagerNext, RegisterSender
<1>4. ASSUME NEW r \in Receivers, HandleReceive(r) \/ HandleUnknownCode(r)
      PROVE  ManagerNext
  <2>1. wanted[r] \in Codes
    BY <1>4 DEF HandleReceive, HandleUnknownCode, MessageRead, ServerInv, CodeEntered
  <2> QED
    BY <1>4, <2>1 DEF HandleReceive, HandleUnknownCode, ManagerNext, EnterCode
<1>5. ASSUME NEW s \in Sessions, RegisterSession(s)
      PROVE  ManagerNext \/ UNCHANGED managerVars
  <2>1. ASSUME NEW c \in Codes, DrawCode(s, c) PROVE ManagerNext
    BY <2>1 DEF DrawCode, ManagerNext, RegisterSender
  <2>2. CASE DrawAgain(s) \/ Register(s)
    BY <2>2 DEF DrawAgain, Register, ManagerNext, RegisterSender
  <2>3. CASE SendCode(s)
    BY <2>3 DEF SendCode
  <2> QED
    BY <1>5, <2>1, <2>2, <2>3 DEF RegisterSession
<1>6. ASSUME NEW r \in Receivers, RelayFile(r) PROVE UNCHANGED managerVars
    BY <1>6 DEF RelayFile, RefuseCode, SendMetadata, Confirmed, Aborted, AckSender,
                TransferThrows, Phase, EndTransfer
<1>7. CASE IoThread
    BY <1>7, <1>1, <1>2, <1>3, <1>4, <1>5, <1>6 DEF IoThread, FirstRead
<1>8. CASE Peers
    BY <1>8 DEF Peers, Connect, HandshakeDone, SendHeader, SendBody, Leave,
                UserReplies, PeerMoves, PieceReceived, PieceSent, RelaySucceeds,
                RelayRefused, Phase, EndTransfer
<1>9. CASE Sweep
    BY <1>9 DEF Sweep, ManagerNext, Controller
<1>10. CASE SecondPasses
    BY <1>10 DEF SecondPasses, ManagerNext, Controller
<1>11. CASE UNCHANGED vars
    BY <1>11 DEF vars
<1> QED
    BY <1>7, <1>8, <1>9, <1>10, <1>11 DEF Next

\* A step that changes nothing.
LEMMA StutterKeeps ==
    ASSUME ServerInv, UNCHANGED vars
    PROVE  ServerInv'
<1> USE DEF vars, serverVars, managerVars, ServerInv
<1>w. \A y \in Sessions : Waiting(y)' <=> Waiting(y)
    BY DEF Waiting
<1>1. PeersTyped' /\ CodeEntered' /\ Unread'
    BY DEF PeersTyped, CodeEntered, Unread
<1>2. EarlyIsNew' /\ IoWorksFor'
    BY DEF EarlyIsNew, IoWorksFor, Alive
<1>3. OwnedByOne' /\ SenderHeard'
    BY <1>w DEF OwnedByOne, HeldByIo, SenderHeard, Passing, Alive
<1>4. HeardInOrder' /\ MeantWasTold' /\ RefusedOnlyWhenGone' /\ EnteredCodeMeets'
    BY DEF HeardInOrder, MeantWasTold, RefusedOnlyWhenGone, EnteredCodeMeets,
           Claimed
<1> QED
    BY <1>1, <1>2, <1>3, <1>4

\* One step of the server.
LEMMA ServerInvStep ==
    ServerInv /\ ManagerInv /\ [Next]_vars => ServerInv' /\ ManagerInv'
<1> SUFFICES ASSUME ServerInv, ManagerInv, [Next]_vars
             PROVE  ServerInv' /\ ManagerInv'
    OBVIOUS
<1>1. ManagerInv'
    BY StepOfManager, InvStep
<1>2. ASSUME NEW x \in Clients, Accept(x) \/ HandshakeThrows(x) \/ FirstRead(x)
      PROVE  ServerInv'
    BY <1>2, AcceptKeeps, HandshakeThrowsKeeps, ReadHeaderKeeps, ReadErrorKeeps,
       HandleInvalidKeeps, HandleSendKeeps, HandleReceiveKeeps,
       HandleUnknownCodeKeeps DEF FirstRead
<1>3. ASSUME NEW s \in Sessions, RegisterSession(s)
      PROVE  ServerInv'
    BY <1>3, DrawCodeKeeps, DrawAgainKeeps, RegisterKeeps, SendCodeKeeps
    DEF RegisterSession
<1>4. ASSUME NEW r \in Receivers, RelayFile(r)
      PROVE  ServerInv'
    BY <1>4, RefuseCodeKeeps, SendMetadataKeeps, ConfirmedKeeps, AbortedKeeps,
       AckSenderKeeps, TransferThrowsKeeps
    DEF RelayFile
<1>5. ASSUME NEW x \in Clients,
             \/ Connect(x) \/ HandshakeDone(x) \/ SendHeader(x)
             \/ SendBody(x) \/ Leave(x)
      PROVE  ServerInv'
    BY <1>5, ConnectKeeps, HandshakeDoneKeeps, SendHeaderKeeps, SendBodyKeeps,
       LeaveKeeps
<1>6. ASSUME NEW r \in Receivers, UserReplies(r) \/ PeerMoves(r)
      PROVE  ServerInv'
    BY <1>6, UserRepliesKeeps, PieceKeeps, RelaySucceedsKeeps, RelayRefusedKeeps
    DEF PeerMoves
<1>7. CASE Peers
    BY <1>1, <1>5, <1>6, <1>7 DEF Peers
<1> QED
    BY <1>1, <1>2, <1>3, <1>4, <1>7, SweepKeeps, SecondPassesKeeps, StutterKeeps
    DEF Next, IoThread

-----------------------------------------------------------------------------
(* The theorems. *)

\* The server's invariant, and the manager's while this server uses it.
THEOREM ServerInvariance == SafetySpec => [](ServerInv /\ ManagerInv)
<1>1. Init => ServerInv /\ ManagerInv
    BY ServerInvInit, InvInit DEF Init
<1> QED
    BY <1>1, ServerInvStep, PTL DEF SafetySpec

\* What is proved about the manager holds while this server uses it.
LEMMA ManagerWithin == SafetySpec => ManagerSafetySpec
<1>1. Init => ManagerInit
    BY DEF Init
<1>2. ServerInv /\ [Next]_vars => [ManagerNext]_managerVars
    BY StepOfManager
<1> QED
    BY <1>1, <1>2, ServerInvariance, PTL
    DEF SafetySpec, ManagerSafetySpec

\* The running server implements the rendezvous of its senders and receivers:
\* the code a receiver sent in its first message meets the sender on offer under
\* that code when the io thread handles it, or is refused because there is none.
THEOREM ServerImplementsRendezvous == SafetySpec => ImplementsRendezvous
BY ManagerWithin, Refinement

\* The server's variables have their types, and the thread that has nothing to
\* do works for nobody.
THEOREM ServerTyped == SafetySpec => []ServerTypeOK
<1>1. ServerInv => ServerTypeOK
    BY DEF ServerInv, PeersTyped, IoWorksFor, ServerTypeOK, IoPlaces, Early
<1> QED
    BY <1>1, ServerInvariance, PTL

\* No peer hears a message its client does not wait for at that point: the one
\* thread tells a sender its code before any receiver can have claimed it.
THEOREM OrderHeard == SafetySpec => []HeardInOrder
<1>1. ServerInv => HeardInOrder
    BY DEF ServerInv
<1> QED
    BY <1>1, ServerInvariance, PTL

\* An open sender's connection is in the map or in the hands of the io thread,
\* and one in the map is open: no session is leaked, none is closed too early.
THEOREM ConnectionsOwned == SafetySpec => []OwnedByMap
<1>1. ServerInv => OwnedByMap
    BY DEF ServerInv, OwnedByOne, HeldByIo, IoWorksFor, OwnedByMap
<1> QED
    BY <1>1, ServerInvariance, PTL

\* The server refuses the code of a sender who was told it only after that sender
\* was claimed or terminated.
THEOREM RefusalsJustified == SafetySpec => []RefusedOnlyWhenGone
<1>1. ServerInv => RefusedOnlyWhenGone
    BY DEF ServerInv
<1> QED
    BY <1>1, ServerInvariance, PTL

\* A receiver is given the sender under the code it entered, and another one than
\* it meant only after that one was claimed or terminated.
THEOREM CodesMeet == SafetySpec => []EnteredCodeMeets
<1>1. ServerInv => EnteredCodeMeets
    BY DEF ServerInv
<1> QED
    BY <1>1, ServerInvariance, PTL
=============================================================================
