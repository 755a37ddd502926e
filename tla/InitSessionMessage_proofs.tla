---------------------- MODULE InitSessionMessage_proofs ----------------------
(***************************************************************************)
(* Proofs about InitSessionMessage: whatever first message arrives, what   *)
(* create accepts is understood at every place that reads a key of it.     *)
(***************************************************************************)
EXTENDS InitSessionMessage, TLAPS

\* Places a message reaches only after create has accepted it, and of these the
\* ones only a sender's message reaches.
AfterCreate == {"created", "registering", "asked", "registered", "confirmed",
                "relayed", "received"}
AfterRegisterSend == {"registered", "confirmed", "relayed", "received"}

\* The inductive invariant: behind create the message passed validation, and
\* behind registerSession it is a sender's, so that every key a later place
\* reads was validated with its type.
MessageInv ==
    /\ json \in Messages
    /\ own => json \in {CreateSendMessage, CreateReceiveMessage}
    /\ pc \in AfterCreate \cup {"arrived", "refused"}
    /\ pc \in AfterCreate => Validate
    /\ pc \in AfterRegisterSend => json.action = "send"
    /\ pc = "refused" => ~own

-----------------------------------------------------------------------------
\* What createSendMessage and createReceiveMessage build passes validation.
LEMMA OwnMessagesValid ==
    json \in {CreateSendMessage, CreateReceiveMessage} => Validate
<1> USE DEF Validate, ValidateActionKey, ValidateKeysExist, ValidateKeysTypes,
        ValidateSingleKeyExists, ValidateStringKey, Keys, SendKeys, ACTION_KEY,
        FILENAME_KEY, FILE_SIZE_KEY, FILE_HASH_KEY, IS_COMPRESSED_KEY,
        CODE_WORDS_KEY
<1>1. CASE json = CreateSendMessage
    BY <1>1 DEF CreateSendMessage
<1>2. CASE json = CreateReceiveMessage
    BY <1>2 DEF CreateReceiveMessage
<1> QED
    BY <1>1, <1>2

\* No access to a key that was validated throws: the keys that the server and
\* the receiving client take from a sender's message, and the server from any.
LEMMA ValidatedKeysReadable ==
    Validate =>
        /\ GetString(ACTION_KEY)
        /\ json.action # "send" => GetString(CODE_WORDS_KEY)
        /\ json.action = "send" =>
               /\ GetString(FILENAME_KEY)
               /\ GetString(FILE_HASH_KEY)
               /\ GetBool(IS_COMPRESSED_KEY)
               /\ GetSize(FILE_SIZE_KEY)
    BY DEF Validate, ValidateActionKey, ValidateKeysTypes, ValidateStringKey,
           GetString, GetBool, GetSize

\* Every step from one place to the next keeps the invariant.
LEMMA MessageStep == MessageInv /\ [Next]_vars => MessageInv'
<1> SUFFICES ASSUME MessageInv, [Next]_vars PROVE MessageInv'
    OBVIOUS
<1>1. CASE UNCHANGED vars
    BY <1>1 DEF vars, MessageInv, Validate, ValidateActionKey, ValidateKeysExist,
        ValidateKeysTypes, ValidateSingleKeyExists, ValidateStringKey
<1>2. ASSUME UNCHANGED <<json, own>> PROVE Validate' = Validate
    BY <1>2 DEF Validate, ValidateActionKey, ValidateKeysExist,
        ValidateKeysTypes, ValidateSingleKeyExists, ValidateStringKey
<1> USE DEF MessageInv, AfterCreate, AfterRegisterSend, Goes
<1>3. CASE Create
    <2>1. pc' = IF Validate THEN "created" ELSE "refused"
        BY <1>3 DEF Create
    <2>2. CASE Validate
        BY <1>2, <1>3, <2>1, <2>2 DEF Create
    <2>3. CASE ~Validate
        BY <1>2, <1>3, <2>1, <2>3, OwnMessagesValid DEF Create
    <2> QED
        BY <2>2, <2>3
<1>4. CASE HandleFirstRead
    BY <1>2, <1>4, ValidatedKeysReadable DEF HandleFirstRead
<1>5. CASE RegisterSend
    BY <1>2, <1>5 DEF RegisterSend
<1>6. CASE RegisterReceive
    BY <1>2, <1>6, ValidatedKeysReadable DEF RegisterReceive
<1>7. CASE GetServerResponse
    BY <1>2, <1>7, ValidatedKeysReadable DEF GetServerResponse
<1>8. CASE ForeignConfirms
    BY <1>2, <1>8 DEF ForeignConfirms
<1>9. CASE ServerReceiveFile
    BY <1>2, <1>9, ValidatedKeysReadable DEF ServerReceiveFile
<1>10. CASE ClientReceiveFile
    BY <1>2, <1>10, ValidatedKeysReadable DEF ClientReceiveFile
<1> QED
    BY <1>1, <1>3, <1>4, <1>5, <1>6, <1>7, <1>8, <1>9, <1>10 DEF Next, vars

\* What create accepts has been validated, at whatever place it has arrived.
THEOREM MessageInvariance == Spec => []MessageInv
<1>1. Init => MessageInv
    <2> SUFFICES ASSUME Init PROVE MessageInv
        OBVIOUS
    <2>1. own => json \in {CreateSendMessage, CreateReceiveMessage}
        BY Zenon DEF Init
    <2> QED
        BY <2>1 DEF Init, MessageInv, AfterCreate, AfterRegisterSend
<1> QED
    BY <1>1, MessageStep, PTL DEF Spec

\* No first message, whatever its keys and their types, makes the server read
\* a key that is not there or is of another type: its handlers never throw.
THEOREM ServerNeverTerminated == Spec => []ServerSurvives
<1>1. MessageInv => ServerSurvives
    BY DEF MessageInv, AfterCreate, ServerSurvives
<1> QED
    BY <1>1, MessageInvariance, PTL

\* The receiving client understands the metadata of every sender the server has
\* accepted, up to the hash it reads after the transfer.
THEOREM MetadataAlwaysUnderstood == Spec => []MetadataUnderstood
<1>1. MessageInv => MetadataUnderstood
    BY DEF MessageInv, AfterCreate, MetadataUnderstood
<1> QED
    BY <1>1, MessageInvariance, PTL

\* The server takes every message that the clients of this program write.
THEOREM OwnMessagesTaken == Spec => []OwnMessageAccepted
<1>1. MessageInv => OwnMessageAccepted
    BY DEF MessageInv, OwnMessageAccepted
<1> QED
    BY <1>1, MessageInvariance, PTL
=============================================================================
