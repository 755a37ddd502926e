------------------------- MODULE InitSessionMessage -------------------------
(***************************************************************************)
(* The first message of a connection, from the bytes that arrive to the    *)
(* last place that reads a key of it: InitSessionMessage::create decides   *)
(* whether it is accepted; handleFirstRead, registerSession and receiveFile*)
(* at the server, and the receiving client, then take keys out of it.      *)
(*                                                                         *)
(* What create throws is answered by a disconnect. A json exception that   *)
(* any later access throws at the server is caught by nobody: it leaves    *)
(* io_context.run() and ends the server with all its sessions.             *)
(*                                                                         *)
(* Of a JSON value only its type matters, and of the action its text. A    *)
(* message is what was parsed: nothing, something that is no object, or an *)
(* object with a type for every key it has.                                *)
(***************************************************************************)

ACTION_KEY == "action"
FILENAME_KEY == "filename"
FILE_SIZE_KEY == "file_size"
FILE_HASH_KEY == "file_hash"
IS_COMPRESSED_KEY == "is_compressed"
CODE_WORDS_KEY == "code_words_key"

SendKeys == {FILENAME_KEY, FILE_SIZE_KEY, FILE_HASH_KEY, IS_COMPRESSED_KEY}
Keys == SendKeys \cup {CODE_WORDS_KEY, ACTION_KEY}

\* "number" is a negative or fractional one.
JsonTypes == {"string", "unsigned", "number", "boolean", "null"}

Messages ==
    [parsed : {"nothing", "no_object"}, type : {[k \in Keys |-> "absent"]},
     action : {"other"}] \cup
    [parsed : {"object"}, type : [Keys -> JsonTypes \cup {"absent"}],
     action : {"send", "receive", "other"}]

VARIABLES json,  \* the message
          own,   \* was it made by createSendMessage or createReceiveMessage
          pc     \* how far it got

vars == <<json, own, pc>>

CreateSendMessage ==
    [parsed |-> "object", action |-> "send",
     type |-> [k \in Keys |-> CASE k = CODE_WORDS_KEY -> "absent"
                                [] k = FILE_SIZE_KEY -> "unsigned"
                                [] k = IS_COMPRESSED_KEY -> "boolean"
                                [] OTHER -> "string"]]

CreateReceiveMessage ==
    [parsed |-> "object", action |-> "receive",
     type |-> [k \in Keys |-> IF k \in SendKeys THEN "absent" ELSE "string"]]

Init ==
    /\ json \in Messages
    /\ json.action = "other" \/ json.type[ACTION_KEY] = "string"
    /\ own = (json \in {CreateSendMessage, CreateReceiveMessage})
    /\ pc = "arrived"

-----------------------------------------------------------------------------
(* InitSessionMessage::create and the functions it calls. *)

ValidateSingleKeyExists(key) ==
    json.parsed = "object" /\ json.type[key] # "absent"

\* Mistake: the type of the value is not looked at.
ValidateAnyKey(key) == TRUE

ValidateStringKey(key) == json.type[key] = "string"

ValidateActionKey ==
    /\ ValidateSingleKeyExists(ACTION_KEY)
    /\ ValidateStringKey(ACTION_KEY)
    /\ json.action \in {"send", "receive"}

\* Mistake: the key of a receiver is asked of a sender too.
ValidateAllKeysExist == \A key \in Keys : ValidateSingleKeyExists(key)

ValidateKeysExist == \A key \in SendKeys : ValidateSingleKeyExists(key)

ValidateKeysTypes ==
    /\ ValidateStringKey(FILENAME_KEY)
    /\ ValidateStringKey(FILE_HASH_KEY)
    /\ json.type[FILE_SIZE_KEY] = "unsigned"
    /\ json.type[IS_COMPRESSED_KEY] = "boolean"

Validate ==
    /\ ValidateActionKey
    /\ IF json.action = "send"
       THEN ValidateKeysExist /\ ValidateKeysTypes
       ELSE /\ ValidateSingleKeyExists(CODE_WORDS_KEY)
            /\ ValidateStringKey(CODE_WORDS_KEY)

-----------------------------------------------------------------------------
(* Where the message is used. *)

\* get<T>() of a key: any other type, and a key that is absent, throws.
GetString(key) == json.type[key] = "string"
GetBool(key) == json.type[key] = "boolean"
GetSize(key) == json.type[key] \in {"unsigned", "number"}

\* The step from one place to the next, if no access of it throws.
Goes(from, gets, to, otherwise) ==
    /\ pc = from
    /\ pc' = IF gets THEN to ELSE otherwise
    /\ UNCHANGED <<json, own>>

\* What create throws is caught, and the connection closed.
Create == Goes("arrived", Validate, "created", "refused")

HandleFirstRead ==
    Goes("created", GetString(ACTION_KEY), "registering", "terminated")

RegisterSend ==
    json.action = "send" /\ Goes("registering", TRUE, "registered", "registered")

RegisterReceive ==
    /\ json.action # "send"
    /\ Goes("registering", GetString(CODE_WORDS_KEY), "asked", "terminated")

\* A receiver came: its client reads the metadata of this sender.
GetServerResponse ==
    Goes("registered",
         /\ GetBool(IS_COMPRESSED_KEY)
         /\ GetString(FILENAME_KEY)
         /\ GetSize(FILE_SIZE_KEY),
         "confirmed", "not_understood")

\* Another program confirms, whatever it makes of the metadata.
ForeignConfirms == Goes("registered", TRUE, "confirmed", "confirmed")

\* The server's receiveFile, once the receiver has confirmed.
ServerReceiveFile ==
    Goes("confirmed", GetString(FILENAME_KEY) /\ GetSize(FILE_SIZE_KEY),
         "relayed", "terminated")

\* The client's receiveFile, on the way to the comparison of the hashes.
ClientReceiveFile ==
    Goes("relayed", /\ GetString(FILENAME_KEY)
                    /\ GetBool(IS_COMPRESSED_KEY)
                    /\ GetSize(FILE_SIZE_KEY)
                    /\ GetString(FILE_HASH_KEY),
         "received", "not_understood")

Ended == pc \in {"refused", "asked", "received", "terminated", "not_understood"}

Next ==
    \/ Create \/ HandleFirstRead \/ RegisterSend \/ RegisterReceive
    \/ GetServerResponse \/ ForeignConfirms \/ ServerReceiveFile \/ ClientReceiveFile
    \/ Ended /\ UNCHANGED vars

Spec == Init /\ [][Next]_vars

-----------------------------------------------------------------------------
(* Properties. *)

\* No message makes the server read a key that is absent or of another type,
\* at once or when a receiver asks for the file much later: nothing would catch
\* that exception, and the server would end.
ServerSurvives == pc # "terminated"

\* The receiver's client can read the metadata of every sender the server has
\* accepted, up to the hash that it needs last, after the whole transfer.
MetadataUnderstood == pc # "not_understood"

\* What createSendMessage and createReceiveMessage write is what create takes.
OwnMessageAccepted == own => pc # "refused"
=============================================================================
