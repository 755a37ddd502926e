----------------------------- MODULE ClientFiles -----------------------------
(***************************************************************************)
(* The files of the clients that run on one machine. Every sending client  *)
(* keeps the archive it made in the one directory drop-file/sender, every  *)
(* receiving client the archive it receives in drop-file/receiver; each    *)
(* client empties its directory when it starts and removes it when it      *)
(* ends, whoever else is using it. A sender's RAIIFSEntry removes its       *)
(* archive.                                                                *)
(*                                                                         *)
(* A client creates at most one file, so a file is named after the client  *)
(* that created it. A file that lost its name keeps its content for those  *)
(* who have it open. The transfer itself is Transfer.tla; here every byte  *)
(* that was announced arrives.                                             *)
(***************************************************************************)
EXTENDS Naturals, FiniteSets, Functions

CONSTANTS Clients,  \* processes that run a client
          Names,    \* file names of archives
          None      \* no file, no content

\* What a directory may hold: archive names, each with its file.
Directories == UNION {[N -> Clients] : N \in SUBSET Names}

ASSUME ClientsAssumption == None \notin Clients \cup Directories

Roles == {"send", "receive"}

VARIABLES role,       \* is it a DropFileSendClient or a DropFileReceiveClient
          pc,         \* how far each client is
          failed,     \* clients that threw because of these files
          name,       \* the name of each client's archive
          packs,      \* does it handle an archive, or a plain file
          tmp,        \* the two directories: name -> file, or None
          content,    \* of each file: who wrote to it, who has finished
          handle,     \* the file each client writes to
          entry,      \* a sender's RAIIFSEntry
          announced,  \* the content each sender announced
          used,       \* the content it sent, or that a receiver unpacked
          disturbed,  \* clients that ran at the same time as another
          late        \* receivers disturbed after they compared the hash

request == <<role, name, packs>>
vars == <<request, pc, failed, tmp, content, handle, entry, announced, used,
          disturbed, late>>

Senders == {c \in Clients : role[c] = "send"}
Receivers == {c \in Clients : role[c] = "receive"}
Others(c) == {x \in Clients \ {c} : role[x] = role[c]}
Running(c) == pc[c] \notin {"new", "ended", "crashed"}

Empty == [n \in {} |-> None]
Exists(c) == tmp[role[c]] # None
Here(c) == Exists(c) /\ name[c] \in DOMAIN tmp[role[c]]

\* What a reader finds at the path of the client's archive, and what should be
\* there: written by that client alone, and to the end.
Found(c) == content[tmp[role[c]][name[c]]]
Whole(c) == [by |-> {c}, whole |-> {c}]

OwnEntry == [path |-> "own", should_remove |-> FALSE]
ArchiveEntry == [path |-> "archive", should_remove |-> TRUE]

Init ==
    /\ role \in [Clients -> Roles]
    /\ pc = [c \in Clients |-> "new"]
    /\ failed = {}
    /\ name \in [Clients -> Names]
    /\ packs \in [Clients -> BOOLEAN]
    /\ \A r \in Receivers : packs[r]
    /\ tmp = [d \in Roles |-> None]
    /\ content = [c \in Clients |-> [by |-> {}, whole |-> {}]]
    /\ handle = [c \in Clients |-> None]
    /\ entry = [c \in Clients |-> OwnEntry]
    /\ announced = [c \in Clients |-> None]
    /\ used = [c \in Clients |-> None]
    /\ disturbed = {}
    /\ late = {}

-----------------------------------------------------------------------------
(* Effects on the files. *)

\* The client changes the directory while a receiver is about to unpack.
Meddle(c) ==
    late' = late \cup {r \in Others(c) : pc[r] = "unpack"}

\* remove_all of the directory.
RemoveAll(c) == tmp' = [tmp EXCEPT ![role[c]] = None] /\ Meddle(c)

\* remove or remove_all of one path in it, whoever created what is there.
RemoveArchive(c) ==
    tmp' = IF Here(c)
           THEN [tmp EXCEPT ![role[c]] = Restrict(@, DOMAIN @ \ {name[c]})]
           ELSE tmp

\* RAIIFSEntry's destructor. Only createArchive makes entries that remove.
Destroy(c, e) == IF e = ArchiveEntry THEN RemoveArchive(c) ELSE UNCHANGED tmp

\* Mistake: the entry that was moved from still removes the path.
MovedFromKeeps(e) == e

\* What is left of an entry that was moved.
MovedFrom(e) == [e EXCEPT !.should_remove = FALSE]

Goes(c, to) == pc' = [pc EXCEPT ![c] = to]

\* An exception leaves the client's function; destructors run, then main ends.
Unwinds(c) == Goes(c, IF c \in Senders THEN "destroy" ELSE "close")
Throws(c) == failed' = failed \cup {c} /\ Unwinds(c)

-----------------------------------------------------------------------------
(* The constructors: the directory is removed, then created. *)

\* From now on the client runs, and next to those that are running.
Joins(c) ==
    LET others == {x \in Others(c) : Running(x)}
    IN  disturbed' = disturbed \cup
                         (IF others = {} THEN {} ELSE others \cup {c})

Construct(c) ==
    /\ pc[c] = "new"
    /\ Joins(c)
    /\ RemoveAll(c)
    /\ Goes(c, "create")
    /\ UNCHANGED <<failed, request, content, handle, entry, announced, used>>

CreateDirectories(c) ==
    /\ pc[c] = "create"
    /\ tmp' = [tmp EXCEPT ![role[c]] = IF Exists(c) THEN @ ELSE Empty]
    /\ Goes(c, IF packs[c] THEN "check" ELSE "announce")
    /\ UNCHANGED <<failed, request, content, handle, entry, announced, used,
                   disturbed, late>>

-----------------------------------------------------------------------------
(* Writing the archive: createArchive and, at the receiver, receiveFileImpl *)
(* look at the path, open it, and write. Neither looks whether it is open.  *)

CheckPath(c) ==
    /\ pc[c] = "check"
    /\ IF Here(c) THEN Throws(c) ELSE Goes(c, "open") /\ UNCHANGED failed
    /\ UNCHANGED <<request, tmp, content, handle, entry, announced, used,
                   disturbed, late>>

\* A file that has appeared meanwhile is truncated, and then has two writers
\* if the first has not finished.
OpenPath(c) ==
    /\ pc[c] = "open"
    /\ Goes(c, "write")
    /\ Meddle(c)
    /\ IF Exists(c)
       THEN LET f == IF Here(c) THEN tmp[role[c]][name[c]] ELSE c
            IN  /\ handle' = [handle EXCEPT ![c] = f]
                /\ content' = [content EXCEPT ![f] =
                       [by |-> {c} \cup (@.by \ @.whole), whole |-> {}]]
                /\ tmp' = [tmp EXCEPT ![role[c]] =
                       [n \in DOMAIN @ \cup {name[c]} |->
                           IF n = name[c] THEN f ELSE @[n]]]
       ELSE UNCHANGED <<handle, content, tmp>>
    /\ UNCHANGED <<failed, request, entry, announced, used, disturbed>>

WriteArchive(c) ==
    /\ pc[c] = "write"
    /\ content' = [f \in Clients |->
                      IF f = handle[c]
                      THEN [content[f] EXCEPT !.whole = @ \cup {c}]
                      ELSE content[f]]
    /\ IF c \in Senders
       THEN Goes(c, "announce") /\ entry' = [entry EXCEPT ![c] = ArchiveEntry]
       ELSE Goes(c, "validate") /\ UNCHANGED entry
    /\ UNCHANGED <<failed, request, tmp, handle, announced, used, disturbed,
                   late>>

-----------------------------------------------------------------------------
(* DropFileSendClient *)

\* createSendMessage takes size and hash; then the entry is moved to the
\* caller, and what is left of it destroyed.
Announce(s) ==
    /\ pc[s] = "announce"
    /\ IF packs[s] /\ ~Here(s)
       THEN Throws(s) /\ UNCHANGED <<tmp, announced>>
       ELSE /\ announced' = [announced EXCEPT ![s] =
                                IF packs[s] THEN Found(s) ELSE Whole(s)]
            /\ Destroy(s, MovedFrom(entry[s]))
            /\ Goes(s, "await")
            /\ UNCHANGED failed
    /\ UNCHANGED <<request, content, handle, entry, used, disturbed, late>>

\* The receiver has confirmed: the path is opened again and its content sent.
Send(s) ==
    /\ pc[s] = "await"
    /\ IF packs[s] /\ ~Here(s)
       THEN Throws(s) /\ UNCHANGED used
       ELSE /\ used' = [used EXCEPT ![s] = IF packs[s] THEN Found(s) ELSE Whole(s)]
            /\ Goes(s, "destroy")
            /\ UNCHANGED failed
    /\ UNCHANGED <<request, tmp, content, handle, entry, announced, disturbed,
                   late>>

DestroyEntry(s) ==
    /\ pc[s] = "destroy"
    /\ Destroy(s, entry[s])
    /\ Goes(s, "close")
    /\ UNCHANGED <<failed, request, content, handle, entry, announced, used,
                   disturbed, late>>

-----------------------------------------------------------------------------
(* DropFileReceiveClient *)

\* Mistake: the file need only be there.
HashMatchesAny(r) == Here(r)

HashMatches(r) == Here(r) /\ Found(r) = Whole(r)

ValidateFileHash(r) ==
    /\ pc[r] = "validate"
    /\ IF HashMatches(r) THEN Goes(r, "unpack") /\ UNCHANGED failed ELSE Throws(r)
    /\ UNCHANGED <<request, tmp, content, handle, entry, announced, used,
                   disturbed, late>>

\* handleCompressedFile opens the archive by its path, and removes it by that.
HandleCompressedFile(r) ==
    /\ pc[r] = "unpack"
    /\ IF Here(r)
       THEN /\ used' = [used EXCEPT ![r] = Found(r)]
            /\ RemoveArchive(r)
            /\ Goes(r, "close")
            /\ UNCHANGED failed
       ELSE Throws(r) /\ UNCHANGED <<used, tmp>>
    /\ UNCHANGED <<request, content, handle, entry, announced, disturbed,
                   late>>

-----------------------------------------------------------------------------
\* Mistake: only the archive is removed.
CloseOwn(c) == RemoveArchive(c) /\ UNCHANGED late

Close(c) == RemoveAll(c)

\* The client's destructor.
Destruct(c) ==
    /\ pc[c] = "close"
    /\ Close(c)
    /\ Goes(c, "ended")
    /\ UNCHANGED <<failed, request, content, handle, entry, announced, used,
                   disturbed>>

\* Another client puts an archive into the directory that is being emptied. It
\* cannot be removed, and what is thrown ends the process: the object was never
\* constructed, or its destructor lets no exception out.
RemoveAllThrows(c) ==
    /\ pc[c] \in {"new", "close"} /\ Exists(c)
    /\ \E x \in Others(c) : Running(x)
    /\ \E left \in SUBSET DOMAIN tmp[role[c]] :
           tmp' = [tmp EXCEPT ![role[c]] = Restrict(@, left)]
    /\ Meddle(c)
    /\ Joins(c)
    /\ failed' = failed \cup {c}
    /\ Goes(c, "crashed")
    /\ UNCHANGED <<request, content, handle, entry, announced, used>>

\* Packing throws, the connection breaks, or the other user does not agree.
GivesUp(c) ==
    /\ pc[c] \in {"write", "await"}
    /\ Unwinds(c)
    /\ UNCHANGED <<failed, request, tmp, content, handle, entry, announced,
                   used, disturbed, late>>

\* The process is killed, by the user who no longer wants to wait for one.
Crash(c) ==
    /\ Running(c)
    /\ Goes(c, "crashed")
    /\ UNCHANGED <<failed, request, tmp, content, handle, entry, announced,
                   used, disturbed, late>>

AllEnded == \A c \in Clients : pc[c] \in {"ended", "crashed"}

Next ==
    \/ \E c \in Clients :
           \/ Construct(c) \/ CreateDirectories(c)
           \/ CheckPath(c) \/ OpenPath(c) \/ WriteArchive(c)
           \/ Destruct(c) \/ RemoveAllThrows(c) \/ GivesUp(c) \/ Crash(c)
    \/ \E s \in Senders : Announce(s) \/ Send(s) \/ DestroyEntry(s)
    \/ \E r \in Receivers : ValidateFileHash(r) \/ HandleCompressedFile(r)
    \/ AllEnded /\ UNCHANGED vars

Spec == Init /\ [][Next]_vars

-----------------------------------------------------------------------------
(* Properties. *)

\* A client that ran alone does what it was asked to do, although it uses the
\* directory others have used, and although some of those were killed and left
\* their archives there: the archive is there when it is announced, there with
\* the same content when it is sent, and there after its hash was compared.
AloneWorks ==
    \A c \in Clients \ disturbed :
        /\ c \notin failed
        /\ used[c] \in {None, Whole(c)}
        /\ announced[c] \in {None, Whole(c)}

\* A receiver that shares its directory with others may fail, but it unpacks
\* nothing other than what was announced to it, unless another client came
\* between its look at the hash and its look at the archive.
WrongArchiveRefused ==
    \A r \in Receivers : used[r] \in {None, Whole(r)} \/ r \in late

\* When the last client has ended, and none was killed, nothing is left behind.
NothingLeftBehind ==
    (\A c \in Clients : pc[c] = "ended") => \A d \in Roles : tmp[d] = None
=============================================================================
