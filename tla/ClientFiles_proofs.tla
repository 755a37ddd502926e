-------------------------- MODULE ClientFiles_proofs --------------------------
(***************************************************************************)
(* Proofs about ClientFiles, for any number of clients on a machine and    *)
(* any archive names: a client that ran alone works, a receiver unpacks    *)
(* nothing but what was announced to it unless another came in between,    *)
(* and nothing is left behind.                                             *)
(***************************************************************************)
EXTENDS ClientFiles, TLAPS

Places == {"new", "create", "check", "open", "write", "announce", "await",
           "validate", "unpack", "destroy", "close", "ended", "crashed"}

FileContents == [by : SUBSET Clients, whole : SUBSET Clients]

-----------------------------------------------------------------------------
(* The inductive invariant, in parts. *)

FilesTyped ==
    /\ role \in [Clients -> Roles]
    /\ pc \in [Clients -> Places]
    /\ name \in [Clients -> Names]
    /\ \A r \in Receivers : packs[r]
    /\ tmp \in [Roles -> Directories \cup {None}]
    /\ content \in [Clients -> FileContents]
    /\ handle \in [Clients -> Clients \cup {None}]
    /\ entry \in [Clients -> {OwnEntry, ArchiveEntry}]
    /\ announced \in [Clients -> FileContents \cup {None}]
    /\ used \in [Clients -> FileContents \cup {None}]

\* A directory holds files of its own kind of clients only.
OwnDirectory ==
    /\ \A d \in Roles : tmp[d] # None =>
           \A n \in DOMAIN tmp[d] : role[tmp[d][n]] = d
    /\ \A c \in Clients : handle[c] # None => role[handle[c]] = role[c]

\* A client that has not opened its file has no file.
NotYetThere ==
    \A c \in Clients :
        pc[c] \in {"new", "create", "check", "open"} =>
            /\ handle[c] = None
            /\ content[c] = [by |-> {}, whole |-> {}]
            /\ \A x \in Clients : handle[x] # c
            /\ \A d \in Roles : tmp[d] # None =>
                   \A n \in DOMAIN tmp[d] : tmp[d][n] # c

\* Who is writing to a file is known to have written and not to have finished.
WriterKnown ==
    \A c \in Clients :
        pc[c] = "write" /\ handle[c] # None =>
            /\ c \in content[handle[c]].by
            /\ c \notin content[handle[c]].whole

\* Two clients of a kind that run at the same time have disturbed each other.
Overlap ==
    \A c \in Clients : \A x \in Others(c) :
        Running(c) /\ Running(x) => c \in disturbed

Has(c) == Here(c) /\ tmp[role[c]][name[c]] = c

\* How far a client is that nobody has disturbed, and what it has by then.
AloneProgress ==
    \A c \in Clients \ disturbed :
        /\ pc[c] = "create" => tmp[role[c]] = None
        /\ pc[c] \in {"check", "open"} => tmp[role[c]] = Empty
        /\ pc[c] = "write" =>
               /\ Has(c)
               /\ handle[c] = c
               /\ content[c] = [by |-> {c}, whole |-> {}]
        /\ pc[c] \in {"validate", "unpack"}
                \/ (pc[c] \in {"announce", "await"} /\ packs[c]) =>
               Has(c) /\ content[c] = Whole(c)

\* What a receiver is about to unpack is what its hash was compared with.
UnpackChecked ==
    \A r \in Receivers :
        pc[r] = "unpack" /\ Here(r) => Found(r) = Whole(r) \/ r \in late

\* A directory belongs to a client that has started and has not ended.
DirectoryInUse ==
    \A d \in Roles : tmp[d] # None =>
        \E c \in Clients : role[c] = d /\ pc[c] \notin {"new", "ended"}

FilesInv ==
    /\ FilesTyped
    /\ OwnDirectory
    /\ NotYetThere
    /\ WriterKnown
    /\ Overlap
    /\ AloneProgress
    /\ UnpackChecked
    /\ DirectoryInUse
    /\ AloneWorks
    /\ WrongArchiveRefused

-----------------------------------------------------------------------------
(* What the steps do to the directories. *)

\* What is left of a directory, and all others, after some archives were removed.
Removed(c) ==
    /\ tmp' \in [Roles -> Directories \cup {None}]
    /\ \A d \in Roles :
           /\ tmp'[d] = None <=> tmp[d] = None
           /\ d # role[c] => tmp'[d] = tmp[d]
           /\ tmp[d] # None =>
                  /\ DOMAIN tmp'[d] \subseteq DOMAIN tmp[d]
                  /\ \A n \in DOMAIN tmp'[d] : tmp'[d][n] = tmp[d][n]

\* To restrict a directory that is there is to remove archives from it.
LEMMA RestrictRemoves ==
    ASSUME FilesTyped, NEW c \in Clients, Exists(c),
           NEW left \in SUBSET DOMAIN tmp[role[c]],
           tmp' = [tmp EXCEPT ![role[c]] = Restrict(tmp[role[c]], left)]
    PROVE  Removed(c)
<1> DEFINE old == tmp[role[c]]
           new == Restrict(old, left)
<1>1. role[c] \in Roles /\ old \in Directories /\ old # None
    BY DEF Exists, FilesTyped
<1>2. PICK N \in SUBSET Names : old \in [N -> Clients]
    BY <1>1 DEF Directories
<1>3. new \in [left -> Clients] /\ left \in SUBSET Names
    BY <1>2 DEF Restrict
<1>4. new \in Directories /\ new # None
    BY <1>3, ClientsAssumption DEF Directories
<1>5. tmp' = [tmp EXCEPT ![role[c]] = new]
    OBVIOUS
<1>6. /\ DOMAIN new \subseteq DOMAIN old
      /\ \A n \in DOMAIN new : new[n] = old[n]
    BY DEF Restrict
<1> HIDE DEF new
<1> QED
    BY <1>1, <1>4, <1>5, <1>6 DEF FilesTyped, Removed

\* remove_all of one archive takes at most that name from that directory.
LEMMA RemoveArchiveEffect ==
    ASSUME FilesTyped, NEW c \in Clients, RemoveArchive(c)
    PROVE  Removed(c)
<1>1. CASE ~Here(c)
    BY <1>1 DEF RemoveArchive, FilesTyped, Removed
<1>2. CASE Here(c)
    BY <1>2, RestrictRemoves DEF RemoveArchive, Here
<1> QED
    BY <1>1, <1>2

\* The file that opening the client's path leads to: the one that is there
\* already, or a new one.
OpenedFile(c) == IF Here(c) THEN tmp[role[c]][name[c]] ELSE c

\* Opening a path in a directory that is there puts that file under the name.
LEMMA OpenPathEffect ==
    ASSUME FilesTyped, NEW c \in Clients, OpenPath(c), Exists(c)
    PROVE  /\ OpenedFile(c) \in Clients
           /\ handle' = [handle EXCEPT ![c] = OpenedFile(c)]
           /\ content' = [content EXCEPT ![OpenedFile(c)] =
                  [by |-> {c} \cup (@.by \ @.whole), whole |-> {}]]
           /\ tmp' \in [Roles -> Directories \cup {None}]
           /\ \A d \in Roles : d # role[c] => tmp'[d] = tmp[d]
           /\ tmp'[role[c]] # None
           /\ DOMAIN tmp'[role[c]] = DOMAIN tmp[role[c]] \cup {name[c]}
           /\ \A n \in DOMAIN tmp'[role[c]] :
                  tmp'[role[c]][n] =
                      IF n = name[c] THEN OpenedFile(c) ELSE tmp[role[c]][n]
<1> DEFINE f == OpenedFile(c)
           old == tmp[role[c]]
           new == [n \in DOMAIN old \cup {name[c]} |->
                      IF n = name[c] THEN f ELSE old[n]]
<1>1. role[c] \in Roles /\ old \in Directories /\ old # None /\ name[c] \in Names
    BY DEF Exists, FilesTyped
<1>2. PICK N \in SUBSET Names : old \in [N -> Clients]
    BY <1>1 DEF Directories
<1>3. f \in Clients
    BY <1>2 DEF Here, OpenedFile
<1>4. new \in [N \cup {name[c]} -> Clients]
    BY <1>2, <1>3
<1>5. N \cup {name[c]} \in SUBSET Names
    BY <1>1
<1>6. new \in Directories /\ new # None
    BY <1>4, <1>5, ClientsAssumption DEF Directories
<1>7. /\ tmp' = [tmp EXCEPT ![role[c]] = new]
      /\ handle' = [handle EXCEPT ![c] = f]
      /\ content' = [content EXCEPT ![f] =
             [by |-> {c} \cup (@.by \ @.whole), whole |-> {}]]
    BY DEF OpenPath, OpenedFile
<1>8. /\ DOMAIN new = DOMAIN old \cup {name[c]}
      /\ \A n \in DOMAIN new : new[n] = IF n = name[c] THEN f ELSE old[n]
    OBVIOUS
<1> HIDE DEF new, f
<1>9. /\ tmp' \in [Roles -> Directories \cup {None}]
      /\ \A d \in Roles : d # role[c] => tmp'[d] = tmp[d]
      /\ tmp'[role[c]] = new
    BY <1>1, <1>6, <1>7 DEF FilesTyped
<1> QED
    BY <1>3, <1>6, <1>7, <1>8, <1>9 DEF f

\* An empty directory is a directory.
LEMMA EmptyIsDirectory == Empty \in Directories /\ Empty # None
<1>1. Empty \in [{} -> Clients]
    BY DEF Empty
<1> QED
    BY <1>1, ClientsAssumption DEF Directories

\* Under a name that is there, there is a client's file, and its content.
LEMMA FoundIsFile ==
    ASSUME FilesTyped, NEW c \in Clients, Here(c)
    PROVE  /\ tmp[role[c]][name[c]] \in Clients
           /\ Found(c) \in FileContents
<1>1. tmp[role[c]] \in Directories
    BY DEF Here, Exists, FilesTyped
<1>2. PICK N \in SUBSET Names : tmp[role[c]] \in [N -> Clients]
    BY <1>1 DEF Directories
<1> QED
    BY <1>2 DEF Here, Found, FilesTyped

\* Nobody else of its kind is running next to a client that is undisturbed.
LEMMA AloneIsAlone ==
    ASSUME Overlap, NEW c \in Clients \ disturbed, Running(c),
           NEW x \in Clients, Running(x), role[x] = role[c]
    PROVE  x = c
    BY DEF Overlap, Others

-----------------------------------------------------------------------------
(* Every step keeps the invariant. *)

\* A client starts, and its directory is removed.
LEMMA InvConstruct ==
    ASSUME FilesInv, NEW c \in Clients, Construct(c)
    PROVE  FilesInv'
<1> USE DEF FilesInv, FilesTyped, Construct, Joins, Goes, request, RemoveAll,
    Meddle
<1>1. FilesTyped'
    BY DEF Places, Roles, Senders, Receivers
<1>2. OwnDirectory'
    BY <1>1 DEF OwnDirectory, Roles, Senders, Receivers
<1>3. NotYetThere'
    BY <1>1 DEF NotYetThere, Roles, Senders, Receivers
<1>4. WriterKnown'
    BY <1>1 DEF WriterKnown, Senders, Receivers
<1>5. Overlap'
    BY DEF Overlap, Others, Running, Senders, Receivers
<1>6. AloneProgress'
    BY <1>1
    DEF AloneProgress, Has, Here, Exists, Whole, Others, Running, Senders,
        Receivers
<1>7. UnpackChecked'
    BY <1>1
    DEF UnpackChecked, Here, Exists, Found, Whole, Others, Senders, Receivers
<1>8. DirectoryInUse'
    BY DEF DirectoryInUse, Roles, Senders, Receivers
<1>9. WrongArchiveRefused'
    BY DEF WrongArchiveRefused, Whole, Senders, Receivers
<1>10. AloneWorks'
    BY DEF AloneWorks, Whole
<1> QED
    BY <1>1, <1>2, <1>3, <1>4, <1>5, <1>6, <1>7, <1>8, <1>9, <1>10

\* A client creates its directory, if nobody else has.
LEMMA InvCreateDirectories ==
    ASSUME FilesInv, NEW c \in Clients, CreateDirectories(c)
    PROVE  FilesInv'
<1> USE DEF FilesInv, FilesTyped, CreateDirectories, Goes, request
<1>0. /\ \A d \in Roles : d # role[c] => tmp'[d] = tmp[d]
      /\ tmp[role[c]] # None => tmp'[role[c]] = tmp[role[c]]
      /\ tmp[role[c]] = None => tmp'[role[c]] = Empty
      /\ Empty # None /\ DOMAIN Empty = {}
    BY EmptyIsDirectory DEF Exists, Empty
<1>1. FilesTyped'
    BY EmptyIsDirectory DEF Places, Roles, Senders, Receivers
<1>2. OwnDirectory'
    BY <1>0 DEF OwnDirectory, Senders, Receivers
<1>3. NotYetThere'
    BY <1>0 DEF NotYetThere, Senders, Receivers
<1>4. WriterKnown'
    BY <1>1 DEF WriterKnown, Senders, Receivers
<1>5. Overlap'
    BY DEF Overlap, Others, Running, Senders, Receivers
<1>6. AloneProgress'
    BY <1>0
    DEF AloneProgress, Has, Here, Exists, Whole, Running, Roles, Overlap,
        Others, Senders, Receivers
<1>7. UnpackChecked'
    BY <1>0 DEF UnpackChecked, Here, Exists, Found, Whole, Senders, Receivers
<1>8. DirectoryInUse'
    BY DEF DirectoryInUse, Roles, Senders, Receivers
<1>9. WrongArchiveRefused'
    BY DEF WrongArchiveRefused, Whole, Senders, Receivers
<1>10. AloneWorks'
    BY DEF AloneWorks, Whole
<1> QED
    BY <1>1, <1>2, <1>3, <1>4, <1>5, <1>6, <1>7, <1>8, <1>9, <1>10

\* A client looks whether its path is free.
LEMMA InvCheckPath ==
    ASSUME FilesInv, NEW c \in Clients, CheckPath(c)
    PROVE  FilesInv'
<1> USE DEF FilesInv, FilesTyped, CheckPath, Goes, request, Throws, Unwinds
<1>1. FilesTyped'
    BY DEF Places, Roles, Senders, Receivers
<1>2. OwnDirectory'
    BY <1>1 DEF OwnDirectory, Roles, Senders, Receivers
<1>3. NotYetThere'
    BY <1>1 DEF NotYetThere, Roles, Senders, Receivers
<1>4. WriterKnown'
    BY <1>1 DEF WriterKnown, Senders, Receivers
<1>5. Overlap'
    BY DEF Overlap, Others, Running, Senders, Receivers
<1>6. AloneProgress'
    BY <1>1 DEF AloneProgress, Has, Here, Exists, Whole, Senders, Receivers
<1>7. UnpackChecked'
    BY <1>1
    DEF UnpackChecked, Here, Exists, Found, Whole, Others, Senders, Receivers
<1>8. DirectoryInUse'
    BY DEF DirectoryInUse, Roles, Senders, Receivers
<1>9. WrongArchiveRefused'
    BY DEF WrongArchiveRefused, Whole, Senders, Receivers
<1>10. AloneWorks'
    BY DEF AloneWorks, AloneProgress, Here, Empty, Whole
<1> QED
    BY <1>1, <1>2, <1>3, <1>4, <1>5, <1>6, <1>7, <1>8, <1>9, <1>10

\* A client opens its path, be it free or not.
LEMMA InvOpenPath ==
    ASSUME FilesInv, NEW c \in Clients, OpenPath(c)
    PROVE  FilesInv'
<1> USE DEF FilesInv, FilesTyped, OpenPath, Goes, request, Meddle
<1>0. CASE ~Exists(c)
    <2>1. UNCHANGED <<handle, content, tmp>>
        BY <1>0
    <2>2. FilesTyped'
        BY <2>1 DEF Places, Roles, Senders, Receivers
    <2>3. OwnDirectory' /\ NotYetThere' /\ WriterKnown'
        BY <2>1 DEF OwnDirectory, NotYetThere, WriterKnown
    <2>4. Overlap' /\ DirectoryInUse'
        BY <2>1 DEF Overlap, Others, Running, DirectoryInUse
    <2>5. AloneProgress'
        BY <1>0, <2>1, EmptyIsDirectory
        DEF AloneProgress, Has, Here, Exists, Whole
    <2>6. UnpackChecked'
        BY <2>1 DEF UnpackChecked, Here, Exists, Found, Whole, Receivers
    <2>7. WrongArchiveRefused' /\ AloneWorks'
        BY DEF WrongArchiveRefused, AloneWorks, Whole, Receivers
    <2> QED
        BY <2>2, <2>3, <2>4, <2>5, <2>6, <2>7
<1> SUFFICES ASSUME Exists(c) PROVE FilesInv'
    BY <1>0
<1> DEFINE f == OpenedFile(c)
<1>a. /\ f \in Clients
      /\ handle' = [handle EXCEPT ![c] = f]
      /\ content' = [content EXCEPT ![f] =
             [by |-> {c} \cup (@.by \ @.whole), whole |-> {}]]
      /\ tmp' \in [Roles -> Directories \cup {None}]
      /\ \A d \in Roles : d # role[c] => tmp'[d] = tmp[d]
      /\ tmp'[role[c]] # None
      /\ DOMAIN tmp'[role[c]] = DOMAIN tmp[role[c]] \cup {name[c]}
      /\ \A n \in DOMAIN tmp'[role[c]] :
             tmp'[role[c]][n] = IF n = name[c] THEN f ELSE tmp[role[c]][n]
    BY OpenPathEffect
<1>b. /\ role[f] = role[c]
      /\ pc[f] \in {"new", "create", "check", "open"} => f = c
      /\ tmp[role[c]] = Empty => f = c
    <2>1. CASE Here(c)
        <3>1. /\ role[c] \in Roles /\ tmp[role[c]] # None
              /\ name[c] \in DOMAIN tmp[role[c]]
              /\ f = tmp[role[c]][name[c]]
            BY <2>1 DEF Here, Exists, OpenedFile
        <3> QED
            BY <1>a, <3>1 DEF OwnDirectory, NotYetThere, Empty
    <2>2. CASE ~Here(c)
        BY <2>2 DEF OpenedFile
    <2> QED
        BY <2>1, <2>2
<1>c. /\ pc' = [pc EXCEPT ![c] = "write"]
      /\ pc[c] = "open"
      /\ UNCHANGED <<role, name, packs, entry, announced, used, disturbed, failed>>
      /\ late' = late \cup {r \in Others(c) : pc[r] = "unpack"}
    OBVIOUS
<1>d. /\ \A x \in Clients \ {f} : content'[x] = content[x]
      /\ content'[f] = [by |-> {c} \cup (content[f].by \ content[f].whole), whole |-> {}]
    BY <1>a
<1> HIDE DEF f, OpenPath
<1>1. FilesTyped'
    <2>1. content' \in [Clients -> FileContents]
        BY <1>a DEF FileContents
    <2> QED
        BY <1>a, <1>c, <2>1 DEF Places, Roles, Senders, Receivers
<1>2. OwnDirectory'
    <2>1. ASSUME NEW d \in Roles, tmp'[d] # None, NEW n \in DOMAIN tmp'[d]
          PROVE  role'[tmp'[d][n]] = d
        <3>1. CASE d = role[c]
            BY <1>a, <1>b, <1>c, <2>1, <3>1 DEF OwnDirectory, Exists
        <3>2. CASE d # role[c]
            BY <1>a, <1>c, <2>1, <3>2 DEF OwnDirectory
        <3> QED
            BY <3>1, <3>2
    <2>2. \A x \in Clients : handle'[x] # None => role'[handle'[x]] = role'[x]
        BY <1>a, <1>b, <1>c DEF OwnDirectory
    <2> QED
        BY <2>1, <2>2 DEF OwnDirectory
<1>3. NotYetThere'
    <2> SUFFICES ASSUME NEW x \in Clients,
                        pc'[x] \in {"new", "create", "check", "open"}
                 PROVE  /\ handle'[x] = None
                        /\ content'[x] = [by |-> {}, whole |-> {}]
                        /\ \A y \in Clients : handle'[y] # x
                        /\ \A d \in Roles : tmp'[d] # None =>
                               \A n \in DOMAIN tmp'[d] : tmp'[d][n] # x
        BY DEF NotYetThere
    <2>1. x # c /\ x # f /\ pc[x] = pc'[x]
        BY <1>b, <1>c
    <2>2. handle'[x] = None /\ content'[x] = [by |-> {}, whole |-> {}]
        BY <1>a, <1>d, <2>1 DEF NotYetThere
    <2>3. \A y \in Clients : handle'[y] # x
        BY <1>a, <2>1 DEF NotYetThere
    <2>4. ASSUME NEW d \in Roles, tmp'[d] # None, NEW n \in DOMAIN tmp'[d]
          PROVE  tmp'[d][n] # x
        <3>1. CASE d = role[c]
            BY <1>a, <2>1, <2>4, <3>1 DEF NotYetThere, Exists
        <3>2. CASE d # role[c]
            BY <1>a, <2>1, <2>4, <3>2 DEF NotYetThere
        <3> QED
            BY <3>1, <3>2
    <2> QED
        BY <2>2, <2>3, <2>4
<1>4. WriterKnown'
    BY <1>a, <1>c, <1>d DEF WriterKnown
<1>5. Overlap'
    BY <1>c DEF Overlap, Others, Running
<1>6. AloneProgress'
    <2> SUFFICES ASSUME NEW x \in Clients \ disturbed, pc'[x] \in Places
                 PROVE  /\ pc'[x] = "create" => tmp'[role[x]] = None
                        /\ pc'[x] \in {"check", "open"} => tmp'[role[x]] = Empty
                        /\ pc'[x] = "write" =>
                               /\ Has(x)'
                               /\ handle'[x] = x
                               /\ content'[x] = [by |-> {x}, whole |-> {}]
                        /\ pc'[x] \in {"validate", "unpack"}
                                \/ (pc'[x] \in {"announce", "await"} /\ packs[x]) =>
                               Has(x)' /\ content'[x] = Whole(x)
        BY <1>1, <1>c DEF AloneProgress, Whole
    <2>1. CASE x = c
        <3>1. f = c /\ content[c] = [by |-> {}, whole |-> {}]
            BY <1>b, <1>c, <2>1 DEF AloneProgress, NotYetThere
        <3>2. content'[c] = [by |-> {c}, whole |-> {}]
            <4>1. {c} \cup (content[c].by \ content[c].whole) = {c}
                BY <3>1
            <4> QED
                BY <1>d, <3>1, <4>1
        <3> QED
            BY <1>a, <1>c, <2>1, <3>1, <3>2 DEF Has, Here, Exists
    <2>2. CASE x # c /\ ~Running(x)
        BY <1>c, <2>2 DEF Running
    <2>3. CASE x # c /\ Running(x)
        <3>1. role[x] # role[c]
            BY <1>c, <2>3, AloneIsAlone DEF Running
        <3>2. /\ tmp'[role[x]] = tmp[role[x]]
              /\ content'[x] = content[x]
              /\ handle'[x] = handle[x]
              /\ pc'[x] = pc[x]
            <4>1. role[x] \in Roles /\ x # f
                BY <1>b, <3>1
            <4> QED
                BY <1>a, <1>c, <1>d, <2>3, <3>1, <4>1
        <3> QED
            BY <1>c, <3>2 DEF AloneProgress, Has, Here, Exists
    <2> QED
        BY <2>1, <2>2, <2>3
<1>7. UnpackChecked'
    <2> SUFFICES ASSUME NEW r \in Receivers, pc[r] = "unpack", r # c, Here(r)'
                 PROVE  Found(r)' = Whole(r) \/ r \in late'
        BY <1>c DEF UnpackChecked, Whole, Receivers
    <2>1. CASE role[r] = role[c]
        BY <1>c, <2>1 DEF Others, Receivers
    <2>2. CASE role[r] # role[c]
        <3>1. Here(r) /\ tmp'[role[r]][name[r]] = tmp[role[r]][name[r]]
            BY <1>a, <1>c, <2>2 DEF Here, Exists, Receivers
        <3>2. /\ tmp[role[r]][name[r]] \in Clients
              /\ role[tmp[role[r]][name[r]]] = role[r]
            BY <3>1, FoundIsFile DEF OwnDirectory, Here, Exists, Receivers
        <3>3. Found(r)' = Found(r)
            BY <1>b, <1>c, <1>d, <2>2, <3>1, <3>2 DEF Found
        <3> QED
            BY <1>c, <3>1, <3>3 DEF UnpackChecked
    <2> QED
        BY <2>1, <2>2
<1>8. DirectoryInUse'
    BY <1>a, <1>c DEF DirectoryInUse
<1>9. WrongArchiveRefused'
    BY <1>c DEF WrongArchiveRefused, Whole, Receivers
<1>10. AloneWorks'
    BY <1>c DEF AloneWorks, Whole
<1> QED
    BY <1>1, <1>2, <1>3, <1>4, <1>5, <1>6, <1>7, <1>8, <1>9, <1>10

\* A client has written its archive.
LEMMA InvWriteArchive ==
    ASSUME FilesInv, NEW c \in Clients, WriteArchive(c)
    PROVE  FilesInv'
<1> USE DEF FilesInv, FilesTyped, WriteArchive, Goes, request
<1>0. /\ \A f \in Clients : f # handle[c] => content'[f] = content[f]
      /\ handle[c] # None =>
             content'[handle[c]] =
                 [by |-> content[handle[c]].by,
                  whole |-> content[handle[c]].whole \cup {c}]
    <2>1. \A f \in Clients : f # handle[c] => content'[f] = content[f]
        OBVIOUS
    <2>2. ASSUME handle[c] # None
          PROVE  content'[handle[c]] =
                     [by |-> content[handle[c]].by,
                      whole |-> content[handle[c]].whole \cup {c}]
        <3>1. handle[c] \in Clients /\ content[handle[c]] \in FileContents
            BY <2>2
        <3>2. content'[handle[c]] =
                  [content[handle[c]] EXCEPT !.whole = @ \cup {c}]
            BY <3>1
        <3> QED
            BY <3>1, <3>2 DEF FileContents
    <2> QED
        BY <2>1, <2>2
<1>a. content' \in [Clients -> FileContents]
    <2>1. \A f \in Clients : content'[f] \in FileContents
        BY <1>0 DEF FileContents
    <2> QED
        BY <2>1
<1>b. /\ pc[c] = "write"
      /\ pc' = [pc EXCEPT ![c] = IF c \in Senders THEN "announce" ELSE "validate"]
      /\ UNCHANGED <<role, name, packs, tmp, handle, announced, used,
                     disturbed, late, failed>>
      /\ entry' \in [Clients -> {OwnEntry, ArchiveEntry}]
    OBVIOUS
<1> HIDE DEF WriteArchive
<1>1. FilesTyped'
    BY <1>a, <1>b DEF Places, Roles, Senders, Receivers
<1>2. OwnDirectory'
    BY <1>b DEF OwnDirectory
<1>3. NotYetThere'
    <2> SUFFICES ASSUME NEW x \in Clients,
                        pc'[x] \in {"new", "create", "check", "open"}
                 PROVE  /\ handle[x] = None
                        /\ content'[x] = [by |-> {}, whole |-> {}]
                        /\ \A y \in Clients : handle[y] # x
                        /\ \A d \in Roles : tmp[d] # None =>
                               \A n \in DOMAIN tmp[d] : tmp[d][n] # x
        BY <1>b DEF NotYetThere
    <2>1. x # c /\ pc[x] = pc'[x]
        BY <1>b
    <2>2. handle[c] # x
        BY <2>1 DEF NotYetThere
    <2> QED
        BY <1>0, <2>1, <2>2 DEF NotYetThere
<1>4. WriterKnown'
    BY <1>0, <1>b DEF WriterKnown
<1>5. Overlap'
    BY <1>b DEF Overlap, Others, Running
<1>6. AloneProgress'
    <2> SUFFICES ASSUME NEW x \in Clients \ disturbed, Running(x)
                 PROVE  /\ pc'[x] = "create" => tmp[role[x]] = None
                        /\ pc'[x] \in {"check", "open"} => tmp[role[x]] = Empty
                        /\ pc'[x] = "write" =>
                               /\ Has(x)
                               /\ handle[x] = x
                               /\ content'[x] = [by |-> {x}, whole |-> {}]
                        /\ pc'[x] \in {"validate", "unpack"}
                                \/ (pc'[x] \in {"announce", "await"} /\ packs[x]) =>
                               Has(x) /\ content'[x] = Whole(x)
        BY <1>1, <1>b
        DEF AloneProgress, Running, Has, Here, Exists, Whole, Places
    <2>1. CASE x = c
        <3>1. /\ Has(c) /\ handle[c] = c
              /\ content[c] = [by |-> {c}, whole |-> {}]
            BY <1>b, <2>1 DEF AloneProgress
        <3>2. content'[c] = Whole(c)
            BY <1>0, <3>1, ClientsAssumption DEF Whole
        <3> QED
            BY <1>b, <2>1, <3>1, <3>2
    <2>2. CASE x # c
        <3>1. handle[c] # x
            BY <1>b, <2>2, AloneIsAlone, ClientsAssumption
            DEF OwnDirectory, Running
        <3>2. content'[x] = content[x] /\ pc'[x] = pc[x]
            BY <1>0, <1>b, <2>2, <3>1
        <3> QED
            BY <3>2 DEF AloneProgress
    <2> QED
        BY <2>1, <2>2
<1>7. UnpackChecked'
    <2> SUFFICES ASSUME NEW r \in Receivers, pc[r] = "unpack", Here(r),
                        Found(r) = Whole(r)
                 PROVE  Found(r)' = Whole(r)
        BY <1>b DEF UnpackChecked, Here, Exists, Whole, Receivers
    <2>1. r # c /\ tmp[role[r]][name[r]] \in Clients
        BY <1>b, FoundIsFile DEF Receivers
    <2>2. handle[c] # tmp[role[r]][name[r]]
        BY <1>b, <2>1, ClientsAssumption DEF WriterKnown, Found, Whole
    <2> QED
        BY <1>0, <1>b, <2>1, <2>2 DEF Found
<1>8. DirectoryInUse'
    BY <1>b DEF DirectoryInUse, Roles
<1>9. WrongArchiveRefused'
    BY <1>b DEF WrongArchiveRefused, Whole, Receivers
<1>10. AloneWorks'
    BY <1>b DEF AloneWorks, Whole
<1> QED
    BY <1>1, <1>2, <1>3, <1>4, <1>5, <1>6, <1>7, <1>8, <1>9, <1>10

\* A sender announces its file, and moves its entry to the caller.
LEMMA InvAnnounce ==
    ASSUME FilesInv, NEW s \in Senders, Announce(s)
    PROVE  FilesInv'
<1> USE DEF FilesInv, FilesTyped, Announce, Goes, request, Throws, Unwinds
<1>0. UNCHANGED tmp
    BY DEF Destroy, MovedFrom, OwnEntry, ArchiveEntry, Senders
<1>1. FilesTyped'
  <2>1. pc' \in [Clients -> Places]
    BY DEF Places, Senders
  <2>2. announced' \in [Clients -> FileContents \cup {None}]
    <3>1. s \in Clients
      BY DEF Senders
    <3>2. (Here(s) => Found(s) \in FileContents) /\ Whole(s) \in FileContents
      BY <3>1, FoundIsFile DEF Whole, FileContents
    <3>3. \/ announced' = announced
          \/ \E v \in FileContents : announced' = [announced EXCEPT ![s] = v]
      BY <3>2
    <3> QED
      BY <3>1, <3>3
  <2> QED
    BY <1>0, <2>1, <2>2 DEF Receivers
<1>2. OwnDirectory'
    BY <1>0 DEF OwnDirectory, Senders, Receivers
<1>3. NotYetThere'
    BY <1>0 DEF NotYetThere, Senders, Receivers
<1>4. WriterKnown'
    BY <1>0 DEF WriterKnown, Senders, Receivers
<1>5. Overlap'
    BY DEF Overlap, Others, Running, Senders, Receivers
<1>6. AloneProgress'
    BY <1>0 DEF AloneProgress, Has, Here, Exists, Whole, Senders, Receivers
<1>7. UnpackChecked'
    BY <1>0 DEF UnpackChecked, Here, Exists, Found, Whole, Senders, Receivers
<1>8. DirectoryInUse'
    BY <1>0 DEF DirectoryInUse, Senders, Receivers
<1>9. WrongArchiveRefused'
    BY DEF WrongArchiveRefused, Whole, Senders, Receivers
<1>10. AloneWorks'
    BY DEF AloneWorks, AloneProgress, Has, Found, Whole, Senders, Receivers
<1> QED
    BY <1>1, <1>2, <1>3, <1>4, <1>5, <1>6, <1>7, <1>8, <1>9, <1>10

\* A sender sends its file.
LEMMA InvSend ==
    ASSUME FilesInv, NEW s \in Senders, Send(s)
    PROVE  FilesInv'
<1> USE DEF FilesInv, FilesTyped, Send, Goes, request, Throws, Unwinds
<1>1. FilesTyped'
  <2>1. pc' \in [Clients -> Places]
    BY DEF Places, Senders
  <2>2. used' \in [Clients -> FileContents \cup {None}]
    <3>1. s \in Clients
      BY DEF Senders
    <3>2. (Here(s) => Found(s) \in FileContents) /\ Whole(s) \in FileContents
      BY <3>1, FoundIsFile DEF Whole, FileContents
    <3>3. \/ used' = used
          \/ \E v \in FileContents : used' = [used EXCEPT ![s] = v]
      BY <3>2
    <3> QED
      BY <3>1, <3>3
  <2> QED
    BY <2>1, <2>2 DEF Receivers
<1>2. OwnDirectory'
    BY <1>1 DEF OwnDirectory, Roles, Senders, Receivers
<1>3. NotYetThere'
    BY <1>1 DEF NotYetThere, Roles, Senders, Receivers
<1>4. WriterKnown'
    BY <1>1 DEF WriterKnown, Senders, Receivers
<1>5. Overlap'
    BY DEF Overlap, Others, Running, Senders, Receivers
<1>6. AloneProgress'
    BY <1>1 DEF AloneProgress, Has, Here, Exists, Whole, Senders, Receivers
<1>7. UnpackChecked'
    BY <1>1
    DEF UnpackChecked, Here, Exists, Found, Whole, Others, Senders, Receivers
<1>8. DirectoryInUse'
    BY DEF DirectoryInUse, Roles, Senders, Receivers
<1>9. WrongArchiveRefused'
    BY DEF WrongArchiveRefused, Whole, Senders, Receivers
<1>10. AloneWorks'
    BY DEF AloneWorks, AloneProgress, Has, Found, Whole, Senders, Receivers
<1> QED
    BY <1>1, <1>2, <1>3, <1>4, <1>5, <1>6, <1>7, <1>8, <1>9, <1>10

\* A sender's entry is destroyed, and its archive with it.
LEMMA InvDestroyEntry ==
    ASSUME FilesInv, NEW s \in Senders, DestroyEntry(s)
    PROVE  FilesInv'
<1> USE DEF FilesInv, FilesTyped, DestroyEntry, Goes, request, Destroy
<1>0. /\ tmp' \in [Roles -> Directories \cup {None}]
      /\ \A d \in Roles :
             /\ tmp'[d] = None <=> tmp[d] = None
             /\ d # role[s] => tmp'[d] = tmp[d]
             /\ tmp[d] # None =>
                    /\ DOMAIN tmp'[d] \subseteq DOMAIN tmp[d]
                    /\ \A n \in DOMAIN tmp'[d] : tmp'[d][n] = tmp[d][n]
    BY RemoveArchiveEffect DEF Removed, Senders
<1>1. FilesTyped'
    BY <1>0 DEF Places, Roles, Senders, Receivers
<1>2. OwnDirectory'
    BY <1>0, <1>1 DEF OwnDirectory, Senders, Receivers
<1>3. NotYetThere'
    BY <1>0, <1>1 DEF NotYetThere, Senders, Receivers
<1>4. WriterKnown'
    BY <1>1 DEF WriterKnown, Senders, Receivers
<1>5. Overlap'
    BY DEF Overlap, Others, Running, Senders, Receivers
<1>6. AloneProgress'
    BY <1>0, <1>1, AloneIsAlone
    DEF AloneProgress, Has, Here, Exists, Whole, Running, Senders, Receivers
<1>7. UnpackChecked'
    BY <1>0, <1>1
    DEF UnpackChecked, Here, Exists, Found, Whole, Senders, Receivers
<1>8. DirectoryInUse'
    BY <1>0 DEF DirectoryInUse, Senders, Receivers
<1>9. WrongArchiveRefused'
    BY DEF WrongArchiveRefused, Whole, Senders, Receivers
<1>10. AloneWorks'
    BY DEF AloneWorks, Whole
<1> QED
    BY <1>1, <1>2, <1>3, <1>4, <1>5, <1>6, <1>7, <1>8, <1>9, <1>10

\* A receiver compares the hash.
LEMMA InvValidateFileHash ==
    ASSUME FilesInv, NEW r \in Receivers, ValidateFileHash(r)
    PROVE  FilesInv'
<1> USE DEF FilesInv, FilesTyped, ValidateFileHash, Goes, request, Throws,
    Unwinds, HashMatches
<1>1. FilesTyped'
    BY DEF Places, Roles, Senders, Receivers
<1>2. OwnDirectory'
    BY <1>1 DEF OwnDirectory, Roles, Senders, Receivers
<1>3. NotYetThere'
    BY <1>1 DEF NotYetThere, Roles, Senders, Receivers
<1>4. WriterKnown'
    BY <1>1 DEF WriterKnown, Senders, Receivers
<1>5. Overlap'
    BY DEF Overlap, Others, Running, Senders, Receivers
<1>6. AloneProgress'
    BY <1>1 DEF AloneProgress, Has, Here, Exists, Whole, Senders, Receivers
<1>7. UnpackChecked'
    <2>1. pc'[r] = "unpack" => Here(r) /\ Found(r) = Whole(r)
        BY DEF Receivers, Senders
    <2>2. \A x \in Clients : x # r => pc'[x] = pc[x]
        BY DEF Receivers
    <2> QED
        BY <2>1, <2>2 DEF UnpackChecked, Here, Exists, Found, Whole, Receivers
<1>8. DirectoryInUse'
    BY DEF DirectoryInUse, Roles, Senders, Receivers
<1>9. WrongArchiveRefused'
    BY DEF WrongArchiveRefused, Whole, Senders, Receivers
<1>10. AloneWorks'
    <2>1. r \notin disturbed => HashMatches(r)
        BY DEF AloneProgress, Has, Here, Found, Receivers
    <2> QED
        BY <2>1 DEF AloneWorks, Whole
<1> QED
    BY <1>1, <1>2, <1>3, <1>4, <1>5, <1>6, <1>7, <1>8, <1>9, <1>10

\* A receiver unpacks what it finds at its path.
LEMMA InvHandleCompressedFile ==
    ASSUME FilesInv, NEW r \in Receivers, HandleCompressedFile(r)
    PROVE  FilesInv'
<1> USE DEF FilesInv, FilesTyped, HandleCompressedFile, Goes, request, Throws,
    Unwinds
<1>0. /\ tmp' \in [Roles -> Directories \cup {None}]
      /\ \A d \in Roles :
             /\ tmp'[d] = None <=> tmp[d] = None
             /\ d # role[r] => tmp'[d] = tmp[d]
             /\ tmp[d] # None =>
                    /\ DOMAIN tmp'[d] \subseteq DOMAIN tmp[d]
                    /\ \A n \in DOMAIN tmp'[d] : tmp'[d][n] = tmp[d][n]
    BY RemoveArchiveEffect DEF Removed, Receivers
<1>1. FilesTyped'
    BY <1>0, FoundIsFile DEF Places, Roles, Senders, Receivers
<1>2. OwnDirectory'
    BY <1>0, <1>1 DEF OwnDirectory, Senders, Receivers
<1>3. NotYetThere'
    BY <1>0, <1>1 DEF NotYetThere, Senders, Receivers
<1>4. WriterKnown'
    BY <1>1 DEF WriterKnown, Senders, Receivers
<1>5. Overlap'
    BY DEF Overlap, Others, Running, Senders, Receivers
<1>6. AloneProgress'
    BY <1>0, <1>1, AloneIsAlone
    DEF AloneProgress, Has, Here, Exists, Whole, Running, Senders, Receivers
<1>7. UnpackChecked'
    BY <1>0, <1>1
    DEF UnpackChecked, Here, Exists, Found, Whole, Senders, Receivers
<1>8. DirectoryInUse'
    BY <1>0 DEF DirectoryInUse, Senders, Receivers
<1>9. WrongArchiveRefused'
    BY FoundIsFile
    DEF WrongArchiveRefused, UnpackChecked, Whole, Found, Senders, Receivers
<1>10. AloneWorks'
    BY FoundIsFile
    DEF AloneWorks, AloneProgress, Has, Whole, Found, Senders, Receivers
<1> QED
    BY <1>1, <1>2, <1>3, <1>4, <1>5, <1>6, <1>7, <1>8, <1>9, <1>10

\* A client ends, and removes its directory.
LEMMA InvDestruct ==
    ASSUME FilesInv, NEW c \in Clients, Destruct(c)
    PROVE  FilesInv'
<1> USE DEF FilesInv, FilesTyped, Destruct, Goes, request, Close, RemoveAll,
    Meddle
<1>1. FilesTyped'
    BY DEF Places, Roles, Senders, Receivers
<1>2. OwnDirectory'
    BY <1>1 DEF OwnDirectory, Roles, Senders, Receivers
<1>3. NotYetThere'
    BY <1>1 DEF NotYetThere, Roles, Senders, Receivers
<1>4. WriterKnown'
    BY <1>1 DEF WriterKnown, Senders, Receivers
<1>5. Overlap'
    BY DEF Overlap, Others, Running, Senders, Receivers
<1>6. AloneProgress'
    BY <1>1, AloneIsAlone
    DEF AloneProgress, Has, Here, Exists, Whole, Running, Senders, Receivers
<1>7. UnpackChecked'
    BY <1>1
    DEF UnpackChecked, Here, Exists, Found, Whole, Others, Senders, Receivers
<1>8. DirectoryInUse'
    BY DEF DirectoryInUse, Roles, Senders, Receivers
<1>9. WrongArchiveRefused'
    BY DEF WrongArchiveRefused, Whole, Senders, Receivers
<1>10. AloneWorks'
    BY DEF AloneWorks, Whole
<1> QED
    BY <1>1, <1>2, <1>3, <1>4, <1>5, <1>6, <1>7, <1>8, <1>9, <1>10

\* A client cannot empty the directory it shares, and is terminated.
LEMMA InvRemoveAllThrows ==
    ASSUME FilesInv, NEW c \in Clients, RemoveAllThrows(c)
    PROVE  FilesInv'
<1> USE DEF FilesInv
<1>a. /\ pc[c] \in {"new", "close"}
      /\ \E x \in Others(c) : Running(x)
      /\ pc' = [pc EXCEPT ![c] = "crashed"]
      /\ Meddle(c) /\ Joins(c)
      /\ failed' = failed \cup {c}
      /\ UNCHANGED <<role, name, packs, content, handle, entry, announced, used>>
    BY DEF RemoveAllThrows, Goes, request
<1>b. Removed(c)
    BY RestrictRemoves DEF RemoveAllThrows
<1>c. c \in disturbed' /\ disturbed \subseteq disturbed'
      /\ \A x \in Others(c) : Running(x) => x \in disturbed'
    BY <1>a DEF Joins
<1> USE DEF FilesTyped, Removed
<1>1. FilesTyped'
    BY <1>a, <1>b DEF Places, Roles, Senders, Receivers
<1>2. OwnDirectory'
    BY <1>a, <1>b DEF OwnDirectory
<1>3. NotYetThere'
    BY <1>a, <1>b DEF NotYetThere
<1>4. WriterKnown'
    BY <1>a DEF WriterKnown
<1>5. Overlap'
    BY <1>a, <1>c DEF Overlap, Others, Running
<1>6. AloneProgress'
    BY <1>a, <1>b, <1>c
    DEF AloneProgress, Has, Here, Exists, Whole, Others, Running
<1>7. UnpackChecked'
    BY <1>a, <1>b
    DEF UnpackChecked, Here, Exists, Found, Whole, Others, Meddle, Receivers
<1>8. DirectoryInUse'
    BY <1>a, <1>b DEF DirectoryInUse, Others, Running, Roles
<1>9. WrongArchiveRefused'
    BY <1>a DEF WrongArchiveRefused, Whole, Receivers, Meddle
<1>10. AloneWorks'
    BY <1>a, <1>c DEF AloneWorks, Whole
<1> QED
    BY <1>1, <1>2, <1>3, <1>4, <1>5, <1>6, <1>7, <1>8, <1>9, <1>10

\* A client gives up.
LEMMA InvGivesUp ==
    ASSUME FilesInv, NEW c \in Clients, GivesUp(c)
    PROVE  FilesInv'
<1> USE DEF FilesInv, FilesTyped, GivesUp, Goes, request, Unwinds
<1>1. FilesTyped'
    BY DEF Places, Roles, Senders, Receivers
<1>2. OwnDirectory'
    BY <1>1 DEF OwnDirectory, Roles, Senders, Receivers
<1>3. NotYetThere'
    BY <1>1 DEF NotYetThere, Roles, Senders, Receivers
<1>4. WriterKnown'
    BY <1>1 DEF WriterKnown, Senders, Receivers
<1>5. Overlap'
    BY DEF Overlap, Others, Running, Senders, Receivers
<1>6. AloneProgress'
    BY <1>1 DEF AloneProgress, Has, Here, Exists, Whole, Senders, Receivers
<1>7. UnpackChecked'
    BY <1>1
    DEF UnpackChecked, Here, Exists, Found, Whole, Others, Senders, Receivers
<1>8. DirectoryInUse'
    BY DEF DirectoryInUse, Roles, Senders, Receivers
<1>9. WrongArchiveRefused'
    BY DEF WrongArchiveRefused, Whole, Senders, Receivers
<1>10. AloneWorks'
    BY DEF AloneWorks, Whole
<1> QED
    BY <1>1, <1>2, <1>3, <1>4, <1>5, <1>6, <1>7, <1>8, <1>9, <1>10

\* A client is killed.
LEMMA InvCrash ==
    ASSUME FilesInv, NEW c \in Clients, Crash(c)
    PROVE  FilesInv'
<1> USE DEF FilesInv, FilesTyped, Crash, Goes, request
<1>1. FilesTyped'
    BY DEF Places, Roles, Senders, Receivers
<1>2. OwnDirectory'
    BY <1>1 DEF OwnDirectory, Roles, Senders, Receivers
<1>3. NotYetThere'
    BY <1>1 DEF NotYetThere, Roles, Senders, Receivers
<1>4. WriterKnown'
    BY <1>1 DEF WriterKnown, Senders, Receivers
<1>5. Overlap'
    BY DEF Overlap, Others, Running, Senders, Receivers
<1>6. AloneProgress'
    BY <1>1 DEF AloneProgress, Has, Here, Exists, Whole, Senders, Receivers
<1>7. UnpackChecked'
    BY <1>1
    DEF UnpackChecked, Here, Exists, Found, Whole, Others, Senders, Receivers
<1>8. DirectoryInUse'
    BY DEF DirectoryInUse, Roles, Senders, Receivers
<1>9. WrongArchiveRefused'
    BY DEF WrongArchiveRefused, Whole, Senders, Receivers
<1>10. AloneWorks'
    BY DEF AloneWorks, Whole
<1> QED
    BY <1>1, <1>2, <1>3, <1>4, <1>5, <1>6, <1>7, <1>8, <1>9, <1>10

\* Every step of every client keeps the invariant.
LEMMA FilesStep == FilesInv /\ [Next]_vars => FilesInv'
<1> SUFFICES ASSUME FilesInv, [Next]_vars PROVE FilesInv'
    OBVIOUS
<1>1. CASE UNCHANGED vars
    BY <1>1 DEF vars, request, FilesInv, FilesTyped, OwnDirectory, NotYetThere,
        WriterKnown, Overlap, Others, Running, AloneProgress, Has, Here, Exists,
        Whole, UnpackChecked, Found, DirectoryInUse, AloneWorks,
        WrongArchiveRefused, Receivers
<1>2. ASSUME NEW c \in Clients,
             \/ Construct(c) \/ CreateDirectories(c)
             \/ CheckPath(c) \/ OpenPath(c) \/ WriteArchive(c)
             \/ Destruct(c) \/ RemoveAllThrows(c) \/ GivesUp(c) \/ Crash(c)
      PROVE  FilesInv'
    BY <1>2, InvConstruct, InvCreateDirectories, InvCheckPath, InvOpenPath,
       InvWriteArchive, InvDestruct, InvRemoveAllThrows, InvGivesUp, InvCrash
<1>3. ASSUME NEW s \in Senders, Announce(s) \/ Send(s) \/ DestroyEntry(s)
      PROVE  FilesInv'
    BY <1>3, InvAnnounce, InvSend, InvDestroyEntry
<1>4. ASSUME NEW r \in Receivers,
             ValidateFileHash(r) \/ HandleCompressedFile(r)
      PROVE  FilesInv'
    BY <1>4, InvValidateFileHash, InvHandleCompressedFile
<1> QED
    BY <1>1, <1>2, <1>3, <1>4 DEF Next

\* The invariant holds before any client has started.
LEMMA FilesInit == Init => FilesInv
<1> SUFFICES ASSUME Init PROVE FilesInv
    OBVIOUS
<1> USE DEF Init
<1>1. FilesTyped
    BY DEF FilesTyped, Places, Roles, FileContents
<1>2. OwnDirectory /\ NotYetThere /\ WriterKnown
    BY ClientsAssumption DEF OwnDirectory, NotYetThere, WriterKnown, Roles
<1>3. Overlap /\ AloneProgress /\ UnpackChecked /\ DirectoryInUse
    BY DEF Overlap, Running, AloneProgress, UnpackChecked, DirectoryInUse,
        Receivers, Others
<1>4. AloneWorks /\ WrongArchiveRefused
    BY DEF AloneWorks, WrongArchiveRefused, Receivers
<1> QED
    BY <1>1, <1>2, <1>3, <1>4 DEF FilesInv

-----------------------------------------------------------------------------
(* The theorems. *)

\* Whatever the clients of a machine do to each other's files, and whoever of
\* them is killed: who writes which file is known, and an undisturbed client
\* has what it needs.
THEOREM FilesInvariance == Spec => []FilesInv
    BY FilesInit, FilesStep, PTL DEF Spec

\* A client that ran alone works, whatever earlier ones left in the directory.
THEOREM AloneSucceeds == Spec => []AloneWorks
<1>1. FilesInv => AloneWorks
    BY DEF FilesInv
<1> QED
    BY <1>1, FilesInvariance, PTL

\* A receiver unpacks only what was announced to it, unless another client came
\* between the comparison of the hash and the unpacking.
THEOREM NoWrongArchive == Spec => []WrongArchiveRefused
<1>1. FilesInv => WrongArchiveRefused
    BY DEF FilesInv
<1> QED
    BY <1>1, FilesInvariance, PTL

\* Clients that all came to their end have left no temporary directory.
THEOREM NothingLeft == Spec => []NothingLeftBehind
<1>1. FilesInv => NothingLeftBehind
    BY DEF FilesInv, DirectoryInUse, NothingLeftBehind
<1> QED
    BY <1>1, FilesInvariance, PTL
=============================================================================
