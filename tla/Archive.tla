------------------------------ MODULE Archive ------------------------------
(***************************************************************************)
(* A directory on its way through an archive: ArchiveManager::createArchive*)
(* walks it and writes one entry per directory and regular file, with the  *)
(* files' contents compressed by zstd::compress; unpackArchive reads the   *)
(* entries back and rebuilds the directory.                                *)
(*                                                                         *)
(* A path is the sequence of its names. The archive is a sequence of units:*)
(* a header field is one unit, and so is a frame's start, one compressed   *)
(* block, and a frame's end; sizes of compressed data count units. Byte i  *)
(* of the file at path p is <<p, i>>, so that no two bytes are alike.      *)
(***************************************************************************)
EXTENDS Naturals, SequencesExt

CONSTANTS READ_SIZE,     \* ZSTD_DStreamInSize(), the size of both read buffers
          BLOCK_SIZE,    \* what the library collects before it makes a block
          PATH_MAX_LEN,  \* longest path an entry may have
          Names,         \* file names
          ROOT,          \* directory.filename()
          Trees,         \* the directories that are packed
          Faults         \* which of AllFaults may happen

AllFaults == {"exists",  \* the archive's path is taken
              "disk",    \* the sender's disk is full from some write on
              "walk",    \* something in the directory cannot be looked at
              "gone",    \* the archive is not there when it is unpacked
              "open"}    \* a file cannot be created in the target directory

ASSUME ArchiveAssumption ==
    /\ READ_SIZE \in Nat \ {0}
    /\ BLOCK_SIZE \in Nat \ {0}
    /\ PATH_MAX_LEN \in Nat \ {0}
    /\ Faults \subseteq AllFaults

Kinds == {"directory", "file", "unreadable", "special", "link"}

\* A directory under its name, with whatever it holds and its links lead to. A
\* link leads to what it finally leads to, or nowhere.
IsTree(t) ==
    /\ \A p \in DOMAIN t :
           /\ p \in Seq(Names) \ {<<>>}
           /\ t[p] \in [kind : Kinds, size : Nat, to : Seq(Names)]
           /\ t[p].kind # "file" => t[p].size = 0
           /\ t[p].kind = "link" /\ t[p].to \in DOMAIN t =>
                  t[t[p].to].kind # "link"
    /\ <<ROOT>> \in DOMAIN t /\ t[<<ROOT>>].kind = "directory"

ASSUME TreesAssumption == \A t \in Trees : IsTree(t)

VARIABLES tree,      \* path -> what is there: kind, size of a file, link target
          pc,        \* where createArchive or, after it, unpackArchive is
          happened,  \* which of the faults have happened
          stack,     \* the calls of packDirectory, innermost last
          file,      \* the call of addFile: what zstd::compress has yet to read
          cctx,      \* the library's compression context
          archive,   \* the archive's units
          put,       \* the write position in it
          visited,   \* the entries begun: path, what is packed, put then
          get,       \* the read position in it
          entry,     \* the file being unpacked: what zstd::decompress expects
          unpacked   \* the rebuilt directory

outVars == <<archive, put, happened>>
packVars == <<stack, file, cctx, visited>>
unpackVars == <<get, entry, unpacked>>
vars == <<tree, pc, outVars, packVars, unpackVars>>

Ended == {"done", "pack_failed", "unpack_failed", "garbled"}

Lesser(a, b) == IF a < b THEN a ELSE b

Content(p) == [i \in 1 .. tree[p].size |-> <<p, i>>]

\* status() follows a symbolic link.
Target(p) == IF tree[p].kind = "link" THEN tree[p].to ELSE p

Kind(p) == IF Target(p) \in DOMAIN tree THEN tree[Target(p)].kind ELSE "missing"

Children(dir) == {p \in DOMAIN tree : Len(p) = Len(dir) + 1 /\ Front(p) = dir}

NoFile == [rest |-> <<>>, pos |-> 0, bytes_written |-> 0]
NewCCtx == [begun |-> FALSE, held |-> <<>>, owed |-> <<>>]
NoEntry == [path |-> <<>>, left_to_read |-> 0, in_frame |-> FALSE]

Happens(f) == f \in Faults /\ happened' = happened \cup {f}

Init ==
    /\ tree \in Trees
    /\ pc = "create"
    /\ happened = {}
    /\ stack = <<>>
    /\ file = NoFile
    /\ cctx = NewCCtx
    /\ visited = <<>>
    /\ archive = <<>>
    /\ put = 0
    /\ get = 0
    /\ entry = NoEntry
    /\ unpacked = [p \in {} |-> [kind |-> "directory", data |-> <<>>]]

-----------------------------------------------------------------------------
(* The archive as a stream. *)

Unit(field, value) == [field |-> field, value |-> value]

\* Units written at position at, over what is there.
Overwrite(at, units) ==
    SubSeq(archive, 1, at) \o units
        \o SubSeq(archive, at + Len(units) + 1, Len(archive))

\* ofstream::write. Nobody looks at the state of the stream: when the disk is
\* full some of it is written, and after that nothing is.
Write(units) ==
    \/ /\ "disk" \notin happened
       /\ archive' = Overwrite(put, units)
       /\ put' = put + Len(units)
       /\ UNCHANGED happened
    \/ /\ "disk" \notin happened
       /\ Happens("disk")
       /\ \E k \in 0 .. Len(units) - 1 :
              /\ archive' = Overwrite(put, SubSeq(units, 1, k))
              /\ put' = put + k
    \/ "disk" \in happened /\ UNCHANGED outVars

\* FSEntryInfo::writeToStream. The compressed length is filled in later.
Header(kind, path) ==
    <<Unit("type", kind), Unit("path_length", Len(path))>>
        \o [i \in 1 .. Len(path) |-> Unit("name", path[i])]
        \o <<Unit("compressed_length", 0)>>

\* Mistake: the write position is one too far.
SeekPastEnd == Len(archive) + 1

SeekEnd == Len(archive)

WriteCompressedLength(pos, total_written) ==
    /\ archive' = Overwrite(pos, <<Unit("compressed_length", total_written)>>)
    /\ put' = SeekEnd

-----------------------------------------------------------------------------
(* ArchiveManager::createArchive and packDirectory *)

PackFails ==
    /\ pc' = "pack_failed"
    /\ UNCHANGED <<tree, packVars, unpackVars>>

\* visited records that an entry begins here; nothing depends on it.
Visit(path, node) ==
    visited' = Append(visited, [path |-> path, node |-> node, start |-> put])

\* packDirectory, called from calls: the directory's entry, then its children.
PackDirectory(calls, dir, relative_path) ==
    /\ Write(Header("directory", relative_path))
    /\ Visit(relative_path, dir)
    /\ stack' = Append(calls, [relative_path |-> relative_path,
                               todo |-> Children(dir)])
    /\ pc' = "pack"
    /\ UNCHANGED <<tree, file, cctx, unpackVars>>

CreateArchive ==
    /\ pc = "create"
    /\ \/ PackDirectory(<<>>, <<ROOT>>, <<ROOT>>)
       \/ Happens("exists") /\ PackFails /\ UNCHANGED <<archive, put>>

\* addFile: the header first; then the file is opened, which may fail.
AddFile(p, relative_path) ==
    /\ Write(Header("file", relative_path))
    /\ Visit(relative_path, p)
    /\ pc' = IF tree[p].kind = "unreadable" THEN "pack_failed" ELSE "compress"
    /\ file' = [rest |-> Content(p), bytes_written |-> 0,
                pos |-> put + Len(Header("file", relative_path)) - 1]
    /\ cctx' = NewCCtx
    /\ UNCHANGED <<tree, unpackVars>>

\* Mistake: the constructor takes paths of every length.
TooLongNever(path) == FALSE

\* FSEntryInfo's constructor refuses a path that is too long.
TooLong(path) == Len(path) > PATH_MAX_LEN

\* The loop goes on with the next child.
Skip(calls) ==
    /\ stack' = calls
    /\ UNCHANGED <<tree, pc, outVars, file, cctx, visited, unpackVars>>

\* Mistake: an entry whose path is too long is passed over.
SkipTooLong(calls) == Skip(calls)

RefuseTooLong(calls) == PackFails /\ UNCHANGED outVars

\* One round of packDirectory's loop. What is neither a directory nor a
\* regular file is passed over.
PackChild(p) ==
    LET relative_path == Append(Last(stack).relative_path, Last(p))
        calls == [stack EXCEPT ![Len(stack)].todo = @ \ {p}]
    IN  \/ Kind(p) \in {"special", "missing"} /\ Skip(calls)
        \/ /\ Kind(p) \notin {"special", "missing"} /\ TooLong(relative_path)
           /\ RefuseTooLong(calls)
        \/ /\ Kind(p) = "directory" /\ ~TooLong(relative_path)
           /\ PackDirectory(calls, Target(p), relative_path)
        \/ /\ Kind(p) \in {"file", "unreadable"} /\ ~TooLong(relative_path)
           /\ AddFile(Target(p), relative_path)
           /\ stack' = calls

\* A call of packDirectory returns, at last the outermost one.
PackReturns ==
    /\ Last(stack).todo = {}
    /\ stack' = Front(stack)
    /\ pc' = IF Len(stack) = 1 THEN "packed" ELSE "pack"
    /\ UNCHANGED <<tree, outVars, file, cctx, visited, unpackVars>>

\* is_directory or directory_iterator throws: no permission, or so many links
\* on the way that the system gives up before the path is too long.
WalkThrows == Happens("walk") /\ PackFails /\ UNCHANGED <<archive, put>>

\* directory_iterator visits the children in no particular order.
Pack ==
    /\ pc = "pack"
    /\ PackReturns \/ WalkThrows \/ \E p \in Last(stack).todo : PackChild(p)

-----------------------------------------------------------------------------
(* zstd::compress *)

\* ZSTD_compressStream2 takes all of its input. It makes a block whenever it
\* has collected BLOCK_SIZE bytes; only ZSTD_e_end turns the rest into a block
\* and ends the frame.
CompressStream2(bytes, e_end) ==
    LET all == cctx.held \o bytes
        full == Len(all) \div BLOCK_SIZE
        rest == SubSeq(all, full * BLOCK_SIZE + 1, Len(all))
        begin == IF cctx.begun \/ (full = 0 /\ ~e_end) THEN <<>>
                 ELSE <<Unit("frame", <<>>)>>
        blocks == [i \in 1 .. full |->
                      Unit("block", SubSeq(all, (i - 1) * BLOCK_SIZE + 1,
                                           i * BLOCK_SIZE))]
        finish == IF e_end THEN <<Unit("block", rest), Unit("end", <<>>)>>
                  ELSE <<>>
    IN  [begun |-> cctx.begun \/ begin # <<>>,
         held |-> IF e_end THEN <<>> ELSE rest,
         owed |-> cctx.owed \o begin \o blocks \o finish]

\* Mistake: the last chunk is recognised by being full.
IsLastChunkWhenFull(read) == read = READ_SIZE

IsLastChunk(read) == read < READ_SIZE

\* Mistake: the whole buffer is handed on, with old bytes behind the new ones.
InBufferWhole(read) ==
    [i \in 1 .. READ_SIZE |-> file.rest[IF i <= read THEN i ELSE 1]]

InBuffer(read) == SubSeq(file.rest, 1, read)

\* One chunk of the file. The block that was made last may stay with the library
\* until the next call; when the frame ends, the inner loop goes on until all
\* of it is out.
CompressChunk ==
    LET read == Lesser(READ_SIZE, Len(file.rest))
        next == CompressStream2(InBuffer(read), IsLastChunk(read))
    IN  /\ pc = "compress"
        /\ read > 0
        /\ \E n \in 0 .. Len(next.owed) :
               /\ Len(next.owed) - n <= IF IsLastChunk(read) THEN 0 ELSE 1
               /\ Write(SubSeq(next.owed, 1, n))
               /\ cctx' = [next EXCEPT !.owed = SubSeq(@, n + 1, Len(@))]
               /\ file' = [file EXCEPT !.rest = SubSeq(@, read + 1, Len(@)),
                                       !.bytes_written = @ + n]
        /\ UNCHANGED <<tree, pc, stack, visited, unpackVars>>

\* Nothing more was read. The length is filled in, if the stream still works.
AddFileReturns ==
    /\ pc = "compress"
    /\ file.rest = <<>>
    /\ pc' = "pack"
    /\ IF "disk" \in happened THEN UNCHANGED <<archive, put>>
       ELSE WriteCompressedLength(file.pos, file.bytes_written)
    /\ UNCHANGED <<tree, happened, packVars, unpackVars>>

-----------------------------------------------------------------------------
(* ArchiveManager::unpackArchive, FSEntryInfo::readFromStream *)

UnpackFails ==
    /\ pc' = "unpack_failed"
    /\ UNCHANGED <<tree, archive, put, packVars, unpackVars>>

UnpackArchive ==
    /\ pc = "packed"
    /\ \/ pc' = "unpack" /\ UNCHANGED <<tree, outVars, packVars, unpackVars>>
       \/ Happens("gone") /\ UnpackFails

RemainingBytes == Len(archive) - get

Field(i) == archive[get + i]
PathLength == Field(2).value
HeaderLength == 3 + PathLength
RelativePath == [i \in 1 .. PathLength |-> Field(2 + i).value]
CompressedLength == Field(HeaderLength).value

\* readFromStream gets every field whole, and there is as much data left as
\* the entry says.
EntryReadable ==
    /\ RemainingBytes >= 2
    /\ PathLength <= PATH_MAX_LEN
    /\ RemainingBytes >= HeaderLength
    /\ CompressedLength <= RemainingBytes - HeaderLength

Place(path, kind) ==
    [p \in DOMAIN unpacked \cup {path} |->
        IF p = path THEN [kind |-> kind, data |-> <<>>] ELSE unpacked[p]]

\* unpackFile opens the file, which takes a directory it can be created in.
OpenOutput ==
    \/ /\ Len(RelativePath) > 1 /\ Front(RelativePath) \in DOMAIN unpacked
       /\ unpacked' = Place(RelativePath, "file")
       /\ entry' = [path |-> RelativePath, left_to_read |-> CompressedLength,
                    in_frame |-> FALSE]
       /\ get' = get + HeaderLength
       /\ pc' = "decompress"
       /\ UNCHANGED <<tree, outVars, packVars>>
    \/ Happens("open") /\ UnpackFails

ReadEntry ==
    /\ pc = "unpack"
    /\ RemainingBytes > 0
    /\ \/ /\ Field(1).field # "type"   \* compressed data taken for a header
          /\ pc' = "garbled"
          /\ UNCHANGED <<tree, outVars, packVars, unpackVars>>
       \/ /\ Field(1).field = "type" /\ ~EntryReadable
          /\ UnpackFails /\ UNCHANGED happened
       \/ /\ Field(1).field = "type" /\ EntryReadable
          /\ Field(1).value = "directory"
          /\ unpacked' = Place(RelativePath, "directory")
          /\ get' = get + HeaderLength
          /\ UNCHANGED <<tree, pc, outVars, packVars, entry>>
       \/ /\ Field(1).field = "type" /\ EntryReadable
          /\ Field(1).value = "file"
          /\ OpenOutput

UnpackReturns ==
    /\ pc = "unpack"
    /\ RemainingBytes = 0
    /\ pc' = "done"
    /\ UNCHANGED <<tree, outVars, packVars, unpackVars>>

-----------------------------------------------------------------------------
(* zstd::decompress *)

\* ZSTD_decompressStream takes frames, and reports everything else. A frame
\* that has not ended is no error.
Decodable(units) ==
    \A i \in DOMAIN units :
        LET in_frame == IF i = 1 THEN entry.in_frame
                        ELSE units[i - 1].field # "end"
        IN  units[i].field \in IF in_frame THEN {"block", "end"} ELSE {"frame"}

Bytes(unit) == IF unit.field = "block" THEN unit.value ELSE <<>>

\* What comes out of the units of a frame.
Decompressed(units) ==
    LET out[i \in 0 .. Len(units)] ==
            IF i = 0 THEN <<>> ELSE out[i - 1] \o Bytes(units[i])
    IN  out[Len(units)]

\* Mistake: every chunk fills the buffer, the last one too.
ChunkSizeOfBuffer(left_to_read) == Lesser(READ_SIZE, RemainingBytes)

ChunkSize(left_to_read) == Lesser(READ_SIZE, left_to_read)

DecompressChunk ==
    LET size == ChunkSize(entry.left_to_read)
        units == SubSeq(archive, get + 1, get + size)
    IN  /\ pc = "decompress"
        /\ entry.left_to_read > 0
        /\ IF Decodable(units)
           THEN /\ unpacked' = [unpacked EXCEPT ![entry.path].data =
                                @ \o Decompressed(units)]
                /\ entry' = [entry EXCEPT
                       !.left_to_read = IF @ > size THEN @ - size ELSE 0,
                       !.in_frame = Last(units).field # "end"]
                /\ get' = get + size
                /\ UNCHANGED <<tree, pc, outVars, packVars>>
           ELSE UnpackFails /\ UNCHANGED happened

DecompressReturns ==
    /\ pc = "decompress"
    /\ entry.left_to_read = 0
    /\ pc' = "unpack"
    /\ UNCHANGED <<tree, outVars, packVars, unpackVars>>

-----------------------------------------------------------------------------
Terminated == pc \in Ended /\ UNCHANGED vars

Next ==
    \/ CreateArchive \/ Pack \/ CompressChunk \/ AddFileReturns
    \/ UnpackArchive \/ ReadEntry \/ UnpackReturns
    \/ DecompressChunk \/ DecompressReturns
    \/ Terminated

Spec == Init /\ [][Next]_vars

-----------------------------------------------------------------------------
(* Properties. *)

\* A byte of a file, and what an archive is made of.
FileBytes == Seq(Names) \X Nat

Units ==
    [field : {"type"}, value : {"directory", "file"}]
    \cup [field : {"path_length", "compressed_length"}, value : Nat]
    \cup [field : {"name"}, value : Names]
    \cup [field : {"frame", "end"}, value : {<<>>}]
    \cup [field : {"block"}, value : Seq(FileBytes)]

TypeOK ==
    /\ tree \in Trees
    /\ pc \in Ended \cup {"create", "pack", "compress", "packed", "unpack",
                          "decompress"}
    /\ happened \subseteq Faults
    /\ stack \in Seq([relative_path : Seq(Names), todo : SUBSET DOMAIN tree])
    /\ file \in [rest : Seq(FileBytes), pos : Nat, bytes_written : Nat]
    /\ cctx \in [begun : BOOLEAN, held : Seq(FileBytes), owed : Seq(Units)]
    /\ visited \in Seq([path : Seq(Names), node : DOMAIN tree, start : Nat])
    /\ archive \in Seq(Units)
    /\ put \in 0 .. Len(archive)
    /\ get \in 0 .. Len(archive)
    /\ entry \in [path : Seq(Names), left_to_read : Nat, in_frame : BOOLEAN]
    /\ \A p \in DOMAIN unpacked :
           /\ p \in Seq(Names)
           /\ unpacked[p] \in [kind : {"directory", "file"}, data : Seq(FileBytes)]

\* A way through the directory as packDirectory takes it: from each directory
\* to something in it, links followed.
IsWalk(w) ==
    /\ w[1] = <<ROOT>>
    /\ \A i \in 2 .. Len(w) :
           /\ Kind(w[i - 1]) = "directory"
           /\ w[i] \in Children(Target(w[i - 1]))

Walks(n) == {w \in [1 .. n -> DOMAIN tree] : IsWalk(w)}

\* The path such a way has in the archive, and what is at its end.
PathOf(w) == [i \in DOMAIN w |-> Last(w[i])]
EndOf(w) == Target(Last(w))

\* Ways that lead to something that is packed.
PackedWalks(n) == {w \in Walks(n) : Kind(Last(w)) \in {"directory", "file"}}

\* A file that fills its last chunk: compress never tells the library to end.
FillsLastChunk(p) == tree[p].size > 0 /\ tree[p].size % READ_SIZE = 0

\* A directory that went through an archive undisturbed is there again, with
\* every subdirectory and every byte of every regular file, whatever their
\* sizes, their number and the order they were visited in. Only a file that
\* fills its last chunk may lose its end.
RoundTrip ==
    pc = "done" /\ happened = {} =>
        /\ DOMAIN unpacked =
               {PathOf(w) : w \in UNION {PackedWalks(n) : n \in 1 .. PATH_MAX_LEN}}
        /\ \A n \in 1 .. PATH_MAX_LEN : \A w \in PackedWalks(n) :
               /\ unpacked[PathOf(w)].kind = Kind(Last(w))
               /\ \/ unpacked[PathOf(w)].data = Content(EndOf(w))
                  \/ FillsLastChunk(EndOf(w))

\* ZstdTests and DirectoryCompressorTests compare what comes out with what
\* went in, for whatever input they are given.
RoundTripOfEverySize ==
    pc = "done" /\ happened = {} =>
        \A n \in 1 .. PATH_MAX_LEN : \A w \in PackedWalks(n) :
            unpacked[PathOf(w)].data = Content(EndOf(w))

\* An archive this program wrote can always be read: no length leads the
\* reader into compressed data or past the end, and no part of it is refused.
OwnArchiveUnpacks == pc \in {"unpack_failed", "garbled"} => happened # {}

\* Unpacking never makes anything up. Whatever was lost on the sender's disk,
\* every path comes from the packed directory, and every file is the beginning
\* of the one that was packed.
NothingInvented ==
    \A p \in DOMAIN unpacked :
        \E w \in PackedWalks(Len(p)) :
            /\ PathOf(w) = p
            /\ unpacked[p].kind = Kind(Last(w))
            /\ IsPrefix(unpacked[p].data, Content(EndOf(w)))

\* A directory that cannot be packed whole is refused, and no part of it is
\* taken for the whole: one with an unreadable file, one with a path that is
\* too long, and one that contains itself by a link, which packDirectory
\* follows until the path is too long.
NoPartForTheWhole ==
    pc = "packed" =>
        \A n \in 1 .. PATH_MAX_LEN + 1 : \A w \in Walks(n) :
            /\ Kind(Last(w)) # "unreadable"
            /\ n > PATH_MAX_LEN => Kind(Last(w)) \in {"special", "missing"}
            /\ \A i \in 1 .. n - 1 : EndOf(w) # Target(w[i])

\* packDirectory follows no way twice, and none further than PATH_MAX_LEN names.
\* There are only so many of these: packing comes to an end, also for a
\* directory that leads back to itself by a link.
EveryWayOnce ==
    \A i, j \in DOMAIN visited :
        /\ Len(visited[i].path) <= PATH_MAX_LEN
        /\ visited[i].path = visited[j].path => i = j
=============================================================================
