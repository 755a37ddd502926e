--------------------------- MODULE Archive_proofs ---------------------------
(***************************************************************************)
(* Proofs about Archive, for every directory, every size of file, buffer   *)
(* and block, and every fault: what was packed is found again by its       *)
(* lengths, what comes out is the beginning of what went in and, if        *)
(* nothing failed, all of it, and no part is taken for the whole.          *)
(***************************************************************************)
EXTENDS ArchiveWalk_proofs

-----------------------------------------------------------------------------
(* The steps of packing *)

Packing == {"create", "pack", "compress", "pack_failed", "packed"}

UnpackType ==
    /\ get \in 0 .. Len(archive)
    /\ entry \in [path : Seq(Names), left_to_read : Nat, in_frame : BOOLEAN]
    /\ \A p \in DOMAIN unpacked :
           /\ p \in Seq(Names)
           /\ unpacked[p] \in [kind : {"directory", "file"}, data : Seq(FileBytes)]

\* The type invariant, by component.
Typed ==
    /\ LayoutType
    /\ pc \in Ended \cup {"create", "pack", "compress", "packed", "unpack", "decompress"}
    /\ happened \subseteq Faults
    /\ stack \in Seq(Frames)
    /\ file \in FileType
    /\ cctx \in CCtxType
    /\ put \in 0 .. Len(archive)
    /\ UnpackType

\* TypeOK, regrouped by what packing and what unpacking change.
LEMMA TypedIs == TypeOK <=> Typed
BY DEF TypeOK, Typed, LayoutType, Frames, FileType, CCtxType, UnpackType

\* The parts of the invariant that packing builds up.
PackInv == WalkInv /\ Sequenced /\ HeaderKept /\ DataKept /\ Compressing

UnpackInv == Rebuilt /\ Decompressing /\ OwnArchiveUnpacks

\* The invariant in three parts: types, packing, unpacking. Most steps disturb
\* one of them.
LEMMA Parts == ArchiveInv <=> Typed /\ PackInv /\ UnpackInv
BY TypedIs DEF ArchiveInv, PackInv, WalkInv, UnpackInv

StartsTyped == \A i \in 1 .. Len(visited) : Start(i) \in Nat

\* The layout gives every entry its positions.
LEMMA StartsAre == LayoutType /\ Sequenced => StartsTyped
BY LayoutTypes DEF StartsTyped

\* Nothing is unpacked meanwhile.
LEMMA StillPacking ==
    ASSUME Typed, Sequenced, Rebuilt, LayoutType', Sequenced',
           pc \in Packing, pc' \in Packing, UNCHANGED unpackVars
    PROVE  UnpackType' /\ UnpackInv'
<1>1. get' = 0 /\ get = 0 /\ entry' = entry /\ unpacked' = unpacked
    BY DEF Rebuilt, Packing, unpackVars
<1>2. \A i \in 1 .. Len(visited) : Start(i) \in Nat
    BY LayoutTypes DEF Typed
<1>3. \A i \in 1 .. Len(visited') : Start(i)' \in Nat
    <2>1. StartsTyped'
        BY StartsAre, PTL
    <2> QED
        BY <2>1 DEF StartsTyped
<1>4. \A p : p \notin DOMAIN unpacked
    <2>1. ASSUME NEW p \in DOMAIN unpacked PROVE FALSE
        <3>1. PICK i \in 1 .. Len(visited) : Start(i) < get
            BY DEF Rebuilt
        <3>2. Start(i) \in Nat
            BY <1>2
        <3> QED
            BY <3>1, <3>2, <1>1
    <2> QED
        BY <2>1
<1>5. ASSUME NEW i \in 1 .. Len(visited') PROVE ~(Start(i)' < get')
    <2>1. Start(i)' \in Nat
        BY <1>3
    <2> QED
        BY <2>1, <1>1
<1>6. UnpackType'
    <2>1. Len(archive') \in Nat
        BY LenProperties DEF LayoutType
    <2>2. get' \in 0 .. Len(archive')
        BY <2>1, <1>1
    <2>3. entry' \in [path : Seq(Names), left_to_read : Nat, in_frame : BOOLEAN]
        BY <1>1 DEF Typed, UnpackType
    <2> QED
        BY <2>2, <2>3, <1>1, <1>4 DEF UnpackType
<1>7. Rebuilt'
    BY <1>1, <1>4, <1>5 DEF Rebuilt, Packing
<1>8. Decompressing' /\ OwnArchiveUnpacks'
    BY DEF Decompressing, OwnArchiveUnpacks, Packing
<1> QED
    BY <1>6, <1>7, <1>8 DEF UnpackInv

\* A directory's header is written and its children are still to be visited.
LEMMA PackDirectoryKeeps ==
    ASSUME ArchiveInv, pc \in {"create", "pack"},
           NEW calls \in Seq(Frames),
           \A s \in 1 .. Len(calls) : \E r \in 1 .. Len(stack) :
               /\ calls[s].relative_path = stack[r].relative_path
               /\ calls[s].todo \subseteq stack[r].todo,
           NEW path \in Seq(Names), NEW dir \in DOMAIN tree, Leads(path, dir),
           Len(path) \in 1 .. PATH_MAX_LEN, tree[dir].kind = "directory",
           visited = <<>> => path = <<ROOT>> /\ dir = <<ROOT>>,
           PackDirectory(calls, dir, path), PendingGoesOn
    PROVE  ArchiveInv'
<1>1. Typed /\ PackInv /\ UnpackInv
    BY Parts
<1>2. /\ Write(Header("directory", path)) /\ Visit(path, dir)
      /\ stack' = Append(calls, [relative_path |-> path, todo |-> Children(dir)])
      /\ pc' = "pack" /\ tree' = tree /\ file' = file /\ cctx' = cctx /\ UNCHANGED unpackVars
    BY DEF PackDirectory
<1>3. /\ LayoutType' /\ put' \in 0 .. Len(archive')
      /\ happened' \subseteq Faults
      /\ Sequenced' /\ HeaderKept' /\ DataKept' /\ Compressing'
    <2>1. LayoutType /\ happened \subseteq Faults /\ Sequenced /\ HeaderKept /\ DataKept
        BY <1>1 DEF Typed, PackInv
    <2>2. PICK kind \in {"directory", "file"} : kind = "directory"
        OBVIOUS
    <2>3. kind = IF tree[dir].kind = "directory" THEN "directory" ELSE "file"
        BY <2>2
    <2>4. pc # "compress" /\ pc' # "compress" /\ tree[dir].kind # "file"
        BY <1>2
    <2>5. Write(Header(kind, path))
        BY <2>2, <1>2
    <2> QED
        BY <2>1, <2>3, <2>4, <2>5, <1>2, BeginKeepsLayout
<1>4. PICK e \in Entries : e.path = path /\ e.node = dir /\ visited' = Append(visited, e)
    <2>1. put \in Nat
        BY <1>1, LenProperties DEF Typed, LayoutType
    <2>2. [path |-> path, node |-> dir, start |-> put] \in Entries
        BY <2>1 DEF Entries
    <2> QED
        BY <2>2, <1>2 DEF Visit
<1>5. WalkInv' /\ stack' \in Seq(Frames)
    <2>1. WalkInv /\ tree \in Trees /\ visited \in Seq(Entries)
        BY <1>1 DEF PackInv, Typed, LayoutType, Entries
    <2>2. stack' = Append(calls, [relative_path |-> e.path, todo |-> Children(e.node)])
        BY <1>2, <1>4
    <2> QED
        BY <2>1, <2>2, <1>2, <1>4, DirectoryVisited
<1>6. UnpackType' /\ UnpackInv'
    BY <1>1, <1>2, <1>3, StillPacking DEF PackInv, UnpackInv, Packing
<1>7. Typed'
    BY <1>1, <1>2, <1>3, <1>5, <1>6 DEF Typed, Frames, FileType, CCtxType
<1>8. PackInv'
    BY <1>3, <1>5 DEF PackInv
<1> QED
    BY <1>6, <1>7, <1>8, Parts, PTL

\* A file's header is written, with a length of 0.
LEMMA AddFileKeeps ==
    ASSUME ArchiveInv, pc = "pack", visited # <<>>,
           NEW path \in Seq(Names), NEW node \in DOMAIN tree, Leads(path, node),
           Len(path) \in 1 .. PATH_MAX_LEN, tree[node].kind \in {"file", "unreadable"},
           AddFile(node, path), stack' \in Seq(Frames), stack' # <<>>,
           \A s \in 1 .. Len(stack') : \E r \in 1 .. Len(stack) :
               /\ stack'[s].relative_path = stack[r].relative_path
               /\ stack'[s].todo \subseteq stack[r].todo,
           PendingGoesOn
    PROVE  ArchiveInv'
<1>1. Typed /\ PackInv /\ UnpackInv
    BY Parts
<1>2. /\ Write(Header("file", path)) /\ Visit(path, node)
      /\ pc' = IF tree[node].kind = "unreadable" THEN "pack_failed" ELSE "compress"
      /\ file' = [rest |-> Content(node), bytes_written |-> 0,
                  pos |-> put + Len(Header("file", path)) - 1]
      /\ cctx' = NewCCtx
      /\ tree' = tree /\ UNCHANGED unpackVars
    BY DEF AddFile
<1>3. /\ LayoutType' /\ put' \in 0 .. Len(archive')
      /\ happened' \subseteq Faults
      /\ Sequenced' /\ HeaderKept' /\ DataKept' /\ Compressing'
    <2>1. LayoutType /\ happened \subseteq Faults /\ Sequenced /\ HeaderKept /\ DataKept
        BY <1>1 DEF Typed, PackInv
    <2>2. PICK kind \in {"directory", "file"} : kind = "file"
        OBVIOUS
    <2>3. kind = IF tree[node].kind = "directory" THEN "directory" ELSE "file"
        BY <2>2
    <2>4. pc # "compress" /\ (pc' = "compress" <=> tree[node].kind = "file")
        BY <1>2
    <2>5. Write(Header(kind, path))
        BY <2>2, <1>2
    <2>6. file' = [rest |-> Content(node), bytes_written |-> 0,
                   pos |-> put + Len(Header(kind, path)) - 1]
        BY <2>2, <1>2
    <2> QED
        BY <2>1, <2>3, <2>4, <2>5, <2>6, <1>2, BeginKeepsLayout
<1>4. put \in Nat
    BY <1>1, LenProperties DEF Typed, LayoutType
<1>5. PICK e \in Entries : e.path = path /\ e.node = node /\ visited' = Append(visited, e)
    <2>1. [path |-> path, node |-> node, start |-> put] \in Entries
        BY <1>4 DEF Entries
    <2> QED
        BY <2>1, <1>2 DEF Visit
<1>6. WalkInv'
    <2>1. WalkInv /\ tree \in Trees /\ visited \in Seq(Entries)
        BY <1>1 DEF PackInv, Typed, LayoutType, Entries
    <2> QED
        BY <2>1, <1>2, <1>5, FileVisited
<1>7. file' \in FileType /\ cctx' \in CCtxType
    <2>1. Content(node) \in Seq(FileBytes)
        BY <1>1, ContentIs DEF Typed, LayoutType
    <2>2. PICK l \in Nat : Len(Header("file", path)) = 3 + l
        BY HeaderIs
    <2>3. put + Len(Header("file", path)) - 1 \in Nat
        BY <2>2, <1>4
    <2>4. <<>> \in Seq(FileBytes) /\ <<>> \in Seq(Units)
        OBVIOUS
    <2> QED
        BY <2>1, <2>3, <2>4, <1>2 DEF FileType, CCtxType, NewCCtx
<1>8. UnpackType' /\ UnpackInv'
    BY <1>1, <1>2, <1>3, StillPacking DEF PackInv, UnpackInv, Packing
<1>9. pc' \in Ended \cup {"create", "pack", "compress", "packed", "unpack", "decompress"}
    BY <1>2 DEF Ended
<1>10. Typed'
    BY <1>2, <1>3, <1>7, <1>8, <1>9 DEF Typed, Frames, FileType, CCtxType
<1>11. PackInv'
    BY <1>3, <1>6 DEF PackInv
<1> QED
    BY <1>8, <1>10, <1>11, Parts, PTL

\* Steps that leave the archive and the entries alone while packing.
LEMMA PackSame ==
    ASSUME ArchiveInv, pc \in Packing, pc' \in Packing, pc # "compress", pc' # "compress",
           UNCHANGED <<tree, archive, put, visited, file, cctx, unpackVars>>,
           happened' \subseteq Faults, Intact' <=> Intact, stack' \in Seq(Frames), WalkInv'
    PROVE  ArchiveInv'
<1>1. Typed /\ PackInv /\ UnpackInv
    BY Parts
<1>2. LayoutType' /\ Sequenced' /\ HeaderKept' /\ DataKept' /\ Compressing'
    BY <1>1, SameLayout DEF Typed, PackInv
<1>3. UnpackType' /\ UnpackInv'
    BY <1>1, <1>2, StillPacking DEF PackInv, UnpackInv
<1>4. pc' \in Ended \cup {"create", "pack", "compress", "packed", "unpack", "decompress"}
    BY DEF Ended, Packing
<1>5. Typed'
    BY <1>1, <1>2, <1>3, <1>4 DEF Typed, Frames, FileType, CCtxType
<1>6. PackInv'
    BY <1>2 DEF PackInv
<1> QED
    BY <1>3, <1>5, <1>6, Parts, PTL

\* What the types say of the calls.
LEMMA SeqOfFrames ==
    ASSUME Typed
    PROVE  /\ tree \in Trees /\ visited \in Seq(Entries) /\ stack \in Seq(Frames)
           /\ happened \subseteq Faults
BY DEF Typed, LayoutType, Entries

\* createArchive begins with the directory itself, or refuses.
LEMMA CreateArchiveKeeps ==
    ASSUME ArchiveInv, CreateArchive
    PROVE  ArchiveInv'
<1>1. Typed /\ PackInv /\ UnpackInv
    BY Parts
<1>2. pc = "create" /\ visited = <<>> /\ stack = <<>>
    <2>1. pc = "create" /\ visited = <<>>
        BY <1>1 DEF CreateArchive, PackInv, WalkInv, Visits
    <2>2. \A s \in 1 .. Len(stack) : FALSE
        BY <1>1, <2>1 DEF PackInv, WalkInv, Calls
    <2>3. stack \in Seq(Frames)
        BY <1>1 DEF Typed
    <2>4. Len(stack) = 0
        <3>1. PICK n \in Nat : n = Len(stack)
            BY <2>3, LenProperties
        <3>2. n = 0
            BY <2>2, <3>1
        <3> QED
            BY <3>1, <3>2
    <2> QED
        BY <2>1, <2>3, <2>4, WholeOf
<1>3. CASE PackDirectory(<<>>, <<ROOT>>, <<ROOT>>)
    <2>1. tree \in Trees
        BY <1>1 DEF Typed, LayoutType
    <2>2. <<ROOT>> \in Seq(Names) /\ Len(<<ROOT>>) = 1 /\ Leads(<<ROOT>>, <<ROOT>>)
        BY <2>1, LeadsToRoot
    <2>3. <<ROOT>> \in DOMAIN tree /\ tree[<<ROOT>>].kind = "directory"
        BY <2>1, TreeIs
    <2>4. PendingGoesOn
        BY <1>2 DEF PendingGoesOn, Pending
    <2>5. PICK calls \in Seq(Frames), r \in Seq(Names), d \in DOMAIN tree :
              calls = <<>> /\ r = <<ROOT>> /\ d = <<ROOT>>
        <3>1. <<>> \in Seq(Frames)
            OBVIOUS
        <3> QED
            BY <2>2, <2>3, <3>1, Zenon
    <2>6. /\ PackDirectory(calls, d, r) /\ Leads(r, d) /\ Len(r) \in 1 .. PATH_MAX_LEN
          /\ tree[d].kind = "directory"
        BY <1>3, <2>2, <2>3, <2>5, ArchiveAssumption
    <2>7. \A s \in 1 .. Len(calls) : FALSE
        BY <2>5
    <2> QED
        BY <2>4, <2>5, <2>6, <2>7, <1>2, PackDirectoryKeeps
<1>4. CASE Happens("exists") /\ PackFails /\ UNCHANGED <<archive, put>>
    <2>1. /\ pc' = "pack_failed"
          /\ UNCHANGED <<tree, archive, put, visited, file, cctx, stack, unpackVars>>
        BY <1>4 DEF PackFails, packVars
    <2>2. happened' \subseteq Faults /\ (Intact' <=> Intact)
        BY <1>1, <1>4 DEF Happens, Intact, Typed
    <2>3. WalkInv'
        BY <2>1, <1>1, <1>2, SameWalk DEF PackInv
    <2>4. stack' \in Seq(Frames)
        BY <2>1, <1>1 DEF Typed
    <2> QED
        BY <2>1, <2>2, <2>3, <2>4, <1>2, PackSame DEF Packing
<1> QED
    BY <1>3, <1>4 DEF CreateArchive

\* The walk throws.
LEMMA WalkThrowsKeeps ==
    ASSUME ArchiveInv, pc = "pack", WalkThrows
    PROVE  ArchiveInv'
<1>1. Typed /\ PackInv /\ UnpackInv
    BY Parts
<1>2. /\ pc' = "pack_failed"
      /\ UNCHANGED <<tree, archive, put, visited, file, cctx, stack, unpackVars>>
    BY DEF WalkThrows, PackFails, packVars
<1>3. happened' \subseteq Faults /\ (Intact' <=> Intact)
    BY <1>1 DEF WalkThrows, Happens, Intact, Typed
<1>4. WalkInv'
    BY <1>1, <1>2, SameWalk DEF PackInv
<1>5. stack' \in Seq(Frames)
    BY <1>1, <1>2 DEF Typed
<1> QED
    BY <1>2, <1>3, <1>4, <1>5, PackSame DEF Packing

\* A call of packDirectory returns when all its children were visited.
LEMMA PackReturnsKeeps ==
    ASSUME ArchiveInv, pc = "pack", PackReturns
    PROVE  ArchiveInv'
<1>1. Typed /\ PackInv /\ UnpackInv
    BY Parts
<1>2. /\ tree \in Trees /\ visited \in Seq(Entries) /\ stack \in Seq(Frames)
      /\ happened \subseteq Faults
    BY <1>1, SeqOfFrames
<1>3. /\ Last(stack).todo = {} /\ stack' = Front(stack)
      /\ pc' = IF Len(stack) = 1 THEN "packed" ELSE "pack"
      /\ UNCHANGED <<tree, archive, put, happened, visited, file, cctx, unpackVars>>
    BY DEF PackReturns, outVars
<1>4. Visits /\ Calls /\ NoneForgotten
    BY <1>1 DEF PackInv, WalkInv
<1>5. PICK n \in Nat \ {0} : n = Len(stack)
    <2>1. stack # <<>>
        BY <1>4 DEF Calls
    <2> QED
        BY <2>1, <1>2, WholeOf
<1>6. /\ stack' \in Seq(Frames) /\ Len(stack') = n - 1
      /\ \A s \in 1 .. n - 1 : stack'[s] = stack[s]
    <2>1. stack' = SubSeq(stack, 1, n - 1)
        BY <1>3, <1>5 DEF Front
    <2>2. n - 1 \in 0 .. Len(stack)
        BY <1>5
    <2>3. SubSeq(stack, 1, n - 1) \in Seq(Frames) /\ Len(SubSeq(stack, 1, n - 1)) = n - 1
        BY <2>2, <1>2, BeginningOf
    <2>4. \A s \in 1 .. n - 1 : SubSeq(stack, 1, n - 1)[s] = stack[s]
        BY <2>2, <1>2, BeginningOf
    <2> QED
        BY <2>1, <2>3, <2>4
<1>7. stack[n].todo = {}
    BY <1>3, <1>5 DEF Last
<1>8. EntriesKept
    BY <1>3 DEF EntriesKept
<1>9. CallsGoOn
    <2>1. \A s \in 1 .. n - 1 : s \in 1 .. Len(stack)
        BY <1>5
    <2> QED
        BY <2>1, <1>6 DEF CallsGoOn
<1>10. PendingGoesOn
    <2>1. ASSUME NEW path, NEW c, Pending(path, c) PROVE Pending(path, c)'
        <3>1. PICK s \in 1 .. n : stack[s].relative_path = path /\ c \in stack[s].todo
            BY <2>1, <1>5 DEF Pending
        <3>2. s # n
            BY <3>1, <1>7
        <3>3. s \in 1 .. n - 1
            BY <3>2
        <3>4. s \in 1 .. Len(stack') /\ stack'[s] = stack[s]
            BY <3>3, <1>6
        <3> QED
            BY <3>1, <3>4 DEF Pending
    <2> QED
        BY <2>1 DEF PendingGoesOn
<1>11. Visits'
    BY <1>3, <1>4, SameVisits
<1>12. Calls'
    <2>1. pc' \in {"pack", "compress"} => stack' # <<>>
        <3>1. n # 1 => n - 1 # 0
            OBVIOUS
        <3>2. stack' = <<>> => Len(stack') = 0
            OBVIOUS
        <3> QED
            BY <3>1, <3>2, <1>3, <1>5, <1>6
    <2>2. pc' \notin {"create", "pack", "compress", "pack_failed"} => stack' = <<>>
        <3>1. n = 1 => Len(stack') = 0
            BY <1>6
        <3>2. Len(stack') = 0 => stack' = <<>>
            BY <1>6, WholeOf
        <3> QED
            BY <3>1, <3>2, <1>3, <1>5
    <2> QED
        BY <2>1, <2>2, <1>3, <1>4, <1>8, <1>9, CallsKept
<1>13. NoneForgotten'
    BY <1>3, <1>4, <1>8, <1>10, NoneForgottenKept
<1>14. WalkInv'
    BY <1>11, <1>12, <1>13 DEF WalkInv
<1>15. Intact' <=> Intact
    BY <1>3 DEF Intact
<1>16. pc' \in Packing /\ pc' # "compress"
    BY <1>3 DEF Packing
<1> QED
    BY <1>2, <1>3, <1>6, <1>14, <1>15, <1>16, PackSame DEF Packing

\* One child: passed over, refused, or packed as what it is or leads to.
LEMMA PackChildKeeps ==
    ASSUME ArchiveInv, pc = "pack", NEW p \in Last(stack).todo, PackChild(p)
    PROVE  ArchiveInv'
<1>1. Typed /\ PackInv /\ UnpackInv
    BY Parts
<1>2. /\ tree \in Trees /\ visited \in Seq(Entries) /\ stack \in Seq(Frames)
      /\ happened \subseteq Faults
    BY <1>1, SeqOfFrames
<1>3. WalkInv /\ Visits /\ Calls /\ NoneForgotten
    BY <1>1 DEF PackInv, WalkInv
<1>4. PICK path, calls :
          /\ path = Append(Last(stack).relative_path, Last(p))
          /\ calls = [stack EXCEPT ![Len(stack)].todo = @ \ {p}]
    OBVIOUS
<1>5. /\ stack # <<>> /\ visited # <<>>
      /\ p \in DOMAIN tree
      /\ path \in Seq(Names) /\ Len(path) \in Nat \ {0}
      /\ Leads(path, Target(p))
      /\ Kind(p) \notin {"special", "missing"} =>
             Target(p) \in DOMAIN tree /\ tree[Target(p)].kind = Kind(p)
    BY <1>2, <1>3, <1>4, ChildIs
<1>6. CallsWithout(p, calls)
    BY <1>2, <1>4, <1>5, CallsAre
<1>7. calls \in Seq(Frames) /\ Len(calls) = Len(stack) /\ Len(stack) \in Nat \ {0}
    BY <1>6 DEF CallsWithout
<1>8. \A s \in 1 .. Len(calls) : \E r \in 1 .. Len(stack) :
          /\ calls[s].relative_path = stack[r].relative_path
          /\ calls[s].todo \subseteq stack[r].todo
    BY <1>6 DEF CallsWithout
<1>9. CASE Kind(p) \in {"special", "missing"} /\ Skip(calls)
    <2>1. /\ stack' = calls /\ pc' = "pack"
          /\ UNCHANGED <<tree, archive, put, happened, visited, file, cctx, unpackVars>>
        BY <1>9 DEF Skip, outVars
    <2>2. PendingGoesOn
        <3>1. \A s \in 1 .. Len(calls) : s \in 1 .. Len(stack') /\ stack'[s] = calls[s]
            BY <2>1
        <3> QED
            BY <3>1, <2>1, <1>4, <1>6, <1>9, ChildDone
    <2>3. EntriesKept /\ CallsGoOn
        BY <2>1, <1>8 DEF EntriesKept, CallsGoOn
    <2>4. Visits'
        BY <2>1, <1>3, SameVisits
    <2>5. Calls'
        <3>1. stack' # <<>>
            BY <2>1, <1>7
        <3> QED
            BY <3>1, <2>1, <2>3, <1>3, CallsKept
    <2>6. NoneForgotten'
        BY <2>1, <2>2, <2>3, <1>3, NoneForgottenKept
    <2>7. WalkInv' /\ (Intact' <=> Intact)
        BY <2>1, <2>4, <2>5, <2>6 DEF WalkInv, Intact
    <2> QED
        BY <2>1, <2>7, <1>2, <1>7, PackSame DEF Packing
<1>10. CASE /\ Kind(p) \notin {"special", "missing"} /\ TooLong(path)
            /\ RefuseTooLong(calls)
    <2>1. /\ stack' = stack /\ pc' = "pack_failed"
          /\ UNCHANGED <<tree, archive, put, happened, visited, file, cctx, unpackVars>>
        BY <1>10 DEF RefuseTooLong, PackFails, packVars, outVars
    <2>2. WalkInv'
        BY <2>1, <1>3, SameWalk
    <2>3. Intact' <=> Intact
        BY <2>1 DEF Intact
    <2> QED
        BY <2>1, <2>2, <2>3, <1>2, PackSame DEF Packing
<1>11. ASSUME ~TooLong(path) PROVE Len(path) \in 1 .. PATH_MAX_LEN
    BY <1>5, <1>11, ArchiveAssumption DEF TooLong
<1>12. ASSUME Visit(path, Target(p)), tree' = tree, Target(p) \in DOMAIN tree,
              \A s \in 1 .. Len(calls) : s \in 1 .. Len(stack') /\ stack'[s] = calls[s]
       PROVE  PendingGoesOn
    <2>1. put \in Nat
        BY <1>1, LenProperties DEF Typed, LayoutType
    <2>2. PICK e \in Entries : e.path = path /\ e.node = Target(p) /\ visited' = Append(visited, e)
        <3>1. [path |-> path, node |-> Target(p), start |-> put] \in Entries
            BY <2>1, <1>5, <1>12 DEF Entries
        <3> QED
            BY <3>1, <1>12 DEF Visit
    <2>3. PICK target : target = Target(p)
        OBVIOUS
    <2>4. VisitedAs(path, target)'
        BY <2>2, <2>3, <1>2, VisitedNow
    <2> QED
        BY <2>3, <2>4, <1>4, <1>6, <1>12, ChildDone
<1>13. CASE /\ Kind(p) = "directory" /\ ~TooLong(path)
            /\ PackDirectory(calls, Target(p), path)
    <2>1. /\ Visit(path, Target(p)) /\ tree' = tree
          /\ stack' = Append(calls, [relative_path |-> path, todo |-> Children(Target(p))])
        BY <1>13 DEF PackDirectory
    <2>2. Target(p) \in DOMAIN tree /\ tree[Target(p)].kind = "directory"
        BY <1>5, <1>13
    <2>3. PICK frame \in Frames : frame = [relative_path |-> path, todo |-> Children(Target(p))]
        <3>1. PICK todo \in SUBSET DOMAIN tree : todo = Children(Target(p))
            BY DEF Children
        <3>2. [relative_path |-> path, todo |-> todo] \in Frames
            BY <1>5 DEF Frames
        <3> QED
            BY <3>1, <3>2
    <2>4. \A s \in 1 .. Len(calls) : s \in 1 .. Len(stack') /\ stack'[s] = calls[s]
        <3>1. stack' = Append(calls, frame)
            BY <2>1, <2>3
        <3>2. PICK n \in Nat : n = Len(calls)
            BY <1>7
        <3>3. Len(stack') = n + 1 /\ \A s \in 1 .. n : stack'[s] = calls[s]
            BY <3>1, <3>2, <1>7, AppendProperties
        <3> QED
            BY <3>2, <3>3
    <2>5. PendingGoesOn
        BY <2>1, <2>2, <2>4, <1>12
    <2>6. Len(path) \in 1 .. PATH_MAX_LEN
        BY <1>11, <1>13
    <2> QED
        BY <2>2, <2>5, <2>6, <1>5, <1>7, <1>8, <1>13, PackDirectoryKeeps
<1>14. CASE /\ Kind(p) \in {"file", "unreadable"} /\ ~TooLong(path)
            /\ AddFile(Target(p), path)
            /\ stack' = calls
    <2>1. Visit(path, Target(p)) /\ tree' = tree
        BY <1>14 DEF AddFile
    <2>2. Target(p) \in DOMAIN tree /\ tree[Target(p)].kind \in {"file", "unreadable"}
        BY <1>5, <1>14
    <2>3. \A s \in 1 .. Len(calls) : s \in 1 .. Len(stack') /\ stack'[s] = calls[s]
        BY <1>14
    <2>4. PendingGoesOn
        BY <2>1, <2>2, <2>3, <1>12
    <2>5. Len(path) \in 1 .. PATH_MAX_LEN
        BY <1>11, <1>14
    <2>6. stack' \in Seq(Frames) /\ stack' # <<>>
        BY <1>7, <1>14
    <2>7. \A s \in 1 .. Len(stack') : \E r \in 1 .. Len(stack) :
              /\ stack'[s].relative_path = stack[r].relative_path
              /\ stack'[s].todo \subseteq stack[r].todo
        BY <1>8, <1>14
    <2> QED
        BY <2>2, <2>4, <2>5, <2>6, <2>7, <1>5, <1>14, AddFileKeeps
<1> QED
    BY <1>4, <1>9, <1>10, <1>13, <1>14 DEF PackChild

\* One round of zstd::compress.
LEMMA CompressChunkKeeps ==
    ASSUME ArchiveInv, CompressChunk
    PROVE  ArchiveInv'
<1>1. Typed /\ PackInv /\ UnpackInv
    BY Parts
<1>2. pc = "compress" /\ pc' = "compress" /\ UNCHANGED <<tree, stack, visited, unpackVars>>
    BY DEF CompressChunk
<1>3. /\ LayoutType' /\ put' \in 0 .. Len(archive') /\ happened' \subseteq Faults
      /\ cctx' \in CCtxType /\ file' \in FileType
      /\ Sequenced' /\ HeaderKept' /\ DataKept' /\ Compressing'
    BY <1>1, CompressKeepsLayout DEF Typed, PackInv
<1>4. WalkInv'
    BY <1>1, <1>2, SameWalk DEF PackInv
<1>5. UnpackType' /\ UnpackInv'
    BY <1>1, <1>2, <1>3, StillPacking DEF PackInv, UnpackInv, Packing
<1>6. stack' \in Seq(Frames)
    BY <1>1, <1>2 DEF Typed
<1>7. Typed'
    BY <1>2, <1>3, <1>5, <1>6 DEF Typed, Frames, FileType, CCtxType
<1>8. PackInv'
    BY <1>3, <1>4 DEF PackInv
<1> QED
    BY <1>5, <1>7, <1>8, Parts, PTL

\* The length of the compressed data is filled in.
LEMMA AddFileReturnsKeeps ==
    ASSUME ArchiveInv, AddFileReturns
    PROVE  ArchiveInv'
<1>1. Typed /\ PackInv /\ UnpackInv
    BY Parts
<1>2. /\ pc = "compress" /\ pc' = "pack"
      /\ UNCHANGED <<tree, happened, stack, file, cctx, visited, unpackVars>>
    BY DEF AddFileReturns, packVars
<1>3. file.bytes_written \in Nat
    BY <1>1 DEF Typed, FileType
<1>4. /\ LayoutType' /\ put' \in 0 .. Len(archive')
      /\ Sequenced' /\ HeaderKept' /\ DataKept' /\ Compressing'
    BY <1>1, <1>3, FillInKeepsLayout DEF Typed, PackInv
<1>5. WalkInv'
    BY <1>1, <1>2, SameWalk DEF PackInv
<1>6. UnpackType' /\ UnpackInv'
    BY <1>1, <1>2, <1>4, StillPacking DEF PackInv, UnpackInv, Packing
<1>7. /\ happened' \subseteq Faults /\ stack' \in Seq(Frames)
      /\ file' \in FileType /\ cctx' \in CCtxType
    BY <1>1, <1>2 DEF Typed, FileType, CCtxType
<1>8. Typed'
    BY <1>2, <1>4, <1>6, <1>7 DEF Typed, Frames, FileType, CCtxType
<1>9. PackInv'
    BY <1>4, <1>5 DEF PackInv
<1> QED
    BY <1>6, <1>8, <1>9, Parts, PTL

-----------------------------------------------------------------------------
(* The steps of unpacking *)

Unpacking == {"packed", "unpack", "decompress"}

\* They leave the archive alone.
LEMMA UnpackKeeps ==
    ASSUME ArchiveInv, pc \in Unpacking, UNCHANGED <<tree, archive, put, packVars>>,
           pc' \in {"unpack", "decompress", "done", "unpack_failed", "garbled"},
           happened' \subseteq Faults, Intact' <=> Intact, UnpackType', UnpackInv'
    PROVE  ArchiveInv'
<1>1. Typed /\ PackInv /\ UnpackInv
    BY Parts
<1>2. UNCHANGED <<stack, file, cctx, visited>>
    BY DEF packVars
<1>3. LayoutType' /\ Sequenced' /\ HeaderKept' /\ DataKept' /\ Compressing'
    BY <1>1, <1>2, SameLayout DEF Typed, PackInv, Unpacking
<1>4. WalkInv'
    BY <1>1, <1>2, SameWalk DEF PackInv, Unpacking
<1>5. put' \in 0 .. Len(archive') /\ stack' \in Seq(Frames) /\ file' \in FileType /\ cctx' \in CCtxType
    BY <1>1, <1>2 DEF Typed, FileType, CCtxType
<1>6. pc' \in Ended \cup {"create", "pack", "compress", "packed", "unpack", "decompress"}
    BY DEF Ended
<1>7. Typed'
    BY <1>3, <1>5, <1>6 DEF Typed, Frames, FileType, CCtxType
<1>8. PackInv'
    BY <1>3, <1>4 DEF PackInv
<1> QED
    BY <1>7, <1>8, Parts, PTL

\* What was rebuilt is what lies before the read position.
RebuiltHere ==
    /\ \A p \in DOMAIN unpacked :
           \E i \in 1 .. Len(visited) :
               /\ visited[i].path = p
               /\ Start(i) < get
               /\ unpacked[p].kind = NodeKind(i)
               /\ unpacked[p].data = Decompressed(ReadSoFar(i))
    /\ \A i \in 1 .. Len(visited) :
           Start(i) < get => visited[i].path \in DOMAIN unpacked

\* Rebuilt, with what it says of the rebuilt directory apart.
LEMMA RebuiltIs ==
    Rebuilt <=>
        /\ pc \in {"create", "pack", "compress", "pack_failed", "packed"} => get = 0
        /\ RebuiltHere
        /\ pc = "unpack" => AtEntry
        /\ pc = "done" => get = Len(archive)
BY DEF Rebuilt, RebuiltHere

\* The reader goes on, or stops, where it is.
LEMMA ReaderStays ==
    ASSUME ArchiveInv, pc \in Unpacking, UNCHANGED <<tree, archive, put, packVars, unpackVars>>,
           pc' \in {"unpack", "done", "unpack_failed", "garbled"},
           happened' \subseteq Faults, Intact' <=> Intact,
           pc' = "unpack" => AtEntry,
           pc' = "done" => get = Len(archive),
           pc' \in {"unpack_failed", "garbled"} => happened' # {}
    PROVE  ArchiveInv'
<1>1. Typed /\ PackInv /\ UnpackInv
    BY Parts
<1>2. visited' = visited /\ get' = get /\ entry' = entry /\ unpacked' = unpacked
    BY DEF packVars, unpackVars
<1>3. UnpackType'
    BY <1>1, <1>2 DEF Typed, UnpackType
<1>4. RebuiltHere
    BY <1>1, RebuiltIs DEF UnpackInv
<1>5. /\ \A i : Start(i)' = Start(i) /\ NodeKind(i)' = NodeKind(i)
      /\ \A i : ReadSoFar(i)' = ReadSoFar(i)
    BY <1>2, SameEntries DEF ReadSoFar
<1>6. RebuiltHere'
    BY <1>2, <1>4, <1>5 DEF RebuiltHere
<1>7. AtEntry => AtEntry'
    BY <1>2, <1>5 DEF AtEntry
<1>8. Rebuilt'
    BY <1>2, <1>6, <1>7 DEF Rebuilt, RebuiltHere
<1>9. Decompressing' /\ OwnArchiveUnpacks'
    BY DEF Decompressing, OwnArchiveUnpacks
<1>10. UnpackInv'
    BY <1>8, <1>9 DEF UnpackInv
<1> QED
    BY <1>3, <1>10, UnpackKeeps

\* unpackArchive begins at the first entry.
LEMMA UnpackArchiveKeeps ==
    ASSUME ArchiveInv, UnpackArchive
    PROVE  ArchiveInv'
<1>1. Typed /\ PackInv /\ UnpackInv
    BY Parts
<1>2. pc = "packed" /\ happened \subseteq Faults
    BY <1>1 DEF UnpackArchive, Typed
<1>3. CASE pc' = "unpack" /\ UNCHANGED <<tree, outVars, packVars, unpackVars>>
    <2>1. AtEntry
        <3>1. get = 0 /\ visited # <<>> /\ Start(1) = 0
            BY <1>1, <1>2 DEF UnpackInv, Rebuilt, PackInv, WalkInv, Visits, Sequenced
        <3>2. 1 \in 1 .. Len(visited)
            <4>1. Len(visited) \in Nat \ {0}
                BY <1>1, <3>1, WholeOf DEF Typed, LayoutType
            <4> QED
                BY <4>1
        <3> QED
            BY <3>1, <3>2 DEF AtEntry
    <2>2. UNCHANGED <<tree, archive, put, happened, packVars, unpackVars>>
        BY <1>3 DEF outVars
    <2> QED
        BY <2>1, <2>2, <1>2, <1>3, ReaderStays DEF Unpacking, Intact
<1>4. CASE Happens("gone") /\ UnpackFails
    <2>1. /\ pc' = "unpack_failed" /\ happened' # {} /\ happened' \subseteq Faults
          /\ Intact' <=> Intact
          /\ UNCHANGED <<tree, archive, put, packVars, unpackVars>>
        BY <1>2, <1>4 DEF UnpackFails, Happens, Intact
    <2> QED
        BY <2>1, <1>2, ReaderStays DEF Unpacking
<1> QED
    BY <1>3, <1>4 DEF UnpackArchive

\* unpackArchive returns at the end of the archive.
LEMMA UnpackReturnsKeeps ==
    ASSUME ArchiveInv, UnpackReturns
    PROVE  ArchiveInv'
<1>1. Typed /\ PackInv /\ UnpackInv
    BY Parts
<1>2. /\ pc = "unpack" /\ pc' = "done" /\ RemainingBytes = 0
      /\ UNCHANGED <<tree, archive, put, happened, packVars, unpackVars>>
    BY DEF UnpackReturns, outVars
<1>3. get \in Nat /\ Len(archive) \in Nat /\ happened \subseteq Faults
    BY <1>1, LenProperties DEF Typed, UnpackType, LayoutType
<1>4. get = Len(archive)
    BY <1>2, <1>3 DEF RemainingBytes
<1> QED
    BY <1>2, <1>3, <1>4, ReaderStays DEF Unpacking, Intact

\* An entry that begins before the end is not empty, and neither is one before it.
LEMMA EntryHere ==
    ASSUME LayoutType, Sequenced, NEW k \in 1 .. Len(visited), Start(k) < Len(archive)
    PROVE  /\ Start(k) < Stop(k)
           /\ \A i \in 1 .. Len(visited) : i < k => Start(i) < Start(k) /\ Stop(i) <= Start(k)
           /\ \A i \in 1 .. Len(visited) : i > k => Stop(k) <= Start(i)
<1>1. PICK n \in Nat, a \in Nat : n = Len(visited) /\ a = Len(archive)
    BY LayoutTypes
<1>2. ASSUME NEW i \in 1 .. n
      PROVE  /\ Start(i) \in Nat /\ Stop(i) \in Nat /\ DataStart(i) \in Nat
             /\ Start(i) + 3 <= DataStart(i) /\ Start(i) <= Stop(i)
             /\ DataStart(i) <= Stop(i) \/ Stop(i) = a
             /\ \A j \in i + 1 .. n : Stop(i) <= Start(j)
    <2>1. /\ Start(i) \in Nat /\ Stop(i) \in Nat /\ DataStart(i) \in Nat
          /\ Start(i) + 3 <= DataStart(i) /\ Start(i) <= Stop(i)
        BY <1>1, LayoutTypes
    <2>2. /\ DataStart(i) <= Stop(i) \/ Stop(i) = a
          /\ \A j \in i + 1 .. n : Stop(i) <= Start(j)
        BY <1>1 DEF Sequenced
    <2> QED
        BY <2>1, <2>2
<1>3. Start(k) < a /\ k \in 1 .. n
    BY <1>1
<1>4. ASSUME NEW i \in 1 .. n, Start(i) < a PROVE Start(i) < Stop(i)
    BY <1>2, <1>4
<1>5. ASSUME NEW i \in 1 .. n, i < k PROVE Start(i) < Start(k) /\ Stop(i) <= Start(k)
    <2>1. k \in i + 1 .. n
        BY <1>3, <1>5
    <2>2. Stop(i) <= Start(k)
        BY <2>1, <1>2
    <2>3. Start(i) < a
        BY <2>2, <1>2, <1>3
    <2> QED
        BY <2>2, <2>3, <1>2, <1>3, <1>4
<1>6. ASSUME NEW i \in 1 .. n, i > k PROVE Stop(k) <= Start(i)
    <2>1. i \in k + 1 .. n
        BY <1>3, <1>6
    <2> QED
        BY <2>1, <1>2, <1>3
<1> QED
    BY <1>1, <1>3, <1>4, <1>5, <1>6

\* What readFromStream finds there.
HeaderFound(k) ==
    /\ Field(1).field = "type"
    /\ Field(1).value = IF NodeKind(k) = "directory" THEN "directory" ELSE "file"
    /\ IF DataStart(k) <= Stop(k)
       THEN /\ EntryReadable
            /\ HeaderLength = DataStart(k) - get
            /\ RelativePath = visited[k].path
            /\ \/ CompressedLength = Stop(k) - DataStart(k)
               \/ CompressedLength = 0 /\ ~Intact /\ Stop(k) = Len(archive)
       ELSE ~EntryReadable /\ ~Intact

\* At the beginning of an entry the reader finds that entry's header.
LEMMA HeaderRead ==
    ASSUME LayoutType, Sequenced, HeaderKept, Visits, pc # "compress",
           NEW k \in 1 .. Len(visited), get = Start(k), get < Len(archive)
    PROVE  HeaderFound(k)
<1>1. PICK g \in Nat, s \in Nat, d \in Nat, a \in Nat, path \in Seq(Names), l \in Nat :
          /\ g = get /\ g = Start(k) /\ s = Stop(k) /\ d = DataStart(k) /\ a = Len(archive)
          /\ path = visited[k].path /\ l = Len(path)
    BY LayoutTypes
<1>2. d = g + 3 + l /\ s <= a
    BY <1>1, LayoutTypes
<1>3. g < s
    BY <1>1, EntryHere
<1>4. l <= PATH_MAX_LEN
    BY <1>1 DEF Visits
<1>5. ~IsOpen(k)
    BY DEF IsOpen
<1>6. /\ g + 1 <= s => archive[g + 1] =
             Unit("type", IF NodeKind(k) = "directory" THEN "directory" ELSE "file")
      /\ g + 2 <= s => archive[g + 2] = Unit("path_length", l)
      /\ \A j \in 1 .. l : g + 2 + j <= s => archive[g + 2 + j] = Unit("name", path[j])
      /\ d <= s =>
             /\ archive[d].field = "compressed_length"
             /\ archive[d].value = s - d \/ (archive[d].value = 0 /\ s = a /\ ~Intact)
    <2>1. HeaderAt(k)
        BY DEF HeaderKept
    <2> QED
        BY <2>1, <1>1, <1>5 DEF HeaderAt
<1>7. d <= s \/ (~Intact /\ s = a)
    BY <1>1 DEF Sequenced
<1>8. Field(1) = Unit("type", IF NodeKind(k) = "directory" THEN "directory" ELSE "file")
    <2>1. g + 1 <= s
        BY <1>3
    <2> QED
        BY <2>1, <1>1, <1>6 DEF Field
<1>9. /\ Field(1).field = "type"
      /\ Field(1).value = IF NodeKind(k) = "directory" THEN "directory" ELSE "file"
    BY <1>8 DEF Unit
<1>10. g + 2 <= s => PathLength = l
    <2>1. PathLength = archive[g + 2].value
        BY <1>1 DEF PathLength, Field
    <2>2. Unit("path_length", l).value = l
        BY DEF Unit
    <2> QED
        BY <2>1, <2>2, <1>6, Zenon
<1>11. RemainingBytes = a - g
    BY <1>1 DEF RemainingBytes
<1>12. CASE d <= s
    <2>1. PathLength = l /\ HeaderLength = 3 + l
        <3>1. g + 2 <= s
            BY <1>2, <1>12
        <3> QED
            BY <3>1, <1>10 DEF HeaderLength
    <2>2. g + (3 + l) = d
        BY <1>2
    <2>3. CompressedLength = archive[d].value
        BY <2>1, <2>2, <1>1 DEF CompressedLength, Field
    <2>4. CompressedLength = s - d \/ (CompressedLength = 0 /\ s = a /\ ~Intact)
        BY <2>3, <1>6, <1>12
    <2>5. EntryReadable
        BY <2>1, <2>4, <1>2, <1>4, <1>11, <1>12 DEF EntryReadable
    <2>6. RelativePath = path
        <3>1. ASSUME NEW j \in 1 .. l PROVE Field(2 + j).value = path[j]
            <4>1. g + 2 + j <= s /\ g + (2 + j) = g + 2 + j
                BY <1>2, <1>12
            <4>2. archive[g + 2 + j] = Unit("name", path[j])
                BY <4>1, <1>6
            <4>3. Field(2 + j) = archive[g + 2 + j]
                BY <4>1, <1>1, Zenon DEF Field
            <4>4. Unit("name", path[j]).value = path[j]
                BY DEF Unit
            <4> QED
                BY <4>2, <4>3, <4>4, Zenon
        <3>2. path = [j \in 1 .. l |-> path[j]]
            BY <1>1
        <3> QED
            BY <2>1, <3>1, <3>2 DEF RelativePath
    <2>7. HeaderLength = DataStart(k) - get
        <3>1. 3 + l = d - g
            BY <1>2
        <3> QED
            BY <3>1, <2>1, <1>1, Zenon
    <2> QED
        BY <2>4, <2>5, <2>6, <2>7, <1>1, <1>9, <1>12 DEF HeaderFound
<1>13. CASE ~(d <= s)
    <2>1. ~Intact /\ s = a
        BY <1>7, <1>13
    <2>2. ~EntryReadable
        <3>1. CASE g + 2 <= s
            BY <3>1, <2>1, <1>2, <1>10, <1>11, <1>13 DEF EntryReadable, HeaderLength
        <3>2. CASE ~(g + 2 <= s)
            BY <3>2, <2>1, <1>11 DEF EntryReadable
        <3> QED
            BY <3>1, <3>2
    <2> QED
        BY <2>1, <2>2, <1>1, <1>9, <1>13 DEF HeaderFound
<1> QED
    BY <1>12, <1>13

\* The reader is behind the header of entry k, which it has placed.
LEMMA EntryPlaced ==
    ASSUME LayoutType, Sequenced, UnpackType, RebuiltHere,
           NEW k \in 1 .. Len(visited), get = Start(k), get < Len(archive),
           DataStart(k) <= Stop(k), get' = DataStart(k),
           UNCHANGED <<tree, archive, visited>>,
           NodeKind(k) \in {"directory", "file"},
           unpacked' = Place(visited[k].path, NodeKind(k))
    PROVE  /\ get' \in 0 .. Len(archive')
           /\ \A p \in DOMAIN unpacked' :
                  /\ p \in Seq(Names)
                  /\ unpacked'[p] \in [kind : {"directory", "file"}, data : Seq(FileBytes)]
           /\ RebuiltHere'
           /\ visited[k].path \in DOMAIN unpacked'
           /\ unpacked'[visited[k].path] = [kind |-> NodeKind(k), data |-> <<>>]
<1>1. PICK g \in Nat, s \in Nat, d \in Nat, path \in Seq(Names) :
          /\ g = get /\ g = Start(k) /\ s = Stop(k) /\ d = DataStart(k) /\ d = get'
          /\ path = visited[k].path /\ s <= Len(archive) /\ Len(archive) \in Nat
          /\ g + 3 <= d /\ d <= s
    BY LayoutTypes
<1>2. PICK new \in [kind : {"directory", "file"}, data : Seq(FileBytes)] :
          new = [kind |-> NodeKind(k), data |-> <<>>]
    <2>1. <<>> \in Seq(FileBytes)
        OBVIOUS
    <2> QED
        BY <2>1
<1>3. /\ DOMAIN unpacked' = DOMAIN unpacked \cup {path}
      /\ unpacked'[path] = new
      /\ \A p \in DOMAIN unpacked : p # path => unpacked'[p] = unpacked[p]
    BY <1>1, <1>2 DEF Place
<1>4. \A p \in DOMAIN unpacked' :
          /\ p \in Seq(Names)
          /\ unpacked'[p] \in [kind : {"directory", "file"}, data : Seq(FileBytes)]
    BY <1>1, <1>3 DEF UnpackType
<1>5. get' \in 0 .. Len(archive')
    BY <1>1
<1>6. /\ \A i : Start(i)' = Start(i) /\ NodeKind(i)' = NodeKind(i)
                /\ DataStart(i)' = DataStart(i) /\ Stop(i)' = Stop(i)
    BY SameEntries
<1>7. /\ \A i \in 1 .. Len(visited) : i < k => Start(i) < g /\ Stop(i) <= g
      /\ \A i \in 1 .. Len(visited) : i > k => s <= Start(i)
    BY <1>1, EntryHere
<1>8. /\ Len(visited) \in Nat
      /\ \A i \in 1 .. Len(visited) : Start(i) \in Nat /\ Stop(i) \in Nat /\ Start(i) <= Stop(i)
    BY LayoutTypes
<1>9. ASSUME NEW i \in 1 .. Len(visited), Start(i) < g
      PROVE  i < k /\ Start(i) < d /\ ReadSoFar(i)' = ReadSoFar(i)
    <2>1. i < k
        <3>1. i # k
            BY <1>1, <1>9
        <3>2. ~(i > k)
            BY <1>1, <1>7, <1>8, <1>9
        <3> QED
            BY <3>1, <3>2, <1>8
    <2>2. Stop(i) <= g /\ Stop(i) \in Nat /\ Stop(i) <= d /\ Start(i) < d
        <3>1. PICK from \in Nat, to \in Nat : from = Start(i) /\ to = Stop(i)
            BY <1>8
        <3>2. to <= g /\ from < g
            BY <3>1, <2>1, <1>7, <1>9
        <3>3. to <= d /\ from < d
            <4>1. g + 3 <= d
                BY <1>1
            <4> QED
                BY <3>2, <4>1
        <3> QED
            BY <3>1, <3>2, <3>3
    <2>3. Lesser(g, Stop(i)) = Stop(i) /\ Lesser(d, Stop(i)) = Stop(i)
        <3>1. PICK to \in Nat : to = Stop(i) /\ to <= g /\ to <= d
            BY <2>2
        <3>2. ~(g < to) /\ ~(d < to)
            BY <3>1
        <3> QED
            BY <3>1, <3>2, Zenon DEF Lesser
    <2>4. ReadSoFar(i) = SubSeq(archive, DataStart(i) + 1, Stop(i))
        BY <2>3, <1>1 DEF ReadSoFar
    <2>5. ReadSoFar(i)' = SubSeq(archive, DataStart(i) + 1, Stop(i))
        <3>1. ReadSoFar(i)' = SubSeq(archive, DataStart(i) + 1, Lesser(d, Stop(i)))
            BY <1>1, <1>6 DEF ReadSoFar, Lesser
        <3> QED
            BY <3>1, <2>3
    <2> QED
        BY <2>1, <2>2, <2>4, <2>5
<1>10. ReadSoFar(k)' = <<>>
    <2>1. Lesser(d, s) = d
        BY <1>1 DEF Lesser
    <2>2. ReadSoFar(k)' = SubSeq(archive, d + 1, Lesser(d, s))
        BY <1>1, <1>6 DEF ReadSoFar, Lesser
    <2>3. SubSeq(archive, d + 1, d) = <<>>
        <3>1. d + 1 \in Int /\ d \in Int /\ d < d + 1
            OBVIOUS
        <3> QED
            BY <3>1, SubSeqEmpty
    <2> QED
        BY <2>1, <2>2, <2>3
<1>11. \A p \in DOMAIN unpacked' :
           \E i \in 1 .. Len(visited') :
               /\ visited'[i].path = p
               /\ Start(i)' < get'
               /\ unpacked'[p].kind = NodeKind(i)'
               /\ unpacked'[p].data = Decompressed(ReadSoFar(i)')
    <2>1. ASSUME NEW p \in DOMAIN unpacked', p = path
          PROVE  \E i \in 1 .. Len(visited') :
                     /\ visited'[i].path = p
                     /\ Start(i)' < get'
                     /\ unpacked'[p].kind = NodeKind(i)'
                     /\ unpacked'[p].data = Decompressed(ReadSoFar(i)')
        <3>1. unpacked'[p].kind = NodeKind(k)' /\ unpacked'[p].data = <<>>
            BY <2>1, <1>2, <1>3, <1>6
        <3>2. Decompressed(ReadSoFar(k)') = <<>>
            BY <1>10, OutOfNone
        <3>3. Start(k)' < get'
            BY <1>1, <1>6
        <3>4. k \in 1 .. Len(visited') /\ visited'[k].path = p
            BY <2>1, <1>1
        <3> QED
            BY <3>1, <3>2, <3>3, <3>4
    <2>2. ASSUME NEW p \in DOMAIN unpacked', p # path
          PROVE  \E i \in 1 .. Len(visited') :
                     /\ visited'[i].path = p
                     /\ Start(i)' < get'
                     /\ unpacked'[p].kind = NodeKind(i)'
                     /\ unpacked'[p].data = Decompressed(ReadSoFar(i)')
        <3>1. p \in DOMAIN unpacked /\ unpacked'[p] = unpacked[p]
            BY <2>2, <1>3
        <3>2. PICK i \in 1 .. Len(visited) :
                  /\ visited[i].path = p
                  /\ Start(i) < g
                  /\ unpacked[p].kind = NodeKind(i)
                  /\ unpacked[p].data = Decompressed(ReadSoFar(i))
            BY <3>1, <1>1 DEF RebuiltHere
        <3>3. Start(i) < d /\ ReadSoFar(i)' = ReadSoFar(i)
            BY <3>2, <1>9
        <3>4. Start(i)' < get' /\ NodeKind(i)' = NodeKind(i)
            BY <3>3, <1>1, <1>6
        <3>5. unpacked'[p].data = Decompressed(ReadSoFar(i)')
            BY <3>1, <3>2, <3>3
        <3> QED
            BY <3>1, <3>2, <3>4, <3>5
    <2> QED
        BY <2>1, <2>2
<1>12. \A i \in 1 .. Len(visited') : Start(i)' < get' => visited'[i].path \in DOMAIN unpacked'
    <2>1. ASSUME NEW i \in 1 .. Len(visited), Start(i) < d
          PROVE  visited[i].path \in DOMAIN unpacked'
        <3>1. CASE i = k
            BY <3>1, <1>1, <1>3
        <3>2. CASE i < k
            <4>1. Start(i) < get
                BY <3>2, <1>1, <1>7
            <4>2. visited[i].path \in DOMAIN unpacked
                BY <4>1 DEF RebuiltHere
            <4> QED
                BY <4>2, <1>3
        <3>3. CASE i > k
            BY <3>3, <2>1, <1>1, <1>7, <1>8
        <3> QED
            BY <3>1, <3>2, <3>3, <1>8
    <2> QED
        BY <2>1, <1>1, <1>6
<1>13. RebuiltHere'
    BY <1>11, <1>12 DEF RebuiltHere
<1> QED
    BY <1>1, <1>2, <1>3, <1>4, <1>5, <1>13

\* Where an entry ends the next one begins, or the archive ends.
LEMMA NextEntry ==
    ASSUME LayoutType, Sequenced, NEW k \in 1 .. Len(visited), get = Stop(k)
    PROVE  AtEntry
<1>1. Len(visited) \in Nat
    BY LayoutTypes
<1>2. CASE k < Len(visited)
    <2>1. k + 1 \in 1 .. Len(visited)
        BY <1>1, <1>2
    <2>2. get = Start(k + 1)
        BY <1>2 DEF Stop
    <2> QED
        BY <2>1, <2>2 DEF AtEntry
<1>3. CASE ~(k < Len(visited))
    BY <1>3 DEF AtEntry, Stop
<1> QED
    BY <1>2, <1>3

\* A directory's entry has no data: the reader is at the next one.
LEMMA DirectoryRead ==
    ASSUME ArchiveInv, pc = "unpack", pc' = "unpack",
           NEW k \in 1 .. Len(visited), get = Start(k), get < Len(archive),
           DataStart(k) <= Stop(k), get' = DataStart(k), NodeKind(k) = "directory",
           unpacked' = Place(visited[k].path, "directory"),
           UNCHANGED <<tree, archive, put, happened, packVars, entry>>
    PROVE  ArchiveInv'
<1>1. Typed /\ PackInv /\ UnpackInv
    BY Parts
<1>2. visited' = visited /\ (Intact' <=> Intact) /\ happened' \subseteq Faults
    BY <1>1 DEF packVars, Intact, Typed
<1>3. LayoutType /\ Sequenced /\ UnpackType /\ RebuiltHere
    BY <1>1, RebuiltIs DEF Typed, PackInv, UnpackInv
<1>4. /\ get' \in 0 .. Len(archive')
      /\ \A p \in DOMAIN unpacked' :
             /\ p \in Seq(Names)
             /\ unpacked'[p] \in [kind : {"directory", "file"}, data : Seq(FileBytes)]
      /\ RebuiltHere'
    BY <1>2, <1>3, EntryPlaced
<1>5. get' = Stop(k)
    <2>1. DataOf(k) = <<>>
        BY <1>1 DEF PackInv, DataKept, DataAt
    <2>2. Len(DataOf(k)) = Stop(k) - DataStart(k)
        BY <1>3, DataIs
    <2>3. DataStart(k) \in Nat /\ Stop(k) \in Nat
        BY <1>3, LayoutTypes
    <2>4. Len(<<>>) = 0
        OBVIOUS
    <2> QED
        BY <2>1, <2>2, <2>3, <2>4
<1>6. AtEntry'
    <2>1. CASE k < Len(visited)
        <3>1. k + 1 \in 1 .. Len(visited)
            BY <1>3, <2>1, LayoutTypes
        <3>2. get' = Start(k + 1) /\ Start(k + 1)' = Start(k + 1)
            BY <2>1, <1>2, <1>5, SameEntries DEF Stop
        <3> QED
            BY <3>1, <3>2, <1>2 DEF AtEntry
    <2>2. CASE ~(k < Len(visited))
        BY <2>2, <1>5 DEF AtEntry, Stop
    <2> QED
        BY <2>1, <2>2
<1>7. Rebuilt'
    BY <1>4, <1>6 DEF Rebuilt, RebuiltHere
<1>8. UnpackInv'
    BY <1>7 DEF UnpackInv, Decompressing, OwnArchiveUnpacks
<1>9. UnpackType'
    BY <1>1, <1>4 DEF Typed, UnpackType
<1> QED
    BY <1>2, <1>8, <1>9, UnpackKeeps DEF Unpacking

\* A file's entry: its data is next.
LEMMA FileOpened ==
    ASSUME ArchiveInv, pc = "unpack", pc' = "decompress",
           NEW k \in 1 .. Len(visited), get = Start(k), get < Len(archive),
           DataStart(k) <= Stop(k), get' = DataStart(k), NodeKind(k) = "file",
           unpacked' = Place(visited[k].path, "file"), NEW left,
           \/ left = Stop(k) - DataStart(k)
           \/ left = 0 /\ ~Intact /\ Stop(k) = Len(archive),
           entry' = [path |-> visited[k].path, left_to_read |-> left, in_frame |-> FALSE],
           UNCHANGED <<tree, archive, put, happened, packVars>>
    PROVE  ArchiveInv'
<1>1. Typed /\ PackInv /\ UnpackInv
    BY Parts
<1>2. visited' = visited /\ (Intact' <=> Intact) /\ happened' \subseteq Faults
    BY <1>1 DEF packVars, Intact, Typed
<1>3. LayoutType /\ Sequenced /\ UnpackType /\ RebuiltHere
    BY <1>1, RebuiltIs DEF Typed, PackInv, UnpackInv
<1>4. /\ get' \in 0 .. Len(archive')
      /\ \A p \in DOMAIN unpacked' :
             /\ p \in Seq(Names)
             /\ unpacked'[p] \in [kind : {"directory", "file"}, data : Seq(FileBytes)]
      /\ RebuiltHere'
      /\ visited[k].path \in DOMAIN unpacked'
      /\ unpacked'[visited[k].path] = [kind |-> "file", data |-> <<>>]
    BY <1>2, <1>3, EntryPlaced
<1>5. PICK path \in Seq(Names), d \in Nat, s \in Nat :
          /\ path = visited[k].path /\ d = DataStart(k) /\ s = Stop(k)
          /\ d <= s /\ s <= Len(archive) /\ d = get'
    BY <1>3, LayoutTypes
<1>6. left \in Nat /\ (d + left = s \/ (left = 0 /\ ~Intact /\ s = Len(archive)))
    BY <1>5
<1>7. /\ entry' \in [path : Seq(Names), left_to_read : Nat, in_frame : BOOLEAN]
      /\ entry'.path = path /\ entry'.left_to_read = left /\ entry'.in_frame = FALSE
    BY <1>5, <1>6
<1>8. UnpackType'
    BY <1>4, <1>7 DEF UnpackType
<1>9. Rebuilt'
    BY <1>4 DEF Rebuilt, RebuiltHere
<1>10. Decompressing'
    <2>1. /\ DataStart(k)' = d /\ Stop(k)' = s /\ NodeKind(k)' = "file"
          /\ k \in 1 .. Len(visited') /\ visited'[k].path = entry'.path
        BY <1>2, <1>5, <1>7, SameEntries
    <2>2. get' \in DataStart(k)' .. Stop(k)'
        BY <2>1, <1>5
    <2>3. \/ get' + entry'.left_to_read = Stop(k)'
          \/ /\ ~Intact'
             /\ entry'.left_to_read = 0
             /\ get' = DataStart(k)'
             /\ Stop(k)' = Len(archive')
        BY <2>1, <1>2, <1>5, <1>6, <1>7
    <2>4. entry'.in_frame <=> get' > DataStart(k)' /\ archive'[get'].field # "end"
        BY <2>1, <1>5, <1>7
    <2>5. /\ entry'.path \in DOMAIN unpacked'
          /\ unpacked'[entry'.path].kind = "file"
          /\ unpacked'[entry'.path].data = <<>>
        BY <1>4, <1>5, <1>7
    <2>6. Decompressed(SubSeq(archive', DataStart(k)' + 1, get')) = <<>>
        <3>1. SubSeq(archive, d + 1, d) = <<>>
            BY <1>3, <1>5 DEF LayoutType
        <3> QED
            BY <3>1, <2>1, <1>5, OutOfNone
    <2> QED
        BY <2>1, <2>2, <2>3, <2>4, <2>5, <2>6 DEF Decompressing
<1>11. UnpackInv'
    BY <1>9, <1>10 DEF UnpackInv, OwnArchiveUnpacks
<1> QED
    BY <1>2, <1>8, <1>11, UnpackKeeps DEF Unpacking

\* A header is read: the reader is at its entry, never in compressed data.
LEMMA ReadEntryKeeps ==
    ASSUME ArchiveInv, ReadEntry
    PROVE  ArchiveInv'
<1>1. Typed /\ PackInv /\ UnpackInv
    BY Parts
<1>2. pc = "unpack" /\ happened \subseteq Faults
    BY <1>1 DEF ReadEntry, Typed
<1>3. LayoutType /\ Sequenced /\ HeaderKept /\ Visits /\ AtEntry
    BY <1>1, <1>2, RebuiltIs DEF Typed, PackInv, UnpackInv, WalkInv
<1>4. get \in Nat /\ Len(archive) \in Nat /\ get < Len(archive)
    BY <1>1, LenProperties DEF Typed, UnpackType, LayoutType, ReadEntry, RemainingBytes
<1>5. ASSUME ~Intact, pc' \in {"unpack_failed", "garbled"},
             UNCHANGED <<tree, archive, put, happened, packVars, unpackVars>>
      PROVE  ArchiveInv'
    <2>1. happened' # {} /\ (Intact' <=> Intact)
        BY <1>5 DEF Intact
    <2> QED
        BY <2>1, <1>2, <1>5, ReaderStays DEF Unpacking
<1>6. CASE ~Intact /\ archive[get + 1].field # "type"
    <2>1. Field(1).field # "type"
        BY <1>6 DEF Field
    <2>2. pc' = "garbled" /\ UNCHANGED <<tree, archive, put, happened, packVars, unpackVars>>
        BY <2>1 DEF ReadEntry, outVars
    <2> QED
        BY <2>2, <1>5, <1>6
<1>7. ASSUME NEW k \in 1 .. Len(visited), get = Start(k) PROVE ArchiveInv'
    <2>1. HeaderFound(k)
        BY <1>2, <1>3, <1>4, <1>7, HeaderRead
    <2>2. Field(1).field = "type"
        BY <2>1 DEF HeaderFound
    <2>3. CASE ~(DataStart(k) <= Stop(k))
        <3>1. ~EntryReadable /\ ~Intact
            BY <2>1, <2>3 DEF HeaderFound
        <3>2. UnpackFails /\ UNCHANGED happened
            BY <2>2, <3>1 DEF ReadEntry
        <3> QED
            BY <3>1, <3>2, <1>5 DEF UnpackFails
    <2>4. CASE DataStart(k) <= Stop(k)
        <3>1. /\ EntryReadable /\ RelativePath = visited[k].path
              /\ HeaderLength = DataStart(k) - get
              /\ Field(1).value = IF NodeKind(k) = "directory" THEN "directory" ELSE "file"
              /\ \/ CompressedLength = Stop(k) - DataStart(k)
                 \/ CompressedLength = 0 /\ ~Intact /\ Stop(k) = Len(archive)
            BY <2>1, <2>4 DEF HeaderFound
        <3>2. get + HeaderLength = DataStart(k)
            <4>1. DataStart(k) \in Nat
                BY <1>3, LayoutTypes
            <4> QED
                BY <4>1, <3>1, <1>4
        <3>3. NodeKind(k) \in {"directory", "file"}
            BY <1>2, <1>3 DEF Visits
        <3>4. CASE NodeKind(k) = "directory"
            <4>1. Field(1).value = "directory"
                BY <3>1, <3>4
            <4>2. /\ unpacked' = Place(RelativePath, "directory")
                  /\ get' = get + HeaderLength
                  /\ UNCHANGED <<tree, pc, outVars, packVars, entry>>
                BY <2>2, <3>1, <4>1 DEF ReadEntry
            <4>3. UNCHANGED <<tree, archive, put, happened, packVars, entry>> /\ pc' = "unpack"
                BY <4>2, <1>2 DEF outVars
            <4> QED
                BY <4>2, <4>3, <3>1, <3>2, <3>4, <2>4, <1>2, <1>4, <1>7, DirectoryRead
        <3>5. CASE NodeKind(k) = "file"
            <4>1. Field(1).value = "file"
                BY <3>1, <3>5
            <4>2. OpenOutput
                BY <2>2, <3>1, <4>1 DEF ReadEntry
            <4>3. CASE Happens("open") /\ UnpackFails
                <5>1. /\ pc' = "unpack_failed" /\ happened' # {} /\ happened' \subseteq Faults
                      /\ Intact' <=> Intact
                      /\ UNCHANGED <<tree, archive, put, packVars, unpackVars>>
                    BY <1>2, <4>3 DEF UnpackFails, Happens, Intact
                <5> QED
                    BY <5>1, <1>2, ReaderStays DEF Unpacking
            <4>4. CASE /\ unpacked' = Place(RelativePath, "file")
                       /\ entry' = [path |-> RelativePath, left_to_read |-> CompressedLength,
                                    in_frame |-> FALSE]
                       /\ get' = get + HeaderLength
                       /\ pc' = "decompress"
                       /\ UNCHANGED <<tree, outVars, packVars>>
                <5>1. UNCHANGED <<tree, archive, put, happened, packVars>>
                    BY <4>4 DEF outVars
                <5>2. PICK left : left = CompressedLength
                    OBVIOUS
                <5>3. /\ unpacked' = Place(visited[k].path, "file")
                      /\ entry' = [path |-> visited[k].path, left_to_read |-> left,
                                   in_frame |-> FALSE]
                      /\ get' = DataStart(k) /\ pc' = "decompress"
                      /\ \/ left = Stop(k) - DataStart(k)
                         \/ left = 0 /\ ~Intact /\ Stop(k) = Len(archive)
                    BY <4>4, <5>2, <3>1, <3>2
                <5> QED
                    BY <5>1, <5>3, <3>5, <2>4, <1>2, <1>4, <1>7, FileOpened
            <4> QED
                BY <4>2, <4>3, <4>4 DEF OpenOutput
        <3> QED
            BY <3>3, <3>4, <3>5
    <2> QED
        BY <2>3, <2>4
<1> QED
    BY <1>3, <1>4, <1>6, <1>7 DEF AtEntry

\* The data of an entry, unit by unit.
LEMMA FrameFields ==
    ASSUME LayoutType, Sequenced, DataKept, NEW k \in 1 .. Len(visited),
           NEW d, d = DataStart(k), NEW s, s = Stop(k), NEW q \in d + 1 .. s
    PROVE  archive[q].field \in IF q = d + 1 THEN {"frame"}
                                ELSE IF q = s THEN {"block", "end"} ELSE {"block"}
<1>1. d \in Nat /\ s \in Nat
    BY LayoutTypes
<1>2. PICK j \in 1 .. s - d : q = d + j
    <2>1. q - d \in 1 .. s - d /\ q = d + (q - d)
        BY <1>1
    <2> QED
        BY <2>1
<1>3. d <= s
    BY <1>1
<1>4. /\ DataOf(k) \in Seq(Units) /\ Len(DataOf(k)) = s - d
      /\ \A i \in 1 .. s - d : DataOf(k)[i] = archive[d + i]
    BY <1>3, DataIs
<1>5. Framed(DataOf(k))
    BY DEF DataKept, DataAt
<1>6. DataOf(k)[j].field \in IF j = 1 THEN {"frame"}
                             ELSE IF j = s - d THEN {"block", "end"} ELSE {"block"}
    BY <1>4, <1>5 DEF Framed
<1>7. archive[q] = DataOf(k)[j]
    BY <1>2, <1>4
<1>8. (j = 1 <=> q = d + 1) /\ (j = s - d <=> q = s)
    BY <1>1, <1>2
<1> QED
    BY <1>6, <1>7, <1>8

\* zstd::decompress returns at the beginning of the next entry.
LEMMA DecompressReturnsKeeps ==
    ASSUME ArchiveInv, DecompressReturns
    PROVE  ArchiveInv'
<1>1. Typed /\ PackInv /\ UnpackInv
    BY Parts
<1>2. /\ pc = "decompress" /\ pc' = "unpack" /\ entry.left_to_read = 0
      /\ UNCHANGED <<tree, archive, put, happened, packVars, unpackVars>>
    BY DEF DecompressReturns, outVars
<1>3. LayoutType /\ Sequenced /\ DataKept /\ happened \subseteq Faults
    BY <1>1 DEF Typed, PackInv
<1>4. PICK k \in 1 .. Len(visited) :
          \/ get + entry.left_to_read = Stop(k)
          \/ ~Intact /\ get = DataStart(k) /\ Stop(k) = Len(archive)
    BY <1>1, <1>2 DEF UnpackInv, Decompressing
<1>5. get \in Nat /\ get <= Len(archive) /\ Len(archive) \in Nat
    BY <1>1, <1>3, LayoutTypes DEF Typed, UnpackType
<1>6. AtEntry
    <2>1. CASE get + entry.left_to_read = Stop(k)
        <3>1. get = Stop(k)
            BY <2>1, <1>2, <1>5
        <3> QED
            BY <3>1, <1>3, NextEntry
    <2>2. CASE ~Intact /\ get = DataStart(k) /\ Stop(k) = Len(archive)
        <3>1. CASE get = Len(archive)
            BY <3>1 DEF AtEntry
        <3>2. CASE get < Len(archive)
            <4>1. get + 1 \in get + 1 .. Len(archive)
                BY <3>2, <1>5
            <4>2. archive[get + 1].field \in {"frame"}
                BY <4>1, <2>2, <1>3, FrameFields
            <4> QED
                BY <4>2, <3>2, <2>2 DEF AtEntry
        <3> QED
            BY <3>1, <3>2, <1>5
    <2> QED
        BY <2>1, <2>2, <1>4
<1> QED
    BY <1>2, <1>3, <1>6, ReaderStays DEF Unpacking, Intact

\* A chunk of the data of entry k is never refused.
ChunkGood(g, size, units) ==
    /\ units \in Seq(Units) /\ Len(units) = size
    /\ Last(units) = archive[g + size]
    /\ Decodable(units)

\* A chunk of an entry's data goes on where the last one stopped, so the library
\* takes it.
LEMMA ChunkDecodable ==
    ASSUME LayoutType, Sequenced, DataKept, NEW k \in 1 .. Len(visited),
           NEW d \in Nat, d = DataStart(k), NEW s \in Nat, s = Stop(k), s <= Len(archive),
           NEW g \in Nat, d <= g, NEW size \in Nat \ {0}, g + size <= s,
           entry.in_frame <=> g > d /\ archive[g].field # "end",
           NEW units, units = SubSeq(archive, g + 1, g + size)
    PROVE  ChunkGood(g, size, units)
<1>1. archive \in Seq(Units)
    BY DEF LayoutType
<1>2. /\ units \in Seq(Units) /\ Len(units) = size
      /\ \A i \in 1 .. size : units[i] = archive[g + i]
    <2>1. g + 1 \in Nat \ {0} /\ g + size \in Nat /\ g + size <= Len(archive) /\ Len(archive) \in Nat
        BY <1>1, LenProperties
    <2>2. /\ SubSeq(archive, g + 1, g + size) \in Seq(Units)
          /\ Len(SubSeq(archive, g + 1, g + size)) =
                 IF g + 1 <= g + size THEN (g + size) - (g + 1) + 1 ELSE 0
          /\ \A i \in 1 .. (g + size) - (g + 1) + 1 :
                 SubSeq(archive, g + 1, g + size)[i] = archive[(g + 1) + i - 1]
        BY <2>1, <1>1, PartOf
    <2>3. (g + size) - (g + 1) + 1 = size /\ g + 1 <= g + size
        OBVIOUS
    <2>4. \A i \in 1 .. size : (g + 1) + i - 1 = g + i
        OBVIOUS
    <2> QED
        BY <2>2, <2>3, <2>4
<1>3. size \in 1 .. size /\ Last(units) = archive[g + size]
    BY <1>2 DEF Last
<1>4. ASSUME NEW q \in d + 1 .. s
      PROVE  archive[q].field \in IF q = d + 1 THEN {"frame"}
                                  ELSE IF q = s THEN {"block", "end"} ELSE {"block"}
    BY <1>4, FrameFields
<1>5. DOMAIN units = 1 .. size
    BY <1>2
<1>6. ASSUME NEW i \in 1 .. size
      PROVE  units[i].field \in IF IF i = 1 THEN entry.in_frame ELSE units[i - 1].field # "end"
                                THEN {"block", "end"} ELSE {"frame"}
    <2>1. units[i] = archive[g + i] /\ g + i \in d + 1 .. s
        BY <1>2
    <2>2. CASE i = 1 /\ g = d
        <3>1. ~(g > d) /\ g + i = d + 1
            BY <2>2
        <3>2. ~entry.in_frame
            BY <3>1, Zenon
        <3>3. units[i].field \in {"frame"}
            BY <3>1, <2>1, <1>4
        <3> QED
            BY <3>2, <3>3, <2>2, Zenon
    <2>3. CASE i = 1 /\ g # d
        <3>1. g \in d + 1 .. s /\ g # s /\ g > d /\ g + i # d + 1
            BY <2>3
        <3>2. archive[g].field # "end"
            BY <3>1, <1>4
        <3>3. entry.in_frame
            BY <3>1, <3>2, Zenon
        <3>4. units[i].field \in {"block", "end"}
            BY <3>1, <2>1, <1>4
        <3> QED
            BY <3>3, <3>4, <2>3, Zenon
    <2>4. CASE i # 1
        <3>1. /\ i - 1 \in 1 .. size /\ g + (i - 1) \in d + 1 .. s /\ g + (i - 1) # s
              /\ g + i # d + 1
            BY <2>4
        <3>2. units[i - 1].field # "end"
            BY <3>1, <1>2, <1>4
        <3>3. units[i].field \in {"block", "end"}
            BY <3>1, <2>1, <1>4
        <3> QED
            BY <3>2, <3>3, <2>4, Zenon
    <2> QED
        BY <2>2, <2>3, <2>4
<1>7. Decodable(units)
    BY <1>5, <1>6 DEF Decodable
<1> QED
    BY <1>2, <1>3, <1>7 DEF ChunkGood

\* The reader is further inside entry k, and has appended what came out.
LEMMA EntryFurther ==
    ASSUME LayoutType, Sequenced, RebuiltHere, UNCHANGED <<tree, archive, visited>>,
           NEW k \in 1 .. Len(visited), NodeKind(k) = "file",
           NEW path, path = visited[k].path, path \in DOMAIN unpacked,
           NEW d \in Nat, d = DataStart(k), NEW s \in Nat, s = Stop(k),
           NEW g \in Nat, g = get, d <= g, NEW h \in Nat, h = get', g <= h, h <= s,
           DOMAIN unpacked' = DOMAIN unpacked,
           \A p \in DOMAIN unpacked : p # path => unpacked'[p] = unpacked[p],
           unpacked'[path].kind = "file",
           unpacked'[path].data = Decompressed(SubSeq(archive, d + 1, h))
    PROVE  RebuiltHere'
<1>1. \A i : /\ Start(i)' = Start(i) /\ NodeKind(i)' = NodeKind(i)
             /\ DataStart(i)' = DataStart(i) /\ Stop(i)' = Stop(i)
    BY SameEntries
<1>2. /\ Len(visited) \in Nat /\ Len(archive) \in Nat /\ s <= Len(archive)
      /\ \A i \in 1 .. Len(visited) : Start(i) \in Nat /\ Stop(i) \in Nat
      /\ Start(k) < d
    <2>1. /\ Len(visited) \in Nat /\ Len(archive) \in Nat /\ Stop(k) <= Len(archive)
          /\ \A i \in 1 .. Len(visited) : Start(i) \in Nat /\ Stop(i) \in Nat
        BY LayoutTypes
    <2>2. Start(k) + 3 <= DataStart(k)
        BY LayoutTypes
    <2>3. Start(k) < d
        BY <2>1, <2>2
    <2> QED
        BY <2>1, <2>3
<1>3. Start(k) < Len(archive)
    BY <1>2
<1>4. /\ \A i \in 1 .. Len(visited) : i < k => Start(i) < Start(k) /\ Stop(i) <= Start(k)
      /\ \A i \in 1 .. Len(visited) : i > k => s <= Start(i)
    BY <1>3, EntryHere
<1>5. ASSUME NEW i \in 1 .. Len(visited), i # k, Start(i) < h
      PROVE  i < k /\ Start(i) < g /\ Stop(i) <= g
    <2>1. ~(i > k)
        BY <1>2, <1>4, <1>5
    <2>2. i < k
        BY <2>1, <1>2, <1>5
    <2> QED
        BY <2>2, <1>2, <1>4
<1>6. ASSUME NEW i \in 1 .. Len(visited), i # k, Start(i) < g
      PROVE  ReadSoFar(i)' = ReadSoFar(i)
    <2>1. Stop(i) \in Nat /\ Stop(i) <= g /\ Stop(i) <= h
        BY <1>2, <1>5, <1>6
    <2>2. Lesser(g, Stop(i)) = Stop(i) /\ Lesser(h, Stop(i)) = Stop(i)
        BY <2>1 DEF Lesser
    <2>3. ReadSoFar(i) = SubSeq(archive, DataStart(i) + 1, Lesser(g, Stop(i)))
        BY DEF ReadSoFar
    <2>4. ReadSoFar(i)' = SubSeq(archive, DataStart(i) + 1, Lesser(h, Stop(i)))
        BY <1>1 DEF ReadSoFar, Lesser
    <2> QED
        BY <2>2, <2>3, <2>4
<1>7. ReadSoFar(k)' = SubSeq(archive, d + 1, h)
    <2>1. Lesser(h, s) = h
        BY DEF Lesser
    <2>2. ReadSoFar(k)' = SubSeq(archive, d + 1, Lesser(h, s))
        BY <1>1 DEF ReadSoFar, Lesser
    <2> QED
        BY <2>1, <2>2
<1>8. ASSUME NEW p \in DOMAIN unpacked'
      PROVE  \E i \in 1 .. Len(visited') :
                 /\ visited'[i].path = p
                 /\ Start(i)' < get'
                 /\ unpacked'[p].kind = NodeKind(i)'
                 /\ unpacked'[p].data = Decompressed(ReadSoFar(i)')
    <2>1. CASE p = path
        <3>1. k \in 1 .. Len(visited') /\ visited'[k].path = p /\ NodeKind(k)' = "file"
            BY <2>1, <1>1
        <3>2. Start(k)' < get'
            BY <1>1, <1>2
        <3>3. unpacked'[p].data = Decompressed(ReadSoFar(k)')
            BY <2>1, <1>7
        <3> QED
            BY <3>1, <3>2, <3>3, <2>1
    <2>2. CASE p # path
        <3>1. p \in DOMAIN unpacked /\ unpacked'[p] = unpacked[p]
            BY <2>2
        <3>2. PICK i \in 1 .. Len(visited) :
                  /\ visited[i].path = p
                  /\ Start(i) < g
                  /\ unpacked[p].kind = NodeKind(i)
                  /\ unpacked[p].data = Decompressed(ReadSoFar(i))
            BY <3>1 DEF RebuiltHere
        <3>3. i # k
            BY <3>2, <2>2
        <3>4. ReadSoFar(i)' = ReadSoFar(i)
            BY <3>2, <3>3, <1>6
        <3>5. Start(i)' < get' /\ NodeKind(i)' = NodeKind(i)
            BY <3>2, <1>1, <1>2
        <3>6. unpacked'[p].data = Decompressed(ReadSoFar(i)')
            BY <3>1, <3>2, <3>4
        <3> QED
            BY <3>1, <3>2, <3>5, <3>6
    <2> QED
        BY <2>1, <2>2
<1>9. ASSUME NEW i \in 1 .. Len(visited'), Start(i)' < get'
      PROVE  visited'[i].path \in DOMAIN unpacked'
    <2>1. i \in 1 .. Len(visited) /\ Start(i) < h
        BY <1>1, <1>9
    <2>2. CASE i = k
        BY <2>2
    <2>3. CASE i # k
        <3>1. Start(i) < get
            BY <2>1, <2>3, <1>5
        <3> QED
            BY <2>1, <3>1 DEF RebuiltHere
    <2> QED
        BY <2>2, <2>3
<1> QED
    BY <1>8, <1>9 DEF RebuiltHere

\* One round of zstd::decompress.
LEMMA DecompressChunkKeeps ==
    ASSUME ArchiveInv, DecompressChunk
    PROVE  ArchiveInv'
<1>1. Typed /\ PackInv /\ UnpackInv
    BY Parts
<1>2. pc = "decompress" /\ entry.left_to_read > 0
    BY DEF DecompressChunk
<1>3. LayoutType /\ Sequenced /\ DataKept /\ happened \subseteq Faults /\ RebuiltHere
    BY <1>1, RebuiltIs DEF Typed, PackInv, UnpackInv
<1>4. PICK k \in 1 .. Len(visited) :
          /\ visited[k].path = entry.path
          /\ NodeKind(k) = "file"
          /\ get \in DataStart(k) .. Stop(k)
          /\ \/ get + entry.left_to_read = Stop(k)
             \/ entry.left_to_read = 0
          /\ entry.in_frame <=> get > DataStart(k) /\ archive[get].field # "end"
          /\ entry.path \in DOMAIN unpacked
          /\ unpacked[entry.path].kind = "file"
          /\ unpacked[entry.path].data = Decompressed(SubSeq(archive, DataStart(k) + 1, get))
    BY <1>1, <1>2 DEF UnpackInv, Decompressing
<1>5. PICK d \in Nat, s \in Nat, g \in Nat, left \in Nat \ {0}, path \in Seq(Names) :
          /\ d = DataStart(k) /\ s = Stop(k) /\ g = get /\ left = entry.left_to_read
          /\ path = entry.path
          /\ d <= g /\ g + left = s /\ s <= Len(archive) /\ Len(archive) \in Nat
    <2>1. DataStart(k) \in Nat /\ Stop(k) \in Nat /\ Stop(k) <= Len(archive) /\ Len(archive) \in Nat
        BY <1>3, LayoutTypes
    <2>2. get \in Nat /\ entry.left_to_read \in Nat /\ entry.path \in Seq(Names)
        BY <1>1, <2>1 DEF Typed, UnpackType
    <2>3. entry.left_to_read \in Nat \ {0}
        BY <2>2, <1>2
    <2>4. DataStart(k) <= get /\ get + entry.left_to_read = Stop(k)
        BY <2>1, <2>2, <2>3, <1>4
    <2> QED
        BY <2>1, <2>2, <2>3, <2>4
<1>6. PICK size \in Nat \ {0} : size = ChunkSize(entry.left_to_read) /\ size <= left
    <2>1. ChunkSize(left) \in Nat \ {0} /\ ChunkSize(left) <= left
        BY ArchiveAssumption DEF ChunkSize, Lesser
    <2> QED
        BY <2>1, <1>5
<1>7. PICK units : units = SubSeq(archive, g + 1, g + size)
    OBVIOUS
<1>8. ChunkGood(g, size, units)
    <2>1. g + size <= s
        BY <1>5, <1>6
    <2>2. entry.in_frame <=> g > d /\ archive[g].field # "end"
        BY <1>4, <1>5
    <2> QED
        BY <2>1, <2>2, <1>3, <1>5, <1>7, ChunkDecodable
<1>9. units \in Seq(Units) /\ Len(units) = size /\ Last(units) = archive[g + size]
    BY <1>8 DEF ChunkGood
<1>10. /\ unpacked' = [unpacked EXCEPT ![entry.path].data = @ \o Decompressed(units)]
       /\ entry' = [entry EXCEPT !.left_to_read = IF @ > size THEN @ - size ELSE 0,
                                 !.in_frame = Last(units).field # "end"]
       /\ get' = get + size
       /\ UNCHANGED <<tree, pc, outVars, packVars>>
    <2>1. Decodable(units)
        BY <1>8 DEF ChunkGood
    <2>2. units = SubSeq(archive, get + 1, get + ChunkSize(entry.left_to_read))
        BY <1>5, <1>6, <1>7
    <2> QED
        BY <2>1, <2>2, <1>6 DEF DecompressChunk
<1>11. /\ UNCHANGED <<tree, archive, put, happened, packVars>> /\ visited' = visited
       /\ pc' = "decompress" /\ (Intact' <=> Intact)
    BY <1>2, <1>10 DEF outVars, packVars, Intact
<1>12. PICK h \in Nat : h = get' /\ h = g + size /\ h <= s /\ g <= h /\ d < h
    BY <1>5, <1>6, <1>10
<1>13. Decompressed(SubSeq(archive, d + 1, g)) \o Decompressed(units)
           = Decompressed(SubSeq(archive, d + 1, h))
    <2>1. archive \in Seq(Units)
        BY <1>3 DEF LayoutType
    <2>2. /\ d + 1 \in 1 .. Len(archive) + 1 /\ g \in (d + 1) - 1 .. Len(archive)
          /\ h \in g .. Len(archive)
        <3>1. PICK a \in Nat : a = Len(archive) /\ s <= a /\ d <= g
            BY <1>5
        <3>2. h <= s /\ g <= h
            BY <1>12
        <3>3. d + 1 \in 1 .. a + 1 /\ g \in (d + 1) - 1 .. a /\ h \in g .. a
            BY <3>1, <3>2
        <3> QED
            BY <3>1, <3>3
    <2>3. SubSeq(archive, d + 1, g) \o SubSeq(archive, g + 1, h) = SubSeq(archive, d + 1, h)
        BY <2>1, <2>2, ConcatAdjacentSubSeq
    <2>4. SubSeq(archive, d + 1, g) \in Seq(Units)
        <3>1. d + 1 \in Nat \ {0} /\ g <= Len(archive)
            BY <2>2, <1>5
        <3> QED
            BY <3>1, <2>1, PartOf
    <2>5. units = SubSeq(archive, g + 1, h)
        BY <1>7, <1>12
    <2> QED
        BY <2>3, <2>4, <2>5, <1>9, OutOfConcat
<1>14. /\ path \in DOMAIN unpacked
       /\ unpacked[path].kind = "file"
       /\ unpacked[path].data = Decompressed(SubSeq(archive, d + 1, g))
       /\ unpacked[path] \in [kind : {"directory", "file"}, data : Seq(FileBytes)]
       /\ \A p \in DOMAIN unpacked : p \in Seq(Names)
              /\ unpacked[p] \in [kind : {"directory", "file"}, data : Seq(FileBytes)]
    BY <1>1, <1>4, <1>5 DEF Typed, UnpackType
<1>15. PICK new \in [kind : {"directory", "file"}, data : Seq(FileBytes)] :
           /\ new.kind = "file" /\ new.data = Decompressed(SubSeq(archive, d + 1, h))
           /\ new = [unpacked[path] EXCEPT !.data = @ \o Decompressed(units)]
    <2>1. PICK before \in Seq(FileBytes), out \in Seq(FileBytes) :
              before = unpacked[path].data /\ out = Decompressed(units)
        BY <1>9, <1>14, OutTyped
    <2>2. before \o out \in Seq(FileBytes)
        BY Joined
    <2>3. before \o out = Decompressed(SubSeq(archive, d + 1, h))
        BY <2>1, <1>13, <1>14
    <2>4. PICK old \in [kind : {"directory", "file"}, data : Seq(FileBytes)] : old = unpacked[path]
        BY <1>14
    <2>5. [old EXCEPT !.data = before \o out] \in [kind : {"directory", "file"}, data : Seq(FileBytes)]
          /\ [old EXCEPT !.data = before \o out].kind = old.kind
          /\ [old EXCEPT !.data = before \o out].data = before \o out
        BY <2>2, <2>4
    <2> QED
        BY <2>1, <2>3, <2>4, <2>5, <1>14
<1>16. /\ DOMAIN unpacked' = DOMAIN unpacked /\ unpacked'[path] = new
       /\ \A p \in DOMAIN unpacked : p # path => unpacked'[p] = unpacked[p]
    BY <1>5, <1>10, <1>14, <1>15
<1>17. RebuiltHere'
    <2>1. unpacked'[path].kind = "file" /\ unpacked'[path].data = Decompressed(SubSeq(archive, d + 1, h))
        BY <1>15, <1>16
    <2>2. path = visited[k].path /\ NodeKind(k) = "file" /\ path \in DOMAIN unpacked
        BY <1>4, <1>5
    <2>3. LayoutType /\ Sequenced /\ RebuiltHere /\ UNCHANGED <<tree, archive, visited>>
        BY <1>3, <1>11
    <2>4. d = DataStart(k) /\ s = Stop(k) /\ g = get /\ d <= g
        BY <1>5
    <2>5. h = get' /\ g <= h /\ h <= s
        BY <1>12
    <2>6. /\ DOMAIN unpacked' = DOMAIN unpacked
          /\ \A p \in DOMAIN unpacked : p # path => unpacked'[p] = unpacked[p]
        BY <1>16
    <2> QED
        BY <2>1, <2>2, <2>3, <2>4, <2>5, <2>6, EntryFurther
<1>18. Rebuilt'
    BY <1>11, <1>17 DEF Rebuilt, RebuiltHere
<1>19. /\ entry' \in [path : Seq(Names), left_to_read : Nat, in_frame : BOOLEAN]
       /\ entry'.path = path /\ entry'.left_to_read = left - size
       /\ entry'.in_frame <=> archive[h].field # "end"
    <2>1. PICK e \in [path : Seq(Names), left_to_read : Nat, in_frame : BOOLEAN] : e = entry
        BY <1>1 DEF Typed, UnpackType
    <2>2. PICK l \in Nat : l = left - size /\ l = IF left > size THEN left - size ELSE 0
        BY <1>6
    <2>3. PICK b \in BOOLEAN : b = (Last(units).field # "end")
        OBVIOUS
    <2>4. b <=> archive[h].field # "end"
        BY <2>3, <1>9, <1>12
    <2>5. entry' = [e EXCEPT !.left_to_read = l, !.in_frame = b]
        BY <2>1, <2>2, <2>3, <1>5, <1>10
    <2>6. /\ [e EXCEPT !.left_to_read = l, !.in_frame = b]
                 \in [path : Seq(Names), left_to_read : Nat, in_frame : BOOLEAN]
          /\ [e EXCEPT !.left_to_read = l, !.in_frame = b].path = e.path
          /\ [e EXCEPT !.left_to_read = l, !.in_frame = b].left_to_read = l
          /\ [e EXCEPT !.left_to_read = l, !.in_frame = b].in_frame = b
        OBVIOUS
    <2> QED
        BY <2>1, <2>2, <2>4, <2>5, <2>6, <1>5
<1>20. UnpackType'
    <2>1. get' \in 0 .. Len(archive')
        BY <1>5, <1>11, <1>12
    <2>2. ASSUME NEW p \in DOMAIN unpacked'
          PROVE  /\ p \in Seq(Names)
                 /\ unpacked'[p] \in [kind : {"directory", "file"}, data : Seq(FileBytes)]
        BY <1>14, <1>15, <1>16
    <2> QED
        BY <2>1, <2>2, <1>19 DEF UnpackType
<1>21. Decompressing'
    <2>1. /\ DataStart(k)' = d /\ Stop(k)' = s /\ NodeKind(k)' = "file"
          /\ k \in 1 .. Len(visited') /\ visited'[k].path = entry'.path
        BY <1>4, <1>5, <1>11, <1>19, SameEntries
    <2>2. get' \in DataStart(k)' .. Stop(k)'
        BY <2>1, <1>12
    <2>3. get' + entry'.left_to_read = Stop(k)'
        <3>1. h + (left - size) = s
            BY <1>5, <1>6, <1>12
        <3> QED
            BY <3>1, <2>1, <1>12, <1>19
    <2>4. entry'.in_frame <=> get' > DataStart(k)' /\ archive'[get'].field # "end"
        BY <2>1, <1>11, <1>12, <1>19
    <2>5. /\ entry'.path \in DOMAIN unpacked'
          /\ unpacked'[entry'.path].kind = "file"
          /\ unpacked'[entry'.path].data = Decompressed(SubSeq(archive', DataStart(k)' + 1, get'))
        BY <2>1, <1>11, <1>12, <1>14, <1>15, <1>16, <1>19
    <2> QED
        BY <2>1, <2>2, <2>3, <2>4, <2>5 DEF Decompressing
<1>22. UnpackInv'
    BY <1>11, <1>18, <1>21 DEF UnpackInv, OwnArchiveUnpacks
<1> QED
    BY <1>2, <1>3, <1>11, <1>20, <1>22, UnpackKeeps DEF Unpacking

-----------------------------------------------------------------------------
(* The invariant *)

\* The first state.
LEMMA ArchiveInit ==
    ASSUME Init
    PROVE  ArchiveInv
<1>1. /\ tree \in Trees /\ pc = "create" /\ happened = {} /\ stack = <<>>
      /\ file = NoFile /\ cctx = NewCCtx /\ visited = <<>> /\ archive = <<>>
      /\ put = 0 /\ get = 0 /\ entry = NoEntry /\ DOMAIN unpacked = {}
    BY DEF Init
<1>2. Len(<<>>) = 0 /\ \A i : i \notin 1 .. 0
    OBVIOUS
<1>3. (\A i : i \notin 1 .. Len(visited)) /\ \A i : i \notin 1 .. Len(stack)
    BY <1>1, <1>2
<1>4. TypeOK
    <2>1. \A X : <<>> \in Seq(X)
        OBVIOUS
    <2>2. file \in [rest : Seq(FileBytes), pos : Nat, bytes_written : Nat]
        BY <1>1, <2>1 DEF NoFile
    <2>3. cctx \in [begun : BOOLEAN, held : Seq(FileBytes), owed : Seq(Units)]
        BY <1>1, <2>1 DEF NewCCtx
    <2>4. entry \in [path : Seq(Names), left_to_read : Nat, in_frame : BOOLEAN]
        BY <1>1, <2>1 DEF NoEntry
    <2>5. /\ stack \in Seq([relative_path : Seq(Names), todo : SUBSET DOMAIN tree])
          /\ visited \in Seq([path : Seq(Names), node : DOMAIN tree, start : Nat])
          /\ archive \in Seq(Units)
        BY <1>1, <2>1
    <2>6. put \in 0 .. Len(archive) /\ get \in 0 .. Len(archive)
        BY <1>1, <1>2
    <2> QED
        BY <2>2, <2>3, <2>4, <2>5, <2>6, <1>1 DEF TypeOK
<1>5. Visits /\ Calls /\ NoneForgotten
    BY <1>1, <1>3 DEF Visits, Calls, NoneForgotten
<1>6. Sequenced
    BY <1>1, <1>2, <1>3 DEF Sequenced
<1>7. HeaderKept /\ DataKept /\ Compressing
    BY <1>1, <1>3 DEF HeaderKept, DataKept, Compressing
<1>8. Rebuilt /\ Decompressing /\ OwnArchiveUnpacks
    BY <1>1, <1>3 DEF Rebuilt, Decompressing, OwnArchiveUnpacks
<1> QED
    BY <1>4, <1>5, <1>6, <1>7, <1>8 DEF ArchiveInv

\* A step that changes nothing.
LEMMA ArchiveStutters ==
    ASSUME ArchiveInv, UNCHANGED vars
    PROVE  ArchiveInv'
<1>1. UNCHANGED <<tree, pc, archive, put, happened, stack, file, cctx, visited, get, entry, unpacked>>
    BY DEF vars, outVars, packVars, unpackVars
<1>2. /\ \A i : /\ Start(i)' = Start(i) /\ Stop(i)' = Stop(i)
                /\ DataStart(i)' = DataStart(i) /\ DataOf(i)' = DataOf(i)
                /\ NodeKind(i)' = NodeKind(i)
      /\ \A p : Content(p)' = Content(p) /\ (FillsLastChunk(p)' <=> FillsLastChunk(p))
    BY <1>1, SameEntries
<1>3. /\ \A p : Target(p)' = Target(p) /\ Kind(p)' = Kind(p) /\ Children(p)' = Children(p)
      /\ \A p, node : Leads(p, node)' <=> Leads(p, node)
    BY <1>1, SameTree
<1>4. Intact' <=> Intact
    BY <1>1 DEF Intact
<1>5. TypeOK'
    BY <1>1 DEF ArchiveInv, TypeOK
<1>6. Visits'
    <2>1. Visits
        BY DEF ArchiveInv
    <2>2. \A i : Leads(visited[i].path, visited[i].node)' <=> Leads(visited[i].path, visited[i].node)
        BY <1>1 DEF Leads, Walks, IsWalk, EndOf, Kind, Target, Children
    <2> QED
        BY <2>1, <2>2, <1>1, <1>2 DEF Visits
<1>7. Calls'
    <2>1. Calls
        BY DEF ArchiveInv
    <2>2. /\ \A i : NodeKind(i)' = NodeKind(i)
          /\ \A d : Children(d)' = Children(d)
        BY <1>2, <1>3
    <2> QED
        BY <2>1, <2>2, <1>1 DEF Calls
<1>8. NoneForgotten'
    <2>1. NoneForgotten
        BY DEF ArchiveInv
    <2> QED
        BY <2>1, <1>1 DEF NoneForgotten, NodeKind, Children, Kind, Target, Pending, VisitedAs
<1>9. Sequenced'
    <2>1. Sequenced
        BY DEF ArchiveInv
    <2> QED
        BY <2>1, <1>1, <1>2, <1>4 DEF Sequenced
<1>10. HeaderKept'
    <2>1. HeaderKept
        BY DEF ArchiveInv
    <2>2. \A i : HeaderAt(i)' <=> HeaderAt(i)
        BY <1>1, <1>2, <1>4 DEF HeaderAt, IsOpen
    <2> QED
        BY <2>1, <2>2, <1>1 DEF HeaderKept
<1>11. DataKept'
    <2>1. DataKept
        BY DEF ArchiveInv
    <2>2. \A i : DataAt(i)' <=> DataAt(i)
        BY <1>1, <1>2, <1>4 DEF DataAt, IsOpen, DataOf, DataStart, Start, Stop, NodeKind, Content,
           FillsLastChunk
    <2> QED
        BY <2>1, <2>2, <1>1 DEF DataKept
<1>12. Compressing'
    <2>1. Compressing
        BY DEF ArchiveInv
    <2> QED
        BY <2>1, <1>1, <1>4 DEF Compressing, DataOf, DataStart, Start, Stop, NodeKind, Content,
           FillsLastChunk
<1>13. Rebuilt' /\ Decompressing' /\ OwnArchiveUnpacks'
    <2>1. Rebuilt /\ Decompressing /\ OwnArchiveUnpacks
        BY DEF ArchiveInv
    <2>2. \A i : ReadSoFar(i)' = ReadSoFar(i)
        BY <1>1, <1>2 DEF ReadSoFar
    <2>3. AtEntry' <=> AtEntry
        BY <1>1, <1>2, <1>4 DEF AtEntry
    <2>4. Rebuilt'
        BY <2>1, <2>2, <2>3, <1>1, <1>2 DEF Rebuilt
    <2>5. Decompressing'
        BY <2>1, <1>1, <1>2, <1>4 DEF Decompressing
    <2>6. OwnArchiveUnpacks'
        BY <2>1, <1>1 DEF OwnArchiveUnpacks
    <2> QED
        BY <2>4, <2>5, <2>6
<1> QED
    BY <1>5, <1>6, <1>7, <1>8, <1>9, <1>10, <1>11, <1>12, <1>13 DEF ArchiveInv

\* Every step keeps the invariant.
LEMMA ArchiveStep ==
    ASSUME ArchiveInv, [Next]_vars
    PROVE  ArchiveInv'
<1>1. CASE CreateArchive
    BY <1>1, CreateArchiveKeeps
<1>2. CASE Pack
    BY <1>2, PackReturnsKeeps, WalkThrowsKeeps, PackChildKeeps DEF Pack
<1>3. CASE CompressChunk
    BY <1>3, CompressChunkKeeps
<1>4. CASE AddFileReturns
    BY <1>4, AddFileReturnsKeeps
<1>5. CASE UnpackArchive
    BY <1>5, UnpackArchiveKeeps
<1>6. CASE ReadEntry
    BY <1>6, ReadEntryKeeps
<1>7. CASE UnpackReturns
    BY <1>7, UnpackReturnsKeeps
<1>8. CASE DecompressChunk
    BY <1>8, DecompressChunkKeeps
<1>9. CASE DecompressReturns
    BY <1>9, DecompressReturnsKeeps
<1>10. CASE UNCHANGED vars
    BY <1>10, ArchiveStutters
<1> QED
    BY <1>1, <1>2, <1>3, <1>4, <1>5, <1>6, <1>7, <1>8, <1>9, <1>10 DEF Next, Terminated

\* The archive as it is written, the walk through the directory and the reader
\* stay in step: every step of packing and unpacking keeps the invariant.
THEOREM ArchiveInvariance == Spec => []ArchiveInv
BY ArchiveInit, ArchiveStep, PTL DEF Spec

-----------------------------------------------------------------------------
(* What follows from it *)

\* The variables stay within their types, whatever the directory: the write and
\* the read position never leave the archive.
THEOREM TypeCorrect == Spec => []TypeOK
<1>1. ArchiveInv => TypeOK
    BY DEF ArchiveInv
<1> QED
    BY <1>1, ArchiveInvariance, PTL

\* Whatever createArchive wrote, unpackArchive and zstd::decompress refuse
\* nothing of it and never take data for a header, unless something failed.
THEOREM OwnArchiveAlwaysUnpacks == Spec => []OwnArchiveUnpacks
<1>1. ArchiveInv => OwnArchiveUnpacks
    BY DEF ArchiveInv
<1> QED
    BY <1>1, ArchiveInvariance, PTL

\* When createArchive succeeds every way through the directory was followed to
\* its end: nothing unreadable, too long or leading back to itself was left out.
THEOREM NoPartIsTakenForTheWhole == Spec => []NoPartForTheWhole
<1>1. ArchiveInv => NoPartForTheWhole
    <2> SUFFICES ASSUME ArchiveInv PROVE NoPartForTheWhole
        OBVIOUS
    <2>1. /\ tree \in Trees /\ Visits /\ Calls /\ NoneForgotten
          /\ visited \in Seq([path : Seq(Names), node : DOMAIN tree, start : Nat])
        BY DEF ArchiveInv, TypeOK
    <2> QED
        BY <2>1, PackedWhole
<1> QED
    BY <1>1, ArchiveInvariance, PTL

\* What follows a beginning.
LEMMA PrefixRest ==
    ASSUME NEW before \in Seq(FileBytes), NEW all \in Seq(FileBytes), IsPrefix(before, all)
    PROVE  \E rest \in Seq(FileBytes) : all = before \o rest
<1>1. PICK m \in 0 .. Len(all) : m = Len(before) /\ SubSeq(before, 1, m) = SubSeq(all, 1, m)
    BY LenProperties DEF IsPrefix
<1>2. SubSeq(before, 1, m) = before
    BY <1>1, WholeOf
<1>3. /\ SubSeq(all, m + 1, Len(all)) \in Seq(FileBytes)
      /\ SubSeq(all, 1, m) \o SubSeq(all, m + 1, Len(all)) = all
    BY BeginningOf
<1> QED
    BY <1>1, <1>2, <1>3

\* What was read of an entry is the beginning of its data.
LEMMA ReadIsBegun ==
    ASSUME LayoutType, Sequenced, get \in 0 .. Len(archive), NEW i \in 1 .. Len(visited)
    PROVE  /\ ReadSoFar(i) \in Seq(Units)
           /\ \E q \in Seq(Units) : DataOf(i) = ReadSoFar(i) \o q
           /\ get = Len(archive) => ReadSoFar(i) = DataOf(i)
<1>1. PICK d \in Nat, s \in Nat, g \in Nat, a \in Nat :
          /\ d = DataStart(i) /\ s = Stop(i) /\ g = get /\ a = Len(archive)
          /\ s <= a /\ g <= a
    <2>1. /\ DataStart(i) \in Nat /\ Stop(i) \in Nat /\ Stop(i) <= Len(archive)
          /\ Len(archive) \in Nat
        BY LayoutTypes
    <2>2. get \in Nat /\ get <= Len(archive)
        BY <2>1
    <2> QED
        BY <2>1, <2>2
<1>2. archive \in Seq(Units)
    BY DEF LayoutType
<1>3. DataOf(i) = SubSeq(archive, d + 1, s) /\ DataOf(i) \in Seq(Units)
    BY <1>1, DataIs DEF DataOf
<1>4. ReadSoFar(i) = SubSeq(archive, d + 1, Lesser(g, s))
    BY <1>1 DEF ReadSoFar
<1>5. CASE s <= g
    <2>1. Lesser(g, s) = s
        BY <1>5 DEF Lesser
    <2>2. ReadSoFar(i) = DataOf(i)
        BY <2>1, <1>3, <1>4
    <2>3. DataOf(i) \o <<>> = DataOf(i) /\ <<>> \in Seq(Units)
        BY <1>3, WholeOf
    <2> QED
        BY <2>2, <2>3, <1>3
<1>6. CASE g < s /\ d <= g
    <2>1. Lesser(g, s) = g /\ g # a
        BY <1>1, <1>6 DEF Lesser
    <2>2. d + 1 \in 1 .. a + 1 /\ g \in (d + 1) - 1 .. a /\ s \in g .. a
        BY <1>1, <1>6
    <2>3. SubSeq(archive, d + 1, g) \o SubSeq(archive, g + 1, s) = SubSeq(archive, d + 1, s)
        BY <2>2, <1>1, <1>2, ConcatAdjacentSubSeq
    <2>4. SubSeq(archive, d + 1, g) \in Seq(Units) /\ SubSeq(archive, g + 1, s) \in Seq(Units)
        <3>1. d + 1 \in Nat \ {0} /\ g + 1 \in Nat \ {0} /\ g <= Len(archive) /\ s <= Len(archive)
            BY <1>1
        <3> QED
            BY <3>1, <1>2, PartOf
    <2> QED
        BY <2>1, <2>3, <2>4, <1>1, <1>3, <1>4
<1>7. CASE g < s /\ ~(d <= g)
    <2>1. Lesser(g, s) = g /\ g < d + 1 /\ g # a
        BY <1>1, <1>7 DEF Lesser
    <2>2. SubSeq(archive, d + 1, g) = <<>>
        BY <2>1, SubSeqEmpty
    <2>3. <<>> \o DataOf(i) = DataOf(i) /\ <<>> \in Seq(Units)
        BY <1>3, WholeOf
    <2> QED
        BY <2>1, <2>2, <2>3, <1>1, <1>3, <1>4
<1>8. s <= g \/ (g < s /\ d <= g) \/ (g < s /\ ~(d <= g))
    OBVIOUS
<1> QED
    BY <1>5, <1>6, <1>7, <1>8, Zenon

\* Whatever was unpacked, and the way that led to it.
FromThePacked(p, i, w) ==
    /\ visited[i].path = p
    /\ IsWalkTo(w, Len(p), p, visited[i].node)
    /\ w \in PackedWalks(Len(p)) /\ PathOf(w) = p /\ EndOf(w) = visited[i].node
    /\ Len(p) \in 1 .. PATH_MAX_LEN
    /\ unpacked[p].kind = NodeKind(i) /\ NodeKind(i) = Kind(Last(w))
    /\ unpacked[p].data = Decompressed(ReadSoFar(i))

\* What is unpacked at a path was packed from what that path leads to.
LEMMA UnpackedIs ==
    ASSUME ArchiveInv, NEW p \in DOMAIN unpacked
    PROVE  \E i \in 1 .. Len(visited) : \E w : FromThePacked(p, i, w)
<1>1. Typed /\ PackInv /\ UnpackInv
    BY Parts
<1>2. PICK i \in 1 .. Len(visited) :
          /\ visited[i].path = p
          /\ unpacked[p].kind = NodeKind(i)
          /\ unpacked[p].data = Decompressed(ReadSoFar(i))
    BY <1>1 DEF UnpackInv, Rebuilt
<1>3. p \in Seq(Names) /\ NodeKind(i) \in {"directory", "file"}
    BY <1>1, <1>2 DEF Typed, UnpackType
<1>4. Leads(p, visited[i].node) /\ Len(p) \in 1 .. PATH_MAX_LEN
    BY <1>1, <1>2 DEF PackInv, WalkInv, Visits
<1>5. PICK n \in Nat \ {0} : n = Len(p)
    BY <1>3, <1>4, LenProperties
<1>6. PICK w \in Walks(n) : PathOf(w) = p /\ EndOf(w) = visited[i].node
    BY <1>4, <1>5 DEF Leads
<1>7. /\ IsWalkTo(w, n, PathOf(w), EndOf(w)) /\ Last(w) = w[n] /\ EndOf(w) = Target(w[n])
    BY WalksAre
<1>8. visited[i].node \in DOMAIN tree
    BY <1>1, LayoutTypes DEF Typed, PackInv
<1>9. Kind(Last(w)) = NodeKind(i)
    <2>1. Target(Last(w)) = visited[i].node
        BY <1>6, <1>7
    <2> QED
        BY <2>1, <1>8 DEF Kind, NodeKind
<1>10. w \in PackedWalks(n)
    BY <1>3, <1>9 DEF PackedWalks
<1>11. FromThePacked(p, i, w)
    BY <1>2, <1>4, <1>5, <1>6, <1>7, <1>9, <1>10 DEF FromThePacked
<1> QED
    BY <1>11

\* Whatever was lost when the sender's disk was full, unpackArchive rebuilds
\* nothing but what createArchive was given, and of every file a beginning.
THEOREM NothingIsInvented == Spec => []NothingInvented
<1>1. ArchiveInv => NothingInvented
    <2> SUFFICES ASSUME ArchiveInv, NEW p \in DOMAIN unpacked
                 PROVE  \E w \in PackedWalks(Len(p)) :
                            /\ PathOf(w) = p
                            /\ unpacked[p].kind = Kind(Last(w))
                            /\ IsPrefix(unpacked[p].data, Content(EndOf(w)))
        BY DEF NothingInvented
    <2>1. Typed /\ PackInv /\ UnpackInv
        BY Parts
    <2>0. PICK i \in 1 .. Len(visited) : \E w : FromThePacked(p, i, w)
        BY UnpackedIs
    <2>2. PICK w : FromThePacked(p, i, w)
        BY <2>0
    <2>3. /\ w \in PackedWalks(Len(p)) /\ PathOf(w) = p /\ EndOf(w) = visited[i].node
          /\ unpacked[p].kind = Kind(Last(w))
          /\ unpacked[p].data = Decompressed(ReadSoFar(i))
        BY <2>2 DEF FromThePacked
    <2>4. LayoutType /\ Sequenced /\ get \in 0 .. Len(archive) /\ tree \in Trees
        BY <2>1 DEF Typed, PackInv, UnpackType, LayoutType
    <2>5. PICK r \in Seq(Units), q \in Seq(Units) : r = ReadSoFar(i) /\ DataOf(i) = r \o q
        BY <2>4, ReadIsBegun
    <2>6. Framed(DataOf(i)) /\ IsPrefix(Decompressed(DataOf(i)), Content(visited[i].node))
        BY <2>1 DEF PackInv, DataKept, DataAt
    <2>7. /\ Decompressed(DataOf(i)) \in Seq(FileBytes)
          /\ Content(visited[i].node) \in Seq(FileBytes)
        <3>1. visited[i].node \in DOMAIN tree
            BY <2>4, LayoutTypes
        <3> QED
            BY <3>1, <2>4, DataIs, OutTyped, ContentIs
    <2>8. PICK rest \in Seq(FileBytes) :
              Content(visited[i].node) = Decompressed(DataOf(i)) \o rest
        BY <2>6, <2>7, PrefixRest
    <2>9. IsPrefix(Decompressed(r), Decompressed(DataOf(i)) \o rest)
        BY <2>5, <2>6, FrameBegun
    <2>10. IsPrefix(unpacked[p].data, Content(EndOf(w)))
        BY <2>3, <2>5, <2>8, <2>9
    <2> QED
        BY <2>3, <2>10
<1> QED
    BY <1>1, ArchiveInvariance, PTL

\* A directory that went through createArchive and unpackArchive undisturbed is
\* there again: every path once more, and every file's content, whatever the
\* sizes of files, chunks and blocks, but for the files that fill their last
\* chunk, which zstd::compress never ends.
THEOREM RoundTrips == Spec => []RoundTrip
<1>1. ArchiveInv => RoundTrip
    <2> SUFFICES ASSUME ArchiveInv, pc = "done", happened = {} PROVE
            /\ DOMAIN unpacked =
                   {PathOf(w) : w \in UNION {PackedWalks(n) : n \in 1 .. PATH_MAX_LEN}}
            /\ \A n \in 1 .. PATH_MAX_LEN : \A w \in PackedWalks(n) :
                   /\ unpacked[PathOf(w)].kind = Kind(Last(w))
                   /\ \/ unpacked[PathOf(w)].data = Content(EndOf(w))
                      \/ FillsLastChunk(EndOf(w))
        BY DEF RoundTrip
    <2>1. Typed /\ PackInv /\ UnpackInv
        BY Parts
    <2>2. /\ LayoutType /\ Sequenced /\ get \in 0 .. Len(archive) /\ tree \in Trees
          /\ visited \in Seq([path : Seq(Names), node : DOMAIN tree, start : Nat])
        BY <2>1 DEF Typed, PackInv, UnpackType, LayoutType
    <2>3. Intact /\ get = Len(archive) /\ Visits /\ NoneForgotten /\ stack = <<>>
        BY <2>1 DEF Intact, UnpackInv, Rebuilt, PackInv, WalkInv, Calls
    <2>4. ASSUME NEW p \in DOMAIN unpacked
          PROVE  p \in {PathOf(w) : w \in UNION {PackedWalks(n) : n \in 1 .. PATH_MAX_LEN}}
        <3>0. PICK i \in 1 .. Len(visited) : \E w : FromThePacked(p, i, w)
            BY UnpackedIs
        <3>1. PICK w : FromThePacked(p, i, w)
            BY <3>0
        <3>2. Len(p) \in 1 .. PATH_MAX_LEN /\ w \in PackedWalks(Len(p)) /\ PathOf(w) = p
            BY <3>1 DEF FromThePacked
        <3> QED
            BY <3>2
    <2>5. ASSUME NEW n \in 1 .. PATH_MAX_LEN, NEW w \in PackedWalks(n)
          PROVE  PathOf(w) \in DOMAIN unpacked
        <3>1. n \in Nat \ {0} /\ w \in Walks(n) /\ Kind(Last(w)) \notin {"special", "missing"}
            BY ArchiveAssumption DEF PackedWalks
        <3>2. PICK j \in 1 .. Len(visited) : visited[j].path = PathOf(w)
            BY <3>1, <2>2, <2>3, EveryWayVisited
        <3>3. Start(j) < get
            <4>1. DataStart(j) <= Stop(j)
                BY <2>2, <2>3 DEF Sequenced
            <4> QED
                BY <4>1, <2>2, <2>3, LayoutTypes
        <3> QED
            BY <3>2, <3>3, <2>1 DEF UnpackInv, Rebuilt
    <2>6. ASSUME NEW n \in 1 .. PATH_MAX_LEN, NEW w \in PackedWalks(n)
          PROVE  /\ unpacked[PathOf(w)].kind = Kind(Last(w))
                 /\ \/ unpacked[PathOf(w)].data = Content(EndOf(w))
                    \/ FillsLastChunk(EndOf(w))
        <3>1. PICK p \in DOMAIN unpacked : p = PathOf(w)
            BY <2>5
        <3>0. PICK i \in 1 .. Len(visited) : \E v : FromThePacked(p, i, v)
            BY UnpackedIs
        <3>2. PICK v : FromThePacked(p, i, v)
            BY <3>0
        <3>3. n \in Nat \ {0} /\ w \in Walks(n) /\ Kind(Last(w)) \in {"directory", "file"}
            BY ArchiveAssumption DEF PackedWalks
        <3>4. /\ IsWalkTo(w, n, p, EndOf(w)) /\ n = Len(p)
            BY <3>1, <3>3, WalksAre
        <3>5. v = w /\ visited[i].node = EndOf(w)
            <4>1. IsWalkTo(v, n, p, visited[i].node)
                BY <3>2, <3>4 DEF FromThePacked
            <4> QED
                BY <4>1, <3>3, <3>4, <2>2, OneWalk
        <3>6. /\ unpacked[p].kind = Kind(Last(w)) /\ NodeKind(i) = Kind(Last(w))
              /\ unpacked[p].data = Decompressed(ReadSoFar(i))
            BY <3>2, <3>5 DEF FromThePacked
        <3>7. ReadSoFar(i) = DataOf(i)
            BY <2>2, <2>3, ReadIsBegun
        <3>8. \/ Decompressed(DataOf(i)) = Content(visited[i].node)
              \/ FillsLastChunk(visited[i].node)
            <4>1. ~IsOpen(i) /\ NodeKind(i) # "unreadable"
                BY <3>3, <3>6 DEF IsOpen
            <4> QED
                BY <4>1, <2>1, <2>3 DEF PackInv, DataKept, DataAt
        <3> QED
            BY <3>1, <3>5, <3>6, <3>7, <3>8
    <2> QED
        BY <2>4, <2>5, <2>6
<1> QED
    BY <1>1, ArchiveInvariance, PTL

-----------------------------------------------------------------------------
(* No way is followed twice. *)

\* path begins with the names of begin.
Begins(begin, path) ==
    /\ Len(begin) <= Len(path)
    /\ \A k \in 1 .. Len(begin) : path[k] = begin[k]

\* Nothing was visited at the child or behind it.
Ahead(path, c) ==
    \A i \in 1 .. Len(visited) : ~Begins(Append(path, Last(c)), visited[i].path)

\* The calls lead one name further each, and what they have yet to do is new.
OnceInv ==
    /\ \A s \in 1 .. Len(stack) :
           /\ Len(stack[s].relative_path) = s
           /\ \A c \in stack[s].todo : Ahead(stack[s].relative_path, c)
    /\ \A i, j \in 1 .. Len(visited) : visited[i].path = visited[j].path => i = j

\* Calls return, or leave some of their children out.
LEMMA OnceShrinks ==
    ASSUME OnceInv, visited' = visited,
           \A s \in 1 .. Len(stack') :
               /\ s \in 1 .. Len(stack)
               /\ stack'[s].relative_path = stack[s].relative_path
               /\ stack'[s].todo \subseteq stack[s].todo
    PROVE  OnceInv'
<1>1. \A q, c : Ahead(q, c)' <=> Ahead(q, c)
    BY DEF Ahead
<1>2. ASSUME NEW s \in 1 .. Len(stack')
      PROVE  /\ Len(stack'[s].relative_path) = s
             /\ \A c \in stack'[s].todo : Ahead(stack'[s].relative_path, c)
    BY DEF OnceInv
<1>3. ASSUME NEW s \in 1 .. Len(stack'), NEW c \in stack'[s].todo
      PROVE  Ahead(stack[s].relative_path, c)'
    <2>1. Ahead(stack'[s].relative_path, c)
        BY <1>2
    <2>2. PICK q : q = stack'[s].relative_path
        OBVIOUS
    <2>3. Ahead(q, c)'
        BY <1>1, <2>1, <2>2
    <2> QED
        BY <2>2, <2>3
<1>4. \A i, j \in 1 .. Len(visited') : visited'[i].path = visited'[j].path => i = j
    BY DEF OnceInv
<1> QED
    BY <1>2, <1>3, <1>4 DEF OnceInv

\* A path and the name of a child behind it.
LEMMA OneFurther ==
    ASSUME tree \in Trees, NEW q \in Seq(Names), NEW c \in DOMAIN tree
    PROVE  \E longer \in Seq(Names) :
               /\ longer = Append(q, Last(c)) /\ Len(longer) = Len(q) + 1
               /\ \A k \in 1 .. Len(q) : longer[k] = q[k]
               /\ longer[Len(q) + 1] = Last(c)
<1>1. c \in Seq(Names) /\ c # <<>>
    BY TreeIs
<1>2. PICK name \in Names : name = Last(c)
    <2>1. Len(c) \in 1 .. Len(c)
        BY <1>1, WholeOf
    <2> QED
        BY <1>1, <2>1, ElementOfSeq DEF Last
<1>3. /\ Append(q, name) \in Seq(Names) /\ Len(Append(q, name)) = Len(q) + 1
      /\ \A k \in 1 .. Len(q) : Append(q, name)[k] = q[k]
      /\ Append(q, name)[Len(q) + 1] = name
    BY AppendProperties
<1> QED
    BY <1>2, <1>3, Zenon

\* The way to the next child is new, and leads past all the others.
LEMMA ChildAhead ==
    ASSUME ArchiveInv, OnceInv, NEW n \in Nat \ {0}, n = Len(stack),
           NEW p \in Last(stack).todo,
           NEW path, path = Append(Last(stack).relative_path, Last(p))
    PROVE  /\ path \in Seq(Names) /\ Len(path) = n + 1
           /\ \A i \in 1 .. Len(visited) : ~Begins(path, visited[i].path)
           /\ \A s \in 1 .. n : \A c \in stack[s].todo :
                  \/ s = n /\ c = p
                  \/ ~Begins(Append(stack[s].relative_path, Last(c)), path)
<1>1. /\ tree \in Trees /\ visited \in Seq(Entries) /\ stack \in Seq(Frames)
      /\ Calls
    BY Parts, SeqOfFrames DEF ArchiveInv
<1>2. ASSUME NEW s \in 1 .. n
      PROVE  /\ stack[s].relative_path \in Seq(Names)
             /\ Len(stack[s].relative_path) = s
             /\ stack[s].todo \subseteq DOMAIN tree
             /\ \A c \in stack[s].todo : Ahead(stack[s].relative_path, c)
    <2>1. stack[s] \in Frames
        BY <1>1, ElementOfSeq
    <2> QED
        BY <2>1 DEF Frames, OnceInv
<1>3. n \in 1 .. n /\ Last(stack) = stack[n] /\ p \in stack[n].todo
    BY DEF Last
<1>4. PICK q \in Seq(Names) : q = stack[n].relative_path /\ Len(q) = n
    BY <1>2, <1>3
<1>5. PICK way \in Seq(Names) :
          /\ way = path /\ Len(way) = n + 1
          /\ \A k \in 1 .. n : way[k] = q[k]
          /\ way[n + 1] = Last(p)
    <2>1. p \in DOMAIN tree
        BY <1>2, <1>3
    <2>2. path = Append(q, Last(p))
        BY <1>3, <1>4
    <2>3. PICK longer \in Seq(Names) :
              /\ longer = Append(q, Last(p)) /\ Len(longer) = Len(q) + 1
              /\ \A k \in 1 .. Len(q) : longer[k] = q[k]
              /\ longer[Len(q) + 1] = Last(p)
        BY <2>1, <1>1, OneFurther
    <2> QED
        BY <2>2, <2>3, <1>4
<1>6. PICK i \in 1 .. Len(visited) :
          /\ visited[i].path = q
          /\ stack[n].todo \subseteq Children(visited[i].node)
    BY <1>1, <1>3, <1>4 DEF Calls
<1>7. \A j \in 1 .. Len(visited) : ~Begins(path, visited[j].path)
    <2>1. Ahead(q, p) /\ path = Append(q, Last(p))
        BY <1>2, <1>3, <1>4
    <2> QED
        BY <2>1 DEF Ahead
<1>8. ASSUME NEW s \in 1 .. n, NEW c \in stack[s].todo, ~(s = n /\ c = p),
             NEW other, other = Append(stack[s].relative_path, Last(c)),
             Begins(other, way)
      PROVE  FALSE
    <2>1. PICK r \in Seq(Names) : r = stack[s].relative_path /\ Len(r) = s
        BY <1>2
    <2>2. other \in Seq(Names) /\ Len(other) = s + 1 /\ other[s + 1] = Last(c)
        <3>1. c \in DOMAIN tree /\ s \in Nat /\ other = Append(r, Last(c))
            BY <1>2, <1>8, <2>1
        <3>2. PICK longer \in Seq(Names) :
                  /\ longer = Append(r, Last(c)) /\ Len(longer) = Len(r) + 1
                  /\ \A k \in 1 .. Len(r) : longer[k] = r[k]
                  /\ longer[Len(r) + 1] = Last(c)
            BY <3>1, <2>1, <1>1, OneFurther
        <3> QED
            BY <3>1, <3>2, <2>1
    <2>3. \A k \in 1 .. s + 1 : way[k] = other[k]
        BY <1>8, <2>2 DEF Begins
    <2>4. CASE s = n
        <3>1. Last(p) = Last(c)
            BY <2>2, <2>3, <2>4, <1>5
        <3>2. p \in Children(visited[i].node) /\ c \in Children(visited[i].node)
            BY <2>4, <1>3, <1>6
        <3>3. p = c
            BY <3>1, <3>2, <1>1, OneChild
        <3> QED
            BY <3>3, <2>4, <1>8
    <2>5. CASE s # n
        <3>1. s + 1 <= n /\ \A k \in 1 .. s + 1 : k \in 1 .. n
            BY <2>5
        <3>2. \A k \in 1 .. s + 1 : q[k] = other[k]
            BY <3>1, <2>3, <1>5
        <3>3. Begins(other, q)
            BY <3>1, <3>2, <2>2, <1>4 DEF Begins
        <3>4. Ahead(stack[s].relative_path, c)
            BY <1>2
        <3> QED
            BY <3>3, <3>4, <1>6, <1>8 DEF Ahead
    <2> QED
        BY <2>4, <2>5
<1>9. ASSUME NEW s \in 1 .. n, NEW c \in stack[s].todo
      PROVE  \/ s = n /\ c = p
             \/ ~Begins(Append(stack[s].relative_path, Last(c)), path)
    <2>1. PICK other : other = Append(stack[s].relative_path, Last(c))
        OBVIOUS
    <2> QED
        BY <2>1, <1>5, <1>8
<1> QED
    BY <1>5, <1>7, <1>9

\* The calls go on, and there may be a new one for what is at path.
CallsAfter(n, calls, path) ==
    \A s \in 1 .. Len(stack') :
        \/ s \in 1 .. n /\ stack'[s] = calls[s]
        \/ /\ s = n + 1
           /\ stack'[s].relative_path = path
           /\ stack'[s].todo \subseteq DOMAIN tree

\* The child is visited, and entered if it is a directory.
LEMMA ChildOnce ==
    ASSUME ArchiveInv, OnceInv, NEW n \in Nat \ {0}, n = Len(stack),
           NEW p \in Last(stack).todo,
           NEW path, path = Append(Last(stack).relative_path, Last(p)),
           NEW calls, CallsWithout(p, calls),
           NEW e \in Entries, e.path = path, visited' = Append(visited, e),
           CallsAfter(n, calls, path)
    PROVE  OnceInv'
<1>1. tree \in Trees /\ visited \in Seq(Entries)
    BY Parts, SeqOfFrames
<1>2. /\ path \in Seq(Names) /\ Len(path) = n + 1
      /\ \A i \in 1 .. Len(visited) : ~Begins(path, visited[i].path)
      /\ \A s \in 1 .. n : \A c \in stack[s].todo :
             \/ s = n /\ c = p
             \/ ~Begins(Append(stack[s].relative_path, Last(c)), path)
    BY ChildAhead
<1>3. /\ \A s \in 1 .. n :
             /\ calls[s].relative_path = stack[s].relative_path
             /\ calls[s].todo \subseteq stack[s].todo
      /\ p \notin calls[n].todo
    BY DEF CallsWithout
<1>4. PICK m \in Nat : m = Len(visited)
    BY <1>1, LenProperties
<1>5. /\ Len(visited') = m + 1 /\ visited'[m + 1] = e
      /\ \A i \in 1 .. m : visited'[i] = visited[i]
    BY <1>1, <1>4, AppendProperties
<1>6. \A i \in 1 .. m + 1 :
          \/ i \in 1 .. m /\ visited'[i].path = visited[i].path
          \/ i = m + 1 /\ visited'[i].path = path
    BY <1>5
<1>7. ASSUME NEW s \in 1 .. Len(stack')
      PROVE  Len(stack'[s].relative_path) = s
    <2>1. CASE s \in 1 .. n /\ stack'[s] = calls[s]
        BY <2>1, <1>3 DEF OnceInv
    <2>2. CASE s = n + 1 /\ stack'[s].relative_path = path
        BY <2>2, <1>2
    <2> QED
        BY <2>1, <2>2 DEF CallsAfter
<1>8. ASSUME NEW s \in 1 .. Len(stack'), NEW c \in stack'[s].todo,
             NEW i \in 1 .. m + 1, NEW begin,
             begin = Append(stack'[s].relative_path, Last(c)),
             NEW reached, reached = visited'[i].path, Begins(begin, reached)
      PROVE  FALSE
    <2>1. CASE s \in 1 .. n /\ stack'[s] = calls[s]
        <3>1. /\ c \in stack[s].todo /\ ~(s = n /\ c = p)
              /\ begin = Append(stack[s].relative_path, Last(c))
            BY <2>1, <1>3, <1>8
        <3>2. CASE i \in 1 .. m /\ visited'[i].path = visited[i].path
            <4>1. Ahead(stack[s].relative_path, c)
                BY <3>1, <2>1 DEF OnceInv
            <4> QED
                BY <4>1, <3>1, <3>2, <1>4, <1>8 DEF Ahead
        <3>3. CASE visited'[i].path = path
            BY <3>1, <3>3, <2>1, <1>2, <1>8
        <3> QED
            BY <3>2, <3>3, <1>6
    <2>2. CASE /\ s = n + 1
               /\ stack'[s].relative_path = path
               /\ stack'[s].todo \subseteq DOMAIN tree
        <3>1. /\ Len(begin) = n + 2
              /\ \A k \in 1 .. n + 1 : begin[k] = path[k]
            <4>1. begin = Append(path, Last(c)) /\ c \in DOMAIN tree
                BY <2>2, <1>8
            <4>2. PICK longer \in Seq(Names) :
                      /\ longer = Append(path, Last(c)) /\ Len(longer) = Len(path) + 1
                      /\ \A k \in 1 .. Len(path) : longer[k] = path[k]
                      /\ longer[Len(path) + 1] = Last(c)
                BY <4>1, <1>1, <1>2, OneFurther
            <4> QED
                BY <4>1, <4>2, <1>2
        <3>2. Len(begin) <= Len(reached) /\ \A k \in 1 .. Len(begin) : reached[k] = begin[k]
            BY <1>8 DEF Begins
        <3>3. reached \in Seq(Names)
            <4>1. i \in 1 .. m => visited[i] \in Entries
                BY <1>1, <1>4, ElementOfSeq
            <4> QED
                BY <4>1, <1>2, <1>6, <1>8 DEF Entries
        <3>4. PICK l \in Nat : l = Len(reached)
            BY <3>3, LenProperties
        <3>5. n + 2 <= l
            BY <3>1, <3>2, <3>4
        <3>6. \A k \in 1 .. n + 1 : reached[k] = path[k]
            <4>1. ASSUME NEW k \in 1 .. n + 1 PROVE k \in 1 .. n + 2
                OBVIOUS
            <4> QED
                BY <4>1, <3>1, <3>2
        <3>7. Begins(path, reached)
            <4>1. n + 1 <= l
                BY <3>5
            <4> QED
                BY <4>1, <3>4, <3>6, <1>2 DEF Begins
        <3>8. reached # path
            <4>1. l # n + 1
                BY <3>5
            <4> QED
                BY <4>1, <3>4, <1>2
        <3> QED
            BY <3>7, <3>8, <1>2, <1>4, <1>6, <1>8
    <2> QED
        BY <2>1, <2>2 DEF CallsAfter
<1>9. ASSUME NEW s \in 1 .. Len(stack'), NEW c \in stack'[s].todo
      PROVE  Ahead(stack[s].relative_path, c)'
    <2> SUFFICES ASSUME NEW i \in 1 .. Len(visited')
                 PROVE  ~Begins(Append(stack'[s].relative_path, Last(c)), visited'[i].path)
        BY DEF Ahead, Begins
    <2>1. PICK begin, reached :
              /\ begin = Append(stack'[s].relative_path, Last(c))
              /\ reached = visited'[i].path
        OBVIOUS
    <2> QED
        BY <2>1, <1>5, <1>8
<1>10. ASSUME NEW i \in 1 .. m + 1, NEW j \in 1 .. m + 1,
              visited'[i].path = visited'[j].path
       PROVE  i = j
    <2>1. ASSUME NEW k \in 1 .. m PROVE visited[k].path # path
        <3>1. Begins(path, path)
            BY <1>2 DEF Begins
        <3> QED
            BY <3>1, <1>2, <1>4
    <2> QED
        BY <2>1, <1>4, <1>6, <1>10 DEF OnceInv
<1> QED
    BY <1>5, <1>7, <1>9, <1>10 DEF OnceInv

\* At the beginning there is only the directory itself.
LEMMA RootOnce ==
    ASSUME ArchiveInv, pc = "create", PackDirectory(<<>>, <<ROOT>>, <<ROOT>>)
    PROVE  OnceInv'
<1>1. tree \in Trees /\ visited = <<>>
    BY Parts, SeqOfFrames DEF ArchiveInv, Visits
<1>2. PICK root \in Seq(Names) : root = <<ROOT>> /\ Len(root) = 1
    BY <1>1, LeadsToRoot
<1>3. PICK frame, e :
          /\ frame = [relative_path |-> root, todo |-> Children(root)]
          /\ e = [path |-> root, node |-> root, start |-> put]
    OBVIOUS
<1>4. visited' = <<e>> /\ stack' = <<frame>>
    BY <1>1, <1>2, <1>3 DEF PackDirectory, Visit
<1>5. frame.relative_path = root /\ frame.todo \subseteq DOMAIN tree /\ e.path = root
    BY <1>3 DEF Children
<1>6. /\ Len(visited') = 1 /\ visited'[1] = e
      /\ Len(stack') = 1 /\ stack'[1] = frame
    BY <1>4
<1>7. ASSUME NEW c \in frame.todo PROVE ~Begins(Append(root, Last(c)), root)
    <2>1. Len(Append(root, Last(c))) = Len(root) + 1
        BY <1>1, <1>5, OneFurther
    <2> QED
        BY <2>1, <1>2 DEF Begins
<1>8. ASSUME NEW s \in 1 .. Len(stack'), NEW c \in stack'[s].todo
      PROVE  Ahead(stack[s].relative_path, c)'
    <2>1. s = 1
        BY <1>6
    <2> QED
        BY <2>1, <1>5, <1>6, <1>7 DEF Ahead, Begins
<1>9. \A s \in 1 .. Len(stack') : Len(stack'[s].relative_path) = s
    BY <1>2, <1>5, <1>6
<1>10. \A i, j \in 1 .. Len(visited') : i = j
    BY <1>6
<1> QED
    BY <1>8, <1>9, <1>10 DEF OnceInv

\* One child.
LEMMA PackChildOnce ==
    ASSUME ArchiveInv, OnceInv, pc = "pack", NEW p \in Last(stack).todo, PackChild(p)
    PROVE  OnceInv'
<1>1. /\ tree \in Trees /\ visited \in Seq(Entries) /\ stack \in Seq(Frames)
      /\ Visits /\ Calls
    BY Parts, SeqOfFrames DEF ArchiveInv
<1>2. PICK path, calls :
          /\ path = Append(Last(stack).relative_path, Last(p))
          /\ calls = [stack EXCEPT ![Len(stack)].todo = @ \ {p}]
    OBVIOUS
<1>3. /\ stack # <<>>
      /\ path \in Seq(Names)
      /\ Kind(p) \notin {"special", "missing"} => Target(p) \in DOMAIN tree
    BY <1>1, <1>2, ChildIs
<1>4. PICK n \in Nat \ {0} : n = Len(stack)
    BY <1>1, <1>3, WholeOf
<1>5. CallsWithout(p, calls)
    BY <1>1, <1>2, <1>3, CallsAre
<1>6. /\ calls \in Seq(Frames) /\ Len(calls) = n
      /\ \A s \in 1 .. n :
             /\ calls[s].relative_path = stack[s].relative_path
             /\ calls[s].todo \subseteq stack[s].todo
    BY <1>4, <1>5 DEF CallsWithout
<1>7. ASSUME Visit(path, Target(p)), Target(p) \in DOMAIN tree
      PROVE  \E e \in Entries : e.path = path /\ visited' = Append(visited, e)
    <2>1. put \in Nat
        BY Parts, LenProperties DEF Typed, LayoutType
    <2>2. [path |-> path, node |-> Target(p), start |-> put] \in Entries
        BY <2>1, <1>3, <1>7 DEF Entries
    <2> QED
        BY <2>2, <1>7 DEF Visit
<1>8. CASE Skip(calls)
    BY <1>4, <1>6, <1>8, OnceShrinks DEF Skip
<1>9. CASE RefuseTooLong(calls)
    BY <1>9, OnceShrinks DEF RefuseTooLong, PackFails, packVars
<1>10. CASE Kind(p) = "directory" /\ PackDirectory(calls, Target(p), path)
    <2>1. PICK e \in Entries : e.path = path /\ visited' = Append(visited, e)
        BY <1>3, <1>7, <1>10 DEF PackDirectory
    <2>2. PICK frame \in Frames :
              /\ frame.relative_path = path /\ frame.todo \subseteq DOMAIN tree
              /\ stack' = Append(calls, frame)
        <3>1. PICK todo \in SUBSET DOMAIN tree : todo = Children(Target(p))
            BY DEF Children
        <3>2. [relative_path |-> path, todo |-> todo] \in Frames
            BY <1>3 DEF Frames
        <3> QED
            BY <3>1, <3>2, <1>10 DEF PackDirectory
    <2>3. /\ Len(stack') = n + 1 /\ stack'[n + 1] = frame
          /\ \A s \in 1 .. n : stack'[s] = calls[s]
        BY <2>2, <1>6, AppendProperties
    <2>4. CallsAfter(n, calls, path)
        BY <2>2, <2>3 DEF CallsAfter
    <2> QED
        BY <2>1, <2>4, <1>2, <1>4, <1>5, ChildOnce
<1>11. CASE /\ Kind(p) \in {"file", "unreadable"}
            /\ AddFile(Target(p), path) /\ stack' = calls
    <2>1. PICK e \in Entries : e.path = path /\ visited' = Append(visited, e)
        BY <1>3, <1>7, <1>11 DEF AddFile
    <2>2. CallsAfter(n, calls, path)
        BY <1>6, <1>11 DEF CallsAfter
    <2> QED
        BY <2>1, <2>2, <1>2, <1>4, <1>5, ChildOnce
<1> QED
    BY <1>2, <1>8, <1>9, <1>10, <1>11 DEF PackChild

\* Every step keeps the calls ahead of what was visited.
LEMMA OnceStep ==
    ASSUME ArchiveInv, OnceInv, [Next]_vars
    PROVE  OnceInv'
<1>1. ASSUME UNCHANGED <<visited, stack>> PROVE OnceInv'
    BY <1>1, OnceShrinks
<1>2. CASE CreateArchive
    <2>1. CASE PackDirectory(<<>>, <<ROOT>>, <<ROOT>>)
        BY <2>1, <1>2, RootOnce DEF CreateArchive
    <2>2. CASE PackFails
        BY <2>2, <1>1 DEF PackFails, packVars
    <2> QED
        BY <2>1, <2>2, <1>2 DEF CreateArchive
<1>3. CASE Pack
    <2>1. CASE PackReturns
        <3>1. stack \in Seq(Frames) /\ stack # <<>>
            BY <1>3, Parts, SeqOfFrames DEF ArchiveInv, Calls, Pack
        <3>2. PICK n \in Nat \ {0} : n = Len(stack)
            BY <3>1, WholeOf
        <3>3. stack' = SubSeq(stack, 1, n - 1) /\ visited' = visited
            BY <2>1, <3>2 DEF PackReturns, Front
        <3>4. n - 1 \in 0 .. Len(stack)
            BY <3>2
        <3>5. Len(stack') = n - 1 /\ \A s \in 1 .. n - 1 : stack'[s] = stack[s]
            BY <3>1, <3>3, <3>4, BeginningOf
        <3>6. \A s \in 1 .. n - 1 : s \in 1 .. Len(stack)
            BY <3>2
        <3> QED
            BY <3>3, <3>5, <3>6, OnceShrinks
    <2>2. CASE WalkThrows
        BY <2>2, <1>1 DEF WalkThrows, PackFails, packVars
    <2>3. ASSUME NEW p \in Last(stack).todo, PackChild(p) PROVE OnceInv'
        BY <2>3, <1>3, PackChildOnce DEF Pack
    <2> QED
        BY <2>1, <2>2, <2>3, <1>3 DEF Pack
<1>4. CASE CompressChunk \/ AddFileReturns
    <2>1. CompressChunk => UNCHANGED <<visited, stack>>
        BY Zenon DEF CompressChunk
    <2>2. AddFileReturns => UNCHANGED <<visited, stack>>
        BY DEF AddFileReturns, packVars
    <2> QED
        BY <2>1, <2>2, <1>1, <1>4
<1>5. CASE UnpackArchive \/ UnpackReturns \/ DecompressReturns
    BY <1>5, <1>1 DEF UnpackArchive, UnpackReturns, DecompressReturns, UnpackFails, packVars
<1>6. CASE ReadEntry
    BY <1>6, <1>1 DEF ReadEntry, OpenOutput, UnpackFails, packVars
<1>7. CASE DecompressChunk
    BY <1>7, <1>1 DEF DecompressChunk, UnpackFails, packVars
<1>8. CASE UNCHANGED vars
    BY <1>8, <1>1 DEF vars, packVars
<1> QED
    BY <1>2, <1>3, <1>4, <1>5, <1>6, <1>7, <1>8 DEF Next, Terminated

\* Links are followed, but no way is followed twice and none beyond the longest
\* path an entry may have: packDirectory comes to an end in every directory.
THEOREM NoWayTwice == Spec => []EveryWayOnce
<1>1. Init => OnceInv
    BY DEF Init, OnceInv
<1>2. ArchiveInv /\ OnceInv /\ [Next]_vars => OnceInv'
    BY OnceStep
<1>3. ArchiveInv /\ OnceInv => EveryWayOnce
    <2> SUFFICES ASSUME ArchiveInv, OnceInv PROVE EveryWayOnce
        OBVIOUS
    <2>1. visited \in Seq(Entries) /\ Visits
        BY Parts, SeqOfFrames DEF ArchiveInv
    <2>2. DOMAIN visited = 1 .. Len(visited)
        BY <2>1, LenProperties
    <2>3. \A i \in DOMAIN visited : Len(visited[i].path) <= PATH_MAX_LEN
        BY <2>1, <2>2, ArchiveAssumption DEF Visits
    <2> QED
        BY <2>2, <2>3 DEF EveryWayOnce, OnceInv
<1> QED
    BY <1>1, <1>2, <1>3, ArchiveInvariance, PTL DEF Spec
=============================================================================
