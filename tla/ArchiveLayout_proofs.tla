------------------------ MODULE ArchiveLayout_proofs ------------------------
(***************************************************************************)
(* The inductive invariant of Archive, and what it says of the archive     *)
(* itself: where the entries lie, and that each holds its header and the   *)
(* compressed content of its file, as far as the disk took it. Writing a   *)
(* header, compressing a chunk and filling in a length keep it so.         *)
(***************************************************************************)
EXTENDS Archive, SequenceTheorems, WellFoundedInduction, TLAPS

-----------------------------------------------------------------------------
(* The inductive invariant, in parts. *)

\* The disk took every write so far.
Intact == "disk" \notin happened

\* Where the i-th entry lies in the archive. Entries that were begun after the
\* disk was full are empty and lie at its end.
Start(i) == visited[i].start
Stop(i) == IF i < Len(visited) THEN Start(i + 1) ELSE Len(archive)
DataStart(i) == Start(i) + 3 + Len(visited[i].path)
DataOf(i) == SubSeq(archive, DataStart(i) + 1, Stop(i))

NodeKind(i) == tree[visited[i].node].kind

\* The file that is being compressed.
IsOpen(i) == pc = "compress" /\ i = Len(visited)

\* A frame: its start, its blocks, and its end unless it was never told to end.
Framed(units) ==
    \A j \in 1 .. Len(units) :
        units[j].field \in IF j = 1 THEN {"frame"}
                           ELSE IF j = Len(units) THEN {"block", "end"}
                           ELSE {"block"}

\* Some way through the directory leads to an entry, by the entry's path.
Leads(path, node) ==
    \E w \in Walks(Len(path)) : PathOf(w) = path /\ EndOf(w) = node

\* What was visited, and where the stack of calls is in it.
Visits ==
    /\ pc = "create" => visited = <<>>
    /\ pc \notin {"create", "pack_failed"} => visited # <<>>
    /\ \A i \in 1 .. Len(visited) :
           /\ Leads(visited[i].path, visited[i].node)
           /\ Len(visited[i].path) \in 1 .. PATH_MAX_LEN
           /\ NodeKind(i) \in {"directory", "file", "unreadable"}
           /\ NodeKind(i) = "unreadable" => pc = "pack_failed"
           /\ i = 1 => visited[i].path = <<ROOT>> /\ visited[i].node = <<ROOT>>

Calls ==
    /\ pc \in {"pack", "compress"} => stack # <<>>
    /\ pc \notin {"create", "pack", "compress", "pack_failed"} => stack = <<>>
    /\ \A s \in 1 .. Len(stack) :
           \E i \in 1 .. Len(visited) :
               /\ visited[i].path = stack[s].relative_path
               /\ NodeKind(i) = "directory"
               /\ stack[s].todo \subseteq Children(visited[i].node)

\* Nothing in a visited directory is forgotten.
Pending(path, c) ==
    \E s \in 1 .. Len(stack) :
        stack[s].relative_path = path /\ c \in stack[s].todo

VisitedAs(path, node) ==
    \E j \in 1 .. Len(visited) : visited[j].path = path /\ visited[j].node = node

NoneForgotten ==
    pc # "pack_failed" =>
        \A i \in 1 .. Len(visited) : NodeKind(i) = "directory" =>
            \A c \in Children(visited[i].node) :
                \/ Kind(c) \in {"special", "missing"}
                \/ Pending(visited[i].path, c)
                \/ VisitedAs(Append(visited[i].path, Last(c)), Target(c))

\* The entries follow one another and fill the archive.
Sequenced ==
    /\ put = Len(archive)
    /\ visited = <<>> => archive = <<>>
    /\ visited # <<>> => Start(1) = 0
    /\ \A i \in 1 .. Len(visited) :
           /\ Start(i) <= Stop(i)
           /\ \A j \in i + 1 .. Len(visited) : Stop(i) <= Start(j)
           /\ Stop(i) <= Len(archive)
           /\ DataStart(i) <= Stop(i) \/ (~Intact /\ Stop(i) = Len(archive))

\* An entry begins with its header, as far as it was written.
HeaderAt(i) ==
    LET at == Start(i)
        path == visited[i].path
    IN  /\ at + 1 <= Stop(i) => archive[at + 1] =
               Unit("type", IF NodeKind(i) = "directory" THEN "directory" ELSE "file")
        /\ at + 2 <= Stop(i) => archive[at + 2] = Unit("path_length", Len(path))
        /\ \A j \in 1 .. Len(path) :
               at + 2 + j <= Stop(i) => archive[at + 2 + j] = Unit("name", path[j])
        /\ DataStart(i) <= Stop(i) =>
               /\ archive[DataStart(i)].field = "compressed_length"
               /\ \/ archive[DataStart(i)].value = Stop(i) - DataStart(i)
                  \/ /\ archive[DataStart(i)].value = 0
                     /\ Stop(i) = Len(archive)
                     /\ ~Intact \/ IsOpen(i)

HeaderKept == \A i \in 1 .. Len(visited) : HeaderAt(i)

\* Behind the header is the compressed content, of a file.
DataAt(i) ==
    /\ NodeKind(i) = "file" \/ DataOf(i) = <<>>
    /\ Framed(DataOf(i))
    /\ IsPrefix(Decompressed(DataOf(i)), Content(visited[i].node))
    /\ Intact /\ ~IsOpen(i) /\ NodeKind(i) # "unreadable" =>
           \/ Decompressed(DataOf(i)) = Content(visited[i].node)
           \/ FillsLastChunk(visited[i].node)

DataKept == \A i \in 1 .. Len(visited) : DataAt(i)

\* The content of the file being compressed is in the archive, with the
\* library, or still to be read.
Compressing ==
    LET i == Len(visited)
        out == DataOf(i) \o cctx.owed
        node == visited[i].node
    IN  pc = "compress" =>
            /\ visited # <<>>
            /\ NodeKind(i) = "file"
            /\ Intact =>
                   /\ file.pos = DataStart(i) - 1
                   /\ file.bytes_written = Stop(i) - DataStart(i)
                   /\ archive[DataStart(i)].value = 0
                   /\ Decompressed(out) \o cctx.held \o file.rest = Content(node)
                   /\ Framed(out)
                   /\ cctx.begun <=> out # <<>>
                   /\ file.rest # <<>> =>
                          /\ out # <<>> => out[Len(out)].field # "end"
                          /\ \E k \in 0 .. tree[node].size :
                                 tree[node].size = k * READ_SIZE + Len(file.rest)
                   /\ file.rest = <<>> /\ ~FillsLastChunk(node) =>
                          cctx.held = <<>> /\ cctx.owed = <<>>

\* The reader is at the beginning of an entry, at the end, or, after a full
\* disk, in compressed data behind a header whose length was never filled in.
AtEntry ==
    \/ get = Len(archive)
    \/ \E k \in 1 .. Len(visited) : get = Start(k)
    \/ ~Intact /\ get < Len(archive) /\ archive[get + 1].field # "type"

ReadSoFar(i) == SubSeq(archive, DataStart(i) + 1, Lesser(get, Stop(i)))

\* It has rebuilt exactly what lies before it.
Rebuilt ==
    /\ pc \in {"create", "pack", "compress", "pack_failed", "packed"} => get = 0
    /\ \A p \in DOMAIN unpacked :
           \E i \in 1 .. Len(visited) :
               /\ visited[i].path = p
               /\ Start(i) < get
               /\ unpacked[p].kind = NodeKind(i)
               /\ unpacked[p].data = Decompressed(ReadSoFar(i))
    /\ \A i \in 1 .. Len(visited) :
           Start(i) < get => visited[i].path \in DOMAIN unpacked
    /\ pc = "unpack" => AtEntry
    /\ pc = "done" => get = Len(archive)

\* Inside an entry.
Decompressing ==
    pc = "decompress" =>
        \E k \in 1 .. Len(visited) :
            /\ visited[k].path = entry.path
            /\ NodeKind(k) = "file"
            /\ get \in DataStart(k) .. Stop(k)
            /\ \/ get + entry.left_to_read = Stop(k)
               \/ /\ ~Intact
                  /\ entry.left_to_read = 0
                  /\ get = DataStart(k)
                  /\ Stop(k) = Len(archive)
            /\ entry.in_frame <=> get > DataStart(k) /\ archive[get].field # "end"
            /\ entry.path \in DOMAIN unpacked
            /\ unpacked[entry.path].kind = "file"
            /\ unpacked[entry.path].data = Decompressed(SubSeq(archive, DataStart(k) + 1, get))

ArchiveInv ==
    /\ TypeOK
    /\ Visits
    /\ Calls
    /\ NoneForgotten
    /\ Sequenced
    /\ HeaderKept
    /\ DataKept
    /\ Compressing
    /\ Rebuilt
    /\ Decompressing
    /\ OwnArchiveUnpacks

-----------------------------------------------------------------------------
(* Induction, over sets of numbers. *)

\* A set of numbers has a least one.
LEMMA LeastOf ==
    ASSUME NEW T \in SUBSET Nat, T # {}
    PROVE  \E x \in T : \A y \in T : x <= y
<1>1. PICK x \in T : \A y \in T : ~(<<y, x>> \in OpToRel(<, Nat))
    BY WFMin, NatLessThanWellFounded, Zenon
<1>2. \A y \in T : ~(y < x)
    BY <1>1 DEF OpToRel
<1> QED
    BY <1>2

\* A set that has 0 and with each number the next has every number.
LEMMA AllOfNat ==
    ASSUME NEW S \in SUBSET Nat, 0 \in S, \A n \in S : n + 1 \in S
    PROVE  S = Nat
<1> SUFFICES ASSUME Nat \ S # {} PROVE FALSE
    OBVIOUS
<1> DEFINE T == Nat \ S
<1>1. T \in SUBSET Nat /\ T # {}
    OBVIOUS
<1> HIDE DEF T
<1>2. PICK x \in T : \A y \in T : x <= y
    BY <1>1, LeastOf
<1>3. x \in Nat /\ x \notin S /\ \A y \in Nat \ S : x <= y
    BY <1>2 DEF T
<1>4. x - 1 \in Nat /\ x - 1 \in S
    BY <1>3
<1>5. (x - 1) + 1 \in S
    BY <1>4
<1> QED
    BY <1>3, <1>4, <1>5

\* A bounded set of numbers has a greatest one.
LEMMA GreatestOf ==
    ASSUME NEW T \in SUBSET Nat, T # {}, NEW b \in Nat, \A y \in T : y <= b
    PROVE  \E x \in T : \A y \in T : y <= x
<1> DEFINE D == {b - y : y \in T}
<1>1. D \in SUBSET Nat /\ D # {}
    <2>1. PICK y \in T : TRUE
        OBVIOUS
    <2>2. b - y \in D
        OBVIOUS
    <2>3. \A z \in T : b - z \in Nat
        OBVIOUS
    <2> QED
        BY <2>2, <2>3
<1> HIDE DEF D
<1>2. PICK d \in D : \A e \in D : d <= e
    BY <1>1, LeastOf
<1>3. PICK x \in T : d = b - x
    BY <1>2 DEF D
<1>4. ASSUME NEW y \in T PROVE y <= x
    <2>1. b - y \in D
        BY DEF D
    <2> QED
        BY <2>1, <1>2, <1>3
<1> QED
    BY <1>4

-----------------------------------------------------------------------------
(* What comes out of a sequence of units. *)

\* f is the recursion of Decompressed for the first n of the units u.
IsOut(f, n, u) ==
    f = [i \in 0 .. n |-> IF i = 0 THEN <<>> ELSE f[i - 1] \o Bytes(u[i])]

\* A unit yields bytes: a block its own, every other unit none.
LEMMA UnitBytes ==
    ASSUME NEW x \in Units
    PROVE  Bytes(x) \in Seq(FileBytes)
BY DEF Units, Bytes

\* The bytes that come out of n + 1 units, from those of n units.
LEMMA OutStep ==
    ASSUME NEW n \in Nat, NEW u, NEW f, IsOut(f, n, u)
    PROVE  \E g : IsOut(g, n + 1, u)
<1> DEFINE g == [i \in 0 .. n + 1 |->
                    IF i = n + 1 THEN f[n] \o Bytes(u[n + 1]) ELSE f[i]]
           step(h, i) == IF i = 0 THEN <<>> ELSE h[i - 1] \o Bytes(u[i])
<1>0. f = [i \in 0 .. n |-> step(f, i)]
    BY DEF IsOut
<1>1. \A i \in 0 .. n : f[i] = step(f, i)
    BY <1>0
<1>2. \A i \in 0 .. n : g[i] = f[i]
    OBVIOUS
<1>3. g[n + 1] = f[n] \o Bytes(u[n + 1])
    OBVIOUS
<1>4. DOMAIN g = 0 .. n + 1 /\ g = [i \in 0 .. n + 1 |-> g[i]]
    OBVIOUS
<1> HIDE DEF g
<1>5. ASSUME NEW i \in 0 .. n + 1 PROVE g[i] = step(g, i)
    <2>1. CASE i = 0
        BY <2>1, <1>1, <1>2
    <2>2. CASE i \in 1 .. n
        <3>1. g[i] = f[i] /\ g[i - 1] = f[i - 1]
            BY <2>2, <1>2
        <3>2. f[i] = step(f, i) /\ i # 0
            BY <2>2, <1>1
        <3> QED
            BY <3>1, <3>2
    <2>3. CASE i = n + 1
        <3>1. g[i - 1] = f[n] /\ i # 0
            BY <2>3, <1>2
        <3> QED
            BY <3>1, <1>3, <2>3
    <2> QED
        BY <2>1, <2>2, <2>3
<1>6. g = [i \in 0 .. n + 1 |-> step(g, i)]
    BY <1>4, <1>5
<1> QED
    BY <1>6 DEF IsOut

\* The function that Decompressed chooses exists at every length.
LEMMA OutExists ==
    ASSUME NEW u
    PROVE  \A n \in Nat : \E f : IsOut(f, n, u)
<1> DEFINE S == {n \in Nat : \E f : IsOut(f, n, u)}
<1>1. 0 \in S
    <2> DEFINE f == [i \in 0 .. 0 |-> <<>>]
    <2>1. f = [i \in 0 .. 0 |-> IF i = 0 THEN <<>> ELSE f[i - 1] \o Bytes(u[i])]
        OBVIOUS
    <2> HIDE DEF f
    <2>2. IsOut(f, 0, u)
        BY <2>1 DEF IsOut
    <2> QED
        BY <2>2
<1>2. \A n \in S : n + 1 \in S
    BY OutStep
<1>3. S \in SUBSET Nat
    OBVIOUS
<1> HIDE DEF S
<1>4. S = Nat
    BY <1>1, <1>2, <1>3, AllOfNat
<1> QED
    BY <1>4 DEF S

\* So Decompressed is the last value of such a function.
LEMMA OutOf ==
    ASSUME NEW u, Len(u) \in Nat
    PROVE  \E f : IsOut(f, Len(u), u) /\ Decompressed(u) = f[Len(u)]
<1> DEFINE g == CHOOSE f : f = [i \in 0 .. Len(u) |->
                    IF i = 0 THEN <<>> ELSE f[i - 1] \o Bytes(u[i])]
<1>1. Decompressed(u) = g[Len(u)]
    BY Zenon DEF Decompressed
<1>2. \E f : IsOut(f, Len(u), u)
    BY OutExists
<1>3. IsOut(g, Len(u), u)
    BY <1>2, Zenon DEF IsOut
<1> HIDE DEF g
<1> QED
    BY <1>1, <1>3

\* The recursion does not depend on what comes later.
LEMMA OutUnique ==
    ASSUME NEW m \in Nat, NEW n \in Nat, NEW u, NEW v, NEW f, NEW g,
           IsOut(f, m, u), IsOut(g, n, v), m <= n,
           \A i \in 1 .. m : u[i] = v[i]
    PROVE  \A i \in 0 .. m : f[i] = g[i]
<1> DEFINE S == {i \in Nat : i <= m => f[i] = g[i]}
<1>0. /\ \A i \in 0 .. m : f[i] = IF i = 0 THEN <<>> ELSE f[i - 1] \o Bytes(u[i])
      /\ \A i \in 0 .. n : g[i] = IF i = 0 THEN <<>> ELSE g[i - 1] \o Bytes(v[i])
    <2>1. ASSUME NEW h, NEW k \in Nat, NEW w, IsOut(h, k, w)
          PROVE  \A i \in 0 .. k : h[i] = IF i = 0 THEN <<>> ELSE h[i - 1] \o Bytes(w[i])
        <3> DEFINE step(i) == IF i = 0 THEN <<>> ELSE h[i - 1] \o Bytes(w[i])
        <3>1. h = [i \in 0 .. k |-> step(i)]
            BY <2>1 DEF IsOut
        <3> HIDE DEF step
        <3>2. \A i \in 0 .. k : h[i] = step(i)
            BY <3>1
        <3> QED
            BY <3>2 DEF step
    <2> QED
        BY <2>1
<1>1. 0 \in S
    BY <1>0
<1>2. ASSUME NEW i \in S PROVE i + 1 \in S
    <2> SUFFICES ASSUME i + 1 <= m PROVE f[i + 1] = g[i + 1]
        OBVIOUS
    <2>1. f[i] = g[i] /\ u[i + 1] = v[i + 1]
        OBVIOUS
    <2>4. (i + 1) - 1 = i /\ i + 1 # 0 /\ i + 1 \in 0 .. m /\ i + 1 \in 0 .. n
        OBVIOUS
    <2> HIDE DEF S
    <2>2. f[i + 1] = f[(i + 1) - 1] \o Bytes(u[i + 1])
        BY <1>0, <2>4
    <2>3. g[i + 1] = g[(i + 1) - 1] \o Bytes(v[i + 1])
        BY <1>0, <2>4
    <2> QED
        BY <2>1, <2>2, <2>3, <2>4
<1>3. S \in SUBSET Nat
    OBVIOUS
<1> HIDE DEF S
<1>4. S = Nat
    BY <1>1, <1>2, <1>3, AllOfNat
<1> QED
    BY <1>4 DEF S

\* Nothing comes out of nothing.
LEMMA OutOfNone == Decompressed(<<>>) = <<>>
<1>1. Len(<<>>) = 0
    OBVIOUS
<1>2. PICK f : IsOut(f, 0, <<>>) /\ Decompressed(<<>>) = f[0]
    BY <1>1, OutOf
<1> QED
    BY <1>2 DEF IsOut

\* One unit more.
LEMMA OutOfAppend ==
    ASSUME NEW u \in Seq(Units), NEW x \in Units
    PROVE  Decompressed(Append(u, x)) = Decompressed(u) \o Bytes(x)
<1> DEFINE v == Append(u, x)
           n == Len(u)
<1>1. n \in Nat /\ Len(v) = n + 1 /\ v[n + 1] = x /\ \A i \in 1 .. n : u[i] = v[i]
    BY AppendProperties
<1> HIDE DEF v, n
<1>2. PICK f : IsOut(f, n, u) /\ Decompressed(u) = f[n]
    BY <1>1, OutOf DEF n
<1>3. PICK g : IsOut(g, n + 1, v) /\ Decompressed(v) = g[n + 1]
    BY <1>1, OutOf
<1>4. f[n] = g[n]
    BY <1>1, <1>2, <1>3, OutUnique
<1>5. g[n + 1] = g[n] \o Bytes(v[n + 1])
    <2> DEFINE step(i) == IF i = 0 THEN <<>> ELSE g[i - 1] \o Bytes(v[i])
    <2>1. g = [i \in 0 .. n + 1 |-> step(i)]
        BY <1>3 DEF IsOut
    <2> HIDE DEF step
    <2>2. g[n + 1] = step(n + 1)
        BY <2>1, <1>1
    <2>3. n + 1 # 0 /\ (n + 1) - 1 = n
        BY <1>1
    <2> QED
        BY <2>2, <2>3 DEF step
<1> QED
    BY <1>1, <1>2, <1>3, <1>4, <1>5 DEF v

\* A set of sequences that has the empty one and with each its extensions has
\* every sequence.
LEMMA AllOfSeq ==
    ASSUME NEW X, NEW P \in SUBSET Seq(X), <<>> \in P,
           \A s \in P : \A e \in X : Append(s, e) \in P
    PROVE  P = Seq(X)
<1> DEFINE S == {n \in Nat : \A s \in Seq(X) : Len(s) = n => s \in P}
<1>1. 0 \in S
    BY EmptySeq
<1>2. ASSUME NEW n \in S PROVE n + 1 \in S
    <2> SUFFICES ASSUME NEW s \in Seq(X), Len(s) = n + 1 PROVE s \in P
        OBVIOUS
    <2>1. s # <<>>
        BY EmptySeq
    <2>2. PICK t \in Seq(X), e \in X : s = Append(t, e)
        BY <2>1, SequenceEmptyOrAppend
    <2>3. Len(t) = n
        BY <2>2, AppendProperties, LenProperties
    <2>4. t \in P
        BY <2>3
    <2> QED
        BY <2>2, <2>4
<1>3. S \in SUBSET Nat
    OBVIOUS
<1> HIDE DEF S
<1>4. S = Nat
    BY <1>1, <1>2, <1>3, AllOfNat
<1>5. \A s \in Seq(X) : Len(s) \in S
    BY <1>4, LenProperties
<1> QED
    BY <1>5 DEF S

\* What comes out of units is bytes.
LEMMA OutTyped ==
    ASSUME NEW u \in Seq(Units)
    PROVE  Decompressed(u) \in Seq(FileBytes)
<1> DEFINE P == {s \in Seq(Units) : Decompressed(s) \in Seq(FileBytes)}
<1>1. <<>> \in P
    BY OutOfNone, EmptySeq
<1>2. ASSUME NEW s \in P, NEW e \in Units PROVE Append(s, e) \in P
    <2>1. Append(s, e) \in Seq(Units)
        BY AppendProperties
    <2>2. Decompressed(s) \o Bytes(e) \in Seq(FileBytes)
        BY UnitBytes, ConcatProperties
    <2> QED
        BY <2>1, <2>2, OutOfAppend
<1>3. P \in SUBSET Seq(Units)
    OBVIOUS
<1> HIDE DEF P
<1>4. P = Seq(Units)
    BY <1>1, <1>2, <1>3, AllOfSeq
<1> QED
    BY <1>4 DEF P

\* Concatenation of bytes is associative.
LEMMA JoinedInAnyOrder ==
    \A a \in Seq(FileBytes) : \A b \in Seq(FileBytes) : \A c \in Seq(FileBytes) :
        (a \o b) \o c = a \o (b \o c)
BY ConcatAssociative

\* The same as a predicate, which the leaves cite unexpanded: the provers are
\* slow among equations between concatenations.
JoinedEitherWay(a, b, c) == (a \o b) \o c = a \o (b \o c)

\* Associativity in that form.
LEMMA BytesJoined ==
    \A a \in Seq(FileBytes), b \in Seq(FileBytes), c \in Seq(FileBytes) :
        JoinedEitherWay(a, b, c)
BY JoinedInAnyOrder DEF JoinedEitherWay

\* What comes out of two parts, one after the other.
LEMMA OutOfConcat ==
    ASSUME NEW u \in Seq(Units), NEW v \in Seq(Units)
    PROVE  Decompressed(u \o v) = Decompressed(u) \o Decompressed(v)
<1> DEFINE P == {s \in Seq(Units) :
                    Decompressed(u \o s) = Decompressed(u) \o Decompressed(s)}
<1>1. <<>> \in P
    BY OutOfNone, OutTyped, EmptySeq, ConcatEmptySeq
<1>2. ASSUME NEW s \in P, NEW e \in Units PROVE Append(s, e) \in P
    <2>1. Append(s, e) \in Seq(Units) /\ <<e>> \in Seq(Units)
        BY AppendProperties
    <2>2. u \o Append(s, e) = Append(u \o s, e)
        <3>1. Append(s, e) = s \o <<e>>
            BY AppendIsConcat
        <3>2. u \o s \in Seq(Units)
            BY ConcatProperties
        <3>3. Append(u \o s, e) = (u \o s) \o <<e>>
            BY <3>2, AppendIsConcat
        <3> QED
            BY <3>1, <3>3, <2>1, ConcatAssociative
    <2>3. Decompressed(u \o Append(s, e)) = Decompressed(u \o s) \o Bytes(e)
        <3>1. u \o s \in Seq(Units)
            BY ConcatProperties
        <3> QED
            BY <3>1, <2>2, OutOfAppend
    <2>4. Decompressed(Append(s, e)) = Decompressed(s) \o Bytes(e)
        BY OutOfAppend
    <2>5. /\ Decompressed(u) \in Seq(FileBytes) /\ Decompressed(s) \in Seq(FileBytes)
          /\ Bytes(e) \in Seq(FileBytes)
        BY OutTyped, UnitBytes
    <2>6. (Decompressed(u) \o Decompressed(s)) \o Bytes(e)
              = Decompressed(u) \o (Decompressed(s) \o Bytes(e))
        BY <2>5, JoinedInAnyOrder
    <2>7. Decompressed(u \o s) = Decompressed(u) \o Decompressed(s)
        OBVIOUS
    <2>8. Decompressed(u \o Append(s, e)) = Decompressed(u) \o Decompressed(Append(s, e))
        BY <2>3, <2>4, <2>6, <2>7, Zenon
    <2> QED
        BY <2>1, <2>8
<1>3. P \in SUBSET Seq(Units)
    OBVIOUS
<1> HIDE DEF P
<1>4. P = Seq(Units)
    BY <1>1, <1>2, <1>3, AllOfSeq
<1> QED
    BY <1>4 DEF P

\* What comes out of a single unit.
LEMMA OutOfOne ==
    ASSUME NEW x \in Units
    PROVE  Decompressed(<<x>>) = Bytes(x)
<1>1. <<>> \in Seq(Units) /\ Append(<<>>, x) = <<x>>
    OBVIOUS
<1>2. Decompressed(<<x>>) = <<>> \o Bytes(x)
    BY <1>1, OutOfAppend, OutOfNone
<1> QED
    BY <1>2, UnitBytes, ConcatEmptySeq

-----------------------------------------------------------------------------
(* Arithmetic *)

\* The next multiple, kept away from the leaves that compare positions.
LEMMA NextMultiple ==
    ASSUME NEW n \in Nat, NEW b \in Nat
    PROVE  /\ n * b \in Nat
           /\ (n + 1) * b = n * b + b
           /\ (n + 1) - 1 = n
OBVIOUS

\* As many whole blocks as fit.
LEMMA Quotient ==
    ASSUME NEW n \in Nat, NEW b \in Nat \ {0}
    PROVE  n \div b \in Nat /\ (n \div b) * b <= n /\ (n \div b) * b \in Nat
<1>1. n \div b \in Nat
    OBVIOUS
<1>2. (n \div b) * b <= n
    OBVIOUS
<1>3. (n \div b) * b \in Nat
    BY <1>1, NextMultiple
<1> QED
    BY <1>1, <1>2, <1>3

\* A multiple of the read buffer is what FillsLastChunk looks for.
LEMMA MultipleHasNoRest ==
    ASSUME NEW k \in Nat, NEW b \in Nat \ {0}
    PROVE  (k * b) % b = 0
OBVIOUS

\* One chunk of b less of the n bytes left.
ChunkMore(size, b, n, k) ==
    /\ k + 1 \in 0 .. size
    /\ size = (k + 1) * b + n
    /\ n = 0 => size > 0 /\ (size % b) = 0

\* One full chunk less to read is one more that was read.
LEMMA OneChunkMore ==
    ASSUME NEW size \in Nat, NEW b \in Nat \ {0}, NEW n \in Nat, NEW k \in 0 .. size,
           size = k * b + (b + n)
    PROVE  ChunkMore(size, b, n, k)
<1>1. k \in Nat /\ k + 1 \in Nat /\ b \in Nat
    OBVIOUS
<1>2. k * b \in Nat /\ (k + 1) * b = k * b + b
    BY <1>1, NextMultiple
<1>3. size = (k + 1) * b + n
    BY <1>1, <1>2
<1>4. k <= k * b
    BY <1>1
<1>5. k + 1 \in 0 .. size
    BY <1>1, <1>2, <1>4
<1>6. n = 0 => size = (k + 1) * b
    BY <1>1, <1>2, <1>3
<1>7. ((k + 1) * b) % b = 0
    BY <1>1, MultipleHasNoRest
<1> QED
    BY <1>3, <1>5, <1>6, <1>7 DEF ChunkMore

SameBytes(x, y, z, h, b, r) ==
    /\ ((x \o y) \o z) \o r = (x \o h) \o (b \o r)
    /\ (x \o y) \o (z \o r) = (x \o h) \o (b \o r)

\* What is in the archive, what is made, what is held and what is still to be
\* read can be put together in the order either side needs.
LEMMA Regrouped ==
    ASSUME NEW x \in Seq(FileBytes), NEW y \in Seq(FileBytes), NEW z \in Seq(FileBytes),
           NEW h \in Seq(FileBytes), NEW b \in Seq(FileBytes), NEW r \in Seq(FileBytes),
           y \o z = h \o b
    PROVE  SameBytes(x, y, z, h, b, r)
<1>1. x \o y \in Seq(FileBytes) /\ x \o h \in Seq(FileBytes)
    BY ConcatProperties
<1>2. JoinedEitherWay(x, y, z) /\ JoinedEitherWay(x, h, b)
    BY BytesJoined
<1>3. PICK xy \in Seq(FileBytes), xh \in Seq(FileBytes) : xy = x \o y /\ xh = x \o h
    BY <1>1
<1>4. JoinedEitherWay(xh, b, r) /\ JoinedEitherWay(xy, z, r)
    BY BytesJoined
<1>5. (x \o y) \o z = (x \o h) \o b
    BY <1>2, Zenon DEF JoinedEitherWay
<1>6. ((x \o y) \o z) \o r = ((x \o h) \o b) \o r
    BY <1>5, Zenon
<1>7. ((x \o h) \o b) \o r = (x \o h) \o (b \o r)
    BY <1>3, <1>4, Zenon DEF JoinedEitherWay
<1>8. ((x \o y) \o z) \o r = (x \o y) \o (z \o r)
    BY <1>3, <1>4, Zenon DEF JoinedEitherWay
<1> QED
    BY <1>6, <1>7, <1>8, Zenon DEF SameBytes

-----------------------------------------------------------------------------
(* zstd::compress *)

Blocks(all, n) ==
    [i \in 1 .. n |->
        Unit("block", SubSeq(all, (i - 1) * BLOCK_SIZE + 1, i * BLOCK_SIZE))]

\* Every unit the program writes is one of Units.
LEMMA UnitsAre ==
    /\ \A b \in Seq(FileBytes) : Unit("block", b) \in Units /\ Bytes(Unit("block", b)) = b
    /\ Unit("frame", <<>>) \in Units /\ Bytes(Unit("frame", <<>>)) = <<>>
    /\ Unit("end", <<>>) \in Units /\ Bytes(Unit("end", <<>>)) = <<>>
    /\ \A k \in {"directory", "file"} : Unit("type", k) \in Units
    /\ \A n \in Nat : Unit("path_length", n) \in Units
    /\ \A n \in Nat : Unit("compressed_length", n) \in Units
    /\ \A n \in Names : Unit("name", n) \in Units
    /\ \A f, v : Unit(f, v).field = f /\ Unit(f, v).value = v
BY DEF Unit, Units, Bytes

\* A part of a sequence of bytes.
LEMMA PartOf ==
    ASSUME NEW X, NEW s \in Seq(X), NEW m \in Nat \ {0}, NEW n \in Nat, n <= Len(s)
    PROVE  /\ SubSeq(s, m, n) \in Seq(X)
           /\ Len(SubSeq(s, m, n)) = IF m <= n THEN n - m + 1 ELSE 0
           /\ \A i \in 1 .. n - m + 1 : SubSeq(s, m, n)[i] = s[m + i - 1]
BY SubSeqProperties, ElementOfSeq, LenProperties

\* The blocks made of some bytes yield those bytes, by induction over their number.
LEMMA BlocksAre ==
    ASSUME NEW all \in Seq(FileBytes)
    PROVE  \A n \in Nat : n * BLOCK_SIZE <= Len(all) =>
               /\ Blocks(all, n) \in Seq(Units)
               /\ Len(Blocks(all, n)) = n
               /\ \A j \in 1 .. n : Blocks(all, n)[j].field = "block"
               /\ Decompressed(Blocks(all, n)) = SubSeq(all, 1, n * BLOCK_SIZE)
<1> USE ArchiveAssumption
<1> DEFINE Good(n) == /\ Blocks(all, n) \in Seq(Units)
                      /\ Len(Blocks(all, n)) = n
                      /\ \A j \in 1 .. n : Blocks(all, n)[j].field = "block"
                      /\ Decompressed(Blocks(all, n)) = SubSeq(all, 1, n * BLOCK_SIZE)
           S == {n \in Nat : n * BLOCK_SIZE <= Len(all) => Good(n)}
<1>0. Len(all) \in Nat /\ BLOCK_SIZE \in Nat
    BY LenProperties
<1>1. 0 \in S
    <2>1. Blocks(all, 0) = <<>>
        BY DEF Blocks
    <2>2. SubSeq(all, 1, 0 * BLOCK_SIZE) = <<>>
        BY <1>0, SubSeqEmpty
    <2>3. <<>> \in Seq(Units) /\ Len(<<>>) = 0
        OBVIOUS
    <2>5. Decompressed(Blocks(all, 0)) = SubSeq(all, 1, 0 * BLOCK_SIZE)
        BY <2>1, <2>2, OutOfNone, Zenon
    <2>4. Good(0)
        BY <2>1, <2>3, <2>5
    <2> QED
        BY <2>4
<1>2. ASSUME NEW n \in S PROVE n + 1 \in S
    <2> SUFFICES ASSUME (n + 1) * BLOCK_SIZE <= Len(all) PROVE Good(n + 1)
        OBVIOUS
    <2> DEFINE a == n * BLOCK_SIZE
               part == SubSeq(all, a + 1, a + BLOCK_SIZE)
               x == Unit("block", part)
    <2>1. a \in Nat /\ (n + 1) * BLOCK_SIZE = a + BLOCK_SIZE /\ (n + 1) - 1 = n
        BY <1>0, NextMultiple
    <2>2. a + BLOCK_SIZE <= Len(all) /\ a <= Len(all)
        BY <2>1, <1>0
    <2>3. Good(n)
        BY <2>2
    <2>4. part \in Seq(FileBytes)
        BY <2>1, <2>2, <1>0, PartOf
    <2>5. x \in Units /\ x.field = "block" /\ Bytes(x) = part
        BY <2>4, UnitsAre
    <2>6. Blocks(all, n + 1) = Append(Blocks(all, n), x)
        <3>1. Append(Blocks(all, n), x) \in Seq(Units) /\ Len(Append(Blocks(all, n), x)) = n + 1
            BY <2>3, <2>5, AppendProperties
        <3>2. ASSUME NEW i \in 1 .. n + 1
              PROVE  Append(Blocks(all, n), x)[i] =
                         Unit("block", SubSeq(all, (i - 1) * BLOCK_SIZE + 1, i * BLOCK_SIZE))
            <4>1. CASE i \in 1 .. n
                <5>1. Append(Blocks(all, n), x)[i] = Blocks(all, n)[i]
                    BY <4>1, <2>3, <2>5, AppendProperties
                <5> QED
                    BY <5>1, <4>1 DEF Blocks
            <4>2. CASE i = n + 1
                <5>1. Append(Blocks(all, n), x)[i] = x
                    BY <4>2, <2>3, <2>5, AppendProperties
                <5>2. (i - 1) * BLOCK_SIZE = a /\ i * BLOCK_SIZE = a + BLOCK_SIZE
                    BY <4>2, <2>1
                <5> QED
                    BY <5>1, <5>2
            <4> QED
                BY <4>1, <4>2
        <3>3. Append(Blocks(all, n), x) = [i \in 1 .. n + 1 |-> Append(Blocks(all, n), x)[i]]
            BY <3>1, LenProperties
        <3> HIDE DEF x
        <3> QED
            BY <3>2, <3>3 DEF Blocks
    <2> HIDE DEF x, part
    <2>7. Decompressed(Blocks(all, n + 1)) = SubSeq(all, 1, a) \o part
        BY <2>3, <2>5, <2>6, OutOfAppend
    <2>8. SubSeq(all, 1, a) \o part = SubSeq(all, 1, a + BLOCK_SIZE)
        BY <2>1, <2>2, <1>0, ConcatAdjacentSubSeq DEF part
    <2> DEFINE bs == Blocks(all, n)
    <2>11. bs \in Seq(Units) /\ Len(bs) = n /\ \A j \in 1 .. n : bs[j].field = "block"
        BY <2>3
    <2> HIDE DEF bs
    <2>12. /\ Append(bs, x) \in Seq(Units) /\ Len(Append(bs, x)) = n + 1
           /\ \A j \in 1 .. n : Append(bs, x)[j] = bs[j]
           /\ Append(bs, x)[n + 1] = x
        BY <2>5, <2>11, AppendProperties
    <2>9. Blocks(all, n + 1) \in Seq(Units) /\ Len(Blocks(all, n + 1)) = n + 1
        BY <2>12, <2>6 DEF bs
    <2>13. \A j \in 1 .. n + 1 : Append(bs, x)[j].field = "block"
        BY <2>12, <2>11, <2>5
    <2>10. \A j \in 1 .. n + 1 : Blocks(all, n + 1)[j].field = "block"
        BY <2>13, <2>6 DEF bs
    <2> QED
        BY <2>1, <2>7, <2>8, <2>9, <2>10
<1>3. S \in SUBSET Nat
    OBVIOUS
<1> HIDE DEF S
<1>4. S = Nat
    BY <1>1, <1>2, <1>3, AllOfNat
<1> QED
    BY <1>4 DEF S

\* Concatenation of units is associative.
LEMMA JoinedUnits ==
    \A a \in Seq(Units) : \A b \in Seq(Units) : \A c \in Seq(Units) :
        (a \o b) \o c = a \o (b \o c)
BY ConcatAssociative

\* Associativity in that form.
LEMMA UnitsJoined ==
    \A a \in Seq(Units), b \in Seq(Units), c \in Seq(Units) : JoinedEitherWay(a, b, c)
BY JoinedUnits DEF JoinedEitherWay

\* Two sequences, one after the other.
LEMMA Joined ==
    ASSUME NEW X, NEW a \in Seq(X), NEW b \in Seq(X)
    PROVE  /\ a \o b \in Seq(X)
           /\ Len(a) \in Nat /\ Len(b) \in Nat
           /\ Len(a \o b) = Len(a) + Len(b)
           /\ \A j \in 1 .. Len(a) : (a \o b)[j] = a[j]
           /\ \A j \in 1 .. Len(b) : (a \o b)[Len(a) + j] = b[j]
           /\ \A j \in Len(a) + 1 .. Len(a) + Len(b) : (a \o b)[j] = b[j - Len(a)]
BY ConcatProperties, LenProperties

\* What ZSTD_compressStream2 makes of its input: units behind those it still
\* owed, from which, with what it holds back, everything it was given comes out
\* again.
CompressedTo(next, bytes, e_end) ==
    /\ next \in [begun : BOOLEAN, held : Seq(FileBytes), owed : Seq(Units)]
    /\ e_end => next.held = <<>>
    /\ \E new \in Seq(Units) :
           /\ next.owed = cctx.owed \o new
           /\ Decompressed(new) \o next.held = cctx.held \o bytes
           /\ next.begun <=> cctx.begun \/ new # <<>>
           /\ \A j \in 1 .. Len(new) :
                  new[j].field \in
                      IF j = 1 /\ ~cctx.begun THEN {"frame"}
                      ELSE IF j = Len(new) /\ e_end THEN {"end"} ELSE {"block"}

\* ZSTD_compressStream2, as modelled, loses nothing: what it owes afterwards and
\* what it still holds yield what it owed, what it held and its input.
LEMMA CompressOut ==
    ASSUME cctx \in [begun : BOOLEAN, held : Seq(FileBytes), owed : Seq(Units)],
           NEW bytes \in Seq(FileBytes), NEW e_end \in BOOLEAN,
           NEW next, next = CompressStream2(bytes, e_end)
    PROVE  CompressedTo(next, bytes, e_end)
<1> USE ArchiveAssumption
<1> DEFINE all == cctx.held \o bytes
           full == Len(all) \div BLOCK_SIZE
           cut == full * BLOCK_SIZE
           rest == SubSeq(all, cut + 1, Len(all))
           blocks == Blocks(all, full)
           begin == IF cctx.begun \/ (full = 0 /\ ~e_end) THEN <<>>
                    ELSE <<Unit("frame", <<>>)>>
           finish == IF e_end THEN <<Unit("block", rest), Unit("end", <<>>)>> ELSE <<>>
           begun == cctx.begun \/ begin # <<>>
           held == IF e_end THEN <<>> ELSE rest
           owed == ((cctx.owed \o begin) \o blocks) \o finish
<1>1. next = [begun |-> begun, held |-> held, owed |-> owed]
    BY Zenon DEF CompressStream2, Blocks
<1> HIDE DEF all, full, cut, rest, blocks, begin, finish, begun, held, owed
<1>2. next.begun = begun /\ next.held = held /\ next.owed = owed
    BY <1>1
<1>3. all \in Seq(FileBytes) /\ Len(all) \in Nat
    BY ConcatProperties, LenProperties DEF all
<1>4. full \in Nat /\ cut \in Nat /\ cut <= Len(all)
    BY <1>3, Quotient DEF full, cut
<1>5. rest \in Seq(FileBytes) /\ SubSeq(all, 1, cut) \in Seq(FileBytes)
    <2>1. cut + 1 \in Nat \ {0}
        BY <1>4
    <2> QED
        BY <1>3, <1>4, <2>1, PartOf DEF rest
<1>6. SubSeq(all, 1, cut) \o rest = all
    <2>1. 1 \in 1 .. Len(all) + 1 /\ cut \in 1 - 1 .. Len(all) /\ Len(all) \in cut .. Len(all)
        BY <1>3, <1>4
    <2>2. SubSeq(all, 1, cut) \o rest = SubSeq(all, 1, Len(all))
        BY <1>3, <2>1, ConcatAdjacentSubSeq DEF rest
    <2> QED
        BY <2>2, <1>3, SubSeqFull
<1>7. /\ blocks \in Seq(Units)
      /\ Len(blocks) = full
      /\ \A j \in 1 .. full : blocks[j].field = "block"
      /\ Decompressed(blocks) = SubSeq(all, 1, cut)
    BY <1>3, <1>4, BlocksAre DEF cut, blocks
<1>8. begin = <<>> <=> cctx.begun \/ (full = 0 /\ ~e_end)
    BY DEF begin
<1>9. /\ begin \in Seq(Units) /\ Decompressed(begin) = <<>>
      /\ Len(begin) = IF begin = <<>> THEN 0 ELSE 1
      /\ begin # <<>> => begin[1].field = "frame"
    BY UnitsAre, OutOfNone, OutOfOne DEF begin
<1>10. /\ finish \in Seq(Units)
       /\ Len(finish) = IF e_end THEN 2 ELSE 0
       /\ e_end => /\ finish[1].field = "block" /\ finish[2].field = "end"
                   /\ Decompressed(finish) = rest
       /\ ~e_end => Decompressed(finish) = <<>>
    <2>1. CASE ~e_end
        BY <2>1, OutOfNone, EmptySeq DEF finish
    <2>2. CASE e_end
        <3> DEFINE x == Unit("block", rest)
                   y == Unit("end", <<>>)
        <3>1. x \in Units /\ y \in Units /\ x.field = "block" /\ y.field = "end"
              /\ Bytes(x) = rest /\ Bytes(y) = <<>>
            BY <1>5, UnitsAre
        <3> HIDE DEF x, y
        <3>2. finish = <<x, y>>
            BY <2>2 DEF x, y, finish
        <3>3. <<x>> \in Seq(Units) /\ <<x, y>> = Append(<<x>>, y)
            BY <3>1
        <3>4. Decompressed(<<x, y>>) = Decompressed(<<x>>) \o Bytes(y)
            BY <3>1, <3>3, OutOfAppend
        <3>5. Decompressed(<<x>>) = rest
            BY <3>1, OutOfOne
        <3>6. rest \o <<>> = rest
            BY <1>5, ConcatEmptySeq
        <3>7. Decompressed(finish) = rest
            BY <3>1, <3>2, <3>4, <3>5, <3>6
        <3> QED
            BY <3>1, <3>2, <3>7, <2>2
    <2> QED
        BY <2>1, <2>2
<1> DEFINE new == begin \o (blocks \o finish)
           was == cctx.owed
<1>11. was \in Seq(Units) /\ cctx.begun \in BOOLEAN
    OBVIOUS
<1> HIDE DEF was
<1>12. /\ new \in Seq(Units) /\ owed = was \o new
       /\ Decompressed(new) = Decompressed(begin) \o (Decompressed(blocks) \o Decompressed(finish))
       /\ Len(new) = Len(begin) + Len(blocks) + Len(finish)
       /\ \A j \in 1 .. Len(begin) : new[j] = begin[j]
       /\ \A j \in 1 .. Len(blocks) : new[Len(begin) + j] = blocks[j]
       /\ \A j \in 1 .. Len(finish) : new[Len(begin) + (Len(blocks) + j)] = finish[j]
    <2>20. blocks \in Seq(Units) /\ begin \in Seq(Units) /\ finish \in Seq(Units)
           /\ was \in Seq(Units)
        BY <1>7, <1>9, <1>10, <1>11
    <2>21. owed = ((was \o begin) \o blocks) \o finish
        BY DEF owed, was
    <2> HIDE DEF new
    <2>22. new = begin \o (blocks \o finish)
        BY DEF new
    <2> DEFINE tail == blocks \o finish
    <2>1. /\ tail \in Seq(Units) /\ Len(tail) = Len(blocks) + Len(finish)
          /\ \A j \in 1 .. Len(blocks) : tail[j] = blocks[j]
          /\ \A j \in 1 .. Len(finish) : tail[Len(blocks) + j] = finish[j]
        BY <2>20, Joined
    <2>0. tail \in Seq(Units)
        BY <2>1
    <2>2. Decompressed(tail) = Decompressed(blocks) \o Decompressed(finish)
        BY <2>20, OutOfConcat
    <2>3. was \o begin \in Seq(Units)
        BY <2>20, ConcatProperties
    <2>4. ((was \o begin) \o blocks) \o finish = (was \o begin) \o tail
        BY <2>20, <2>3, JoinedUnits
    <2>23. new = begin \o tail
        BY <2>22
    <2> HIDE DEF tail
    <2>5. (was \o begin) \o tail = was \o (begin \o tail)
        <3>1. was \in Seq(Units) /\ begin \in Seq(Units) /\ tail \in Seq(Units)
            BY <2>20, <2>0
        <3>2. JoinedEitherWay(was, begin, tail)
            BY <3>1, UnitsJoined
        <3> QED
            BY <3>2, Zenon DEF JoinedEitherWay
    <2>6. /\ begin \o tail \in Seq(Units) /\ Len(begin \o tail) = Len(begin) + Len(tail)
          /\ \A j \in 1 .. Len(begin) : (begin \o tail)[j] = begin[j]
          /\ \A j \in 1 .. Len(tail) : (begin \o tail)[Len(begin) + j] = tail[j]
        BY <2>20, <2>0, Joined
    <2>7. Decompressed(begin \o tail) = Decompressed(begin) \o Decompressed(tail)
        BY <2>20, <2>0, OutOfConcat
    <2>8. Len(begin) \in Nat /\ Len(blocks) \in Nat /\ Len(finish) \in Nat
        BY <2>20, LenProperties
    <2>9. /\ \A j \in 1 .. Len(begin) : new[j] = begin[j]
          /\ \A j \in 1 .. Len(tail) : new[Len(begin) + j] = tail[j]
        BY <2>6, <2>23
    <2>11. ASSUME NEW j \in 1 .. Len(blocks) PROVE new[Len(begin) + j] = blocks[j]
        <3>1. j \in 1 .. Len(tail) /\ tail[j] = blocks[j]
            BY <2>1, <2>8
        <3> QED
            BY <3>1, <2>9
    <2>12. ASSUME NEW j \in 1 .. Len(finish) PROVE new[Len(begin) + (Len(blocks) + j)] = finish[j]
        <3>1. Len(blocks) + j \in 1 .. Len(tail) /\ tail[Len(blocks) + j] = finish[j]
            BY <2>1, <2>8
        <3> QED
            BY <3>1, <2>9
    <2>10. new \in Seq(Units) /\ Len(new) = Len(begin) + Len(blocks) + Len(finish)
        BY <2>1, <2>6, <2>8, <2>23
    <2>13. owed = was \o new
        BY <2>4, <2>5, <2>21, <2>23
    <2>14. Decompressed(new) =
               Decompressed(begin) \o (Decompressed(blocks) \o Decompressed(finish))
        BY <2>2, <2>7, <2>23
    <2> QED
        BY <2>9, <2>10, <2>11, <2>12, <2>13, <2>14
<1> HIDE DEF new
<1>13. Decompressed(new) = SubSeq(all, 1, cut) \o Decompressed(finish)
    <2>1. Decompressed(finish) \in Seq(FileBytes)
        BY <1>10, OutTyped
    <2>2. SubSeq(all, 1, cut) \o Decompressed(finish) \in Seq(FileBytes)
        BY <2>1, <1>5, ConcatProperties
    <2>3. Decompressed(new) = <<>> \o (SubSeq(all, 1, cut) \o Decompressed(finish))
        BY <1>7, <1>9, <1>12
    <2> QED
        BY <2>2, <2>3, ConcatEmptySeq
<1>14. Decompressed(new) \o held = all
    <2>1. CASE e_end
        <3>1. held = <<>>
            BY <2>1 DEF held
        <3>2. Decompressed(new) = all
            BY <2>1, <1>6, <1>10, <1>13
        <3> QED
            BY <3>1, <3>2, <1>3, ConcatEmptySeq
    <2>2. CASE ~e_end
        <3>1. held = rest
            BY <2>2 DEF held
        <3>2. Decompressed(new) = SubSeq(all, 1, cut)
            BY <2>2, <1>5, <1>10, <1>13, ConcatEmptySeq
        <3> QED
            BY <3>1, <3>2, <1>6
    <2> QED
        BY <2>1, <2>2
<1>15. Len(new) = Len(begin) + full + Len(finish) /\ (new # <<>> <=> Len(new) # 0)
       /\ Len(begin) \in {0, 1} /\ Len(finish) \in {0, 2}
    BY <1>7, <1>9, <1>10, <1>12, EmptySeq
<1>16. begun <=> cctx.begun \/ new # <<>>
    <2>1. CASE begin # <<>>
        <3>1. Len(begin) = 1
            BY <2>1, <1>9
        <3>2. new # <<>>
            BY <3>1, <1>4, <1>15
        <3> QED
            BY <3>2, <2>1 DEF begun
    <2>2. CASE begin = <<>> /\ ~cctx.begun
        <3>1. full = 0 /\ ~e_end /\ Len(begin) = 0 /\ Len(finish) = 0
            BY <2>2, <1>8, <1>9, <1>10
        <3>2. new = <<>>
            BY <3>1, <1>15
        <3> QED
            BY <3>2, <2>2 DEF begun
    <2>3. CASE begin = <<>> /\ cctx.begun
        BY <2>3 DEF begun
    <2> QED
        BY <2>1, <2>2, <2>3, <1>11
<1>17. ASSUME NEW j \in 1 .. Len(new)
       PROVE  new[j].field \in
                  IF j = 1 /\ ~cctx.begun THEN {"frame"}
                  ELSE IF j = Len(new) /\ e_end THEN {"end"} ELSE {"block"}
    <2>1. CASE j <= Len(begin)
        <3>1. j = 1 /\ begin # <<>>
            BY <2>1, <1>9, <1>15
        <3>2. new[j] = begin[1] /\ ~cctx.begun
            BY <3>1, <2>1, <1>8, <1>12
        <3> QED
            BY <3>1, <3>2, <1>9
    <2>2. ASSUME NEW i \in 1 .. full, j = Len(begin) + i
          PROVE  new[j].field = "block" /\ (j = 1 => cctx.begun) /\ (j = Len(new) => ~e_end)
        <3>1. new[j] = blocks[i]
            BY <2>2, <1>7, <1>12
        <3>2. new[j].field = "block"
            BY <3>1, <1>7
        <3>3. j = 1 => Len(begin) = 0
            BY <2>2, <1>4, <1>15
        <3>4. Len(begin) = 0 => cctx.begun
            BY <1>4, <1>8, <1>9
        <3>5. j = Len(new) => Len(finish) = 0
            BY <2>2, <1>4, <1>15
        <3> QED
            BY <3>2, <3>3, <3>4, <3>5, <1>10
    <2>3. ASSUME NEW i \in 1 .. Len(finish), j = Len(begin) + (full + i)
          PROVE  /\ e_end /\ (j = 1 => cctx.begun)
                 /\ new[j].field = IF j = Len(new) THEN "end" ELSE "block"
        <3>1. e_end /\ Len(finish) = 2
            BY <1>10
        <3>2. new[j] = finish[i]
            <4>1. j = Len(begin) + (Len(blocks) + i)
                BY <2>3, <1>7
            <4> QED
                BY <4>1, <1>12
        <3>3. j = Len(new) <=> i = 2
            <4>1. Len(new) = Len(begin) + (full + 2) /\ Len(begin) \in Nat /\ i \in 1 .. 2
                BY <3>1, <1>4, <1>15
            <4> QED
                BY <2>3, <4>1, <1>4
        <3>4. j = 1 => Len(begin) = 0
            BY <2>3, <1>4, <1>15
        <3>5. Len(begin) = 0 => cctx.begun
            BY <3>1, <1>4, <1>8, <1>9
        <3> QED
            BY <3>1, <3>2, <3>3, <3>4, <3>5, <1>10
    <2>4. CASE j > Len(begin) /\ j <= Len(begin) + full
        <3>1. j - Len(begin) \in 1 .. full /\ j = Len(begin) + (j - Len(begin))
            BY <2>4, <1>4, <1>15
        <3> QED
            BY <3>1, <2>2
    <2>5. CASE j > Len(begin) + full
        <3>1. j - Len(begin) - full \in 1 .. Len(finish)
              /\ j = Len(begin) + (full + (j - Len(begin) - full))
            BY <2>5, <1>4, <1>15
        <3> QED
            BY <3>1, <2>3
    <2> QED
        BY <2>1, <2>4, <2>5, <1>4, <1>15
<1>18. next \in [begun : BOOLEAN, held : Seq(FileBytes), owed : Seq(Units)]
    <2>1. owed \in Seq(Units)
        BY <1>11, <1>12, ConcatProperties
    <2>2. held \in Seq(FileBytes)
        BY <1>5, EmptySeq DEF held
    <2>3. begun \in BOOLEAN
        BY DEF begun
    <2> QED
        BY <1>1, <2>1, <2>2, <2>3
<1>19. e_end => next.held = <<>>
    BY <1>2 DEF held
<1>20. Decompressed(new) \o next.held = cctx.held \o bytes
    BY <1>2, <1>14 DEF all
<1> QED
    BY <1>2, <1>12, <1>16, <1>17, <1>18, <1>19, <1>20 DEF was, CompressedTo

-----------------------------------------------------------------------------
(* Writing *)

\* The whole, and nothing, as parts of a sequence.
LEMMA WholeOf ==
    ASSUME NEW X, NEW whole \in Seq(X)
    PROVE  /\ SubSeq(whole, 1, Len(whole)) = whole
           /\ SubSeq(whole, 1, 0) = <<>>
           /\ whole \o <<>> = whole
           /\ <<>> \o whole = whole
           /\ Len(whole) \in Nat
           /\ Len(whole) = 0 <=> whole = <<>>
           /\ \A m \in Nat : m > Len(whole) => SubSeq(whole, m, Len(whole)) = <<>>
BY SubSeqFull, SubSeqEmpty, ConcatEmptySeq, EmptySeq, LenProperties

\* At the end of the archive, writing appends.
LEMMA OverwriteAtEnd ==
    ASSUME archive \in Seq(Units), NEW units \in Seq(Units)
    PROVE  Overwrite(Len(archive), units) = archive \o units
<1>1. /\ Len(archive) \in Nat /\ Len(units) \in Nat
      /\ SubSeq(archive, 1, Len(archive)) = archive
    BY WholeOf
<1>2. SubSeq(archive, Len(archive) + Len(units) + 1, Len(archive)) = <<>>
    <2>1. Len(archive) + Len(units) + 1 \in Nat /\ Len(archive) + Len(units) + 1 > Len(archive)
        BY <1>1
    <2> QED
        BY <2>1, WholeOf
<1>3. archive \o units \in Seq(Units)
    BY Joined
<1>4. (archive \o units) \o <<>> = archive \o units
    BY <1>3, WholeOf
<1> QED
    BY <1>1, <1>2, <1>4 DEF Overwrite

\* What a write adds to the archive, and when it is not all there.
LEMMA WriteIs ==
    ASSUME archive \in Seq(Units), put = Len(archive), happened \subseteq Faults,
           NEW units \in Seq(Units), Write(units)
    PROVE  \E k \in 0 .. Len(units) :
               /\ archive' = archive \o SubSeq(units, 1, k)
               /\ put' = Len(archive')
               /\ happened \subseteq happened' /\ happened' \subseteq Faults
               /\ Intact' => Intact /\ k = Len(units)
               /\ ~Intact => k = 0
<1>1. /\ Len(archive) \in Nat /\ Len(units) \in Nat
      /\ SubSeq(units, 1, Len(units)) = units
      /\ SubSeq(units, 1, 0) = <<>>
      /\ archive \o <<>> = archive
    BY WholeOf
<1>2. CASE /\ "disk" \notin happened
           /\ archive' = Overwrite(put, units)
           /\ put' = put + Len(units)
           /\ UNCHANGED happened
    <2>1. archive' = archive \o units
        BY <1>2, OverwriteAtEnd
    <2>2. Len(archive') = Len(archive) + Len(units)
        BY <2>1, Joined
    <2>3. archive' = archive \o SubSeq(units, 1, Len(units))
        BY <2>1, <1>1
    <2>4. Len(units) \in 0 .. Len(units)
        BY <1>1
    <2> QED
        BY <1>2, <2>2, <2>3, <2>4, <1>1 DEF Intact
<1>3. CASE /\ "disk" \notin happened
           /\ Happens("disk")
           /\ \E k \in 0 .. Len(units) - 1 :
                  /\ archive' = Overwrite(put, SubSeq(units, 1, k))
                  /\ put' = put + k
    <2>1. PICK k \in 0 .. Len(units) - 1 :
                  /\ archive' = Overwrite(put, SubSeq(units, 1, k))
                  /\ put' = put + k
        BY <1>3
    <2>2. k \in Nat /\ k <= Len(units) /\ k \in 0 .. Len(units)
        BY <1>1
    <2>3. SubSeq(units, 1, k) \in Seq(Units) /\ Len(SubSeq(units, 1, k)) = k
        BY <2>2, <1>1, PartOf
    <2>4. archive' = archive \o SubSeq(units, 1, k)
        BY <2>1, <2>3, OverwriteAtEnd
    <2>5. Len(archive') = Len(archive) + k
        BY <2>3, <2>4, Joined
    <2>6. /\ "disk" \in happened' /\ happened \subseteq happened' /\ happened' \subseteq Faults
        BY <1>3 DEF Happens
    <2> QED
        BY <1>3, <2>1, <2>2, <2>4, <2>5, <2>6 DEF Intact
<1>4. CASE "disk" \in happened /\ UNCHANGED outVars
    <2>1. archive' = archive \o SubSeq(units, 1, 0) /\ 0 \in 0 .. Len(units)
        BY <1>4, <1>1 DEF outVars
    <2> QED
        BY <1>4, <2>1 DEF Intact, outVars
<1> QED
    BY <1>2, <1>3, <1>4 DEF Write

\* FSEntryInfo::writeToStream writes the header field by field.
LEMMA HeaderIs ==
    ASSUME NEW kind \in {"directory", "file"}, NEW path \in Seq(Names)
    PROVE  /\ Header(kind, path) \in Seq(Units)
           /\ Len(path) \in Nat
           /\ Len(Header(kind, path)) = 3 + Len(path)
           /\ Header(kind, path)[1] = Unit("type", kind)
           /\ Header(kind, path)[2] = Unit("path_length", Len(path))
           /\ \A j \in 1 .. Len(path) : Header(kind, path)[2 + j] = Unit("name", path[j])
           /\ Header(kind, path)[3 + Len(path)] = Unit("compressed_length", 0)
<1> DEFINE type == Unit("type", kind)
           length == Unit("path_length", Len(path))
           last == Unit("compressed_length", 0)
           names == [i \in 1 .. Len(path) |-> Unit("name", path[i])]
           first == <<type, length>>
<1>1. Len(path) \in Nat /\ \A j \in 1 .. Len(path) : path[j] \in Names
    BY LenProperties, ElementOfSeq
<1>2. type \in Units /\ length \in Units /\ last \in Units
    BY <1>1, UnitsAre
<1>3. names \in Seq(Units) /\ Len(names) = Len(path)
      /\ \A j \in 1 .. Len(path) : names[j] = Unit("name", path[j])
    <2>1. \A j \in 1 .. Len(path) : Unit("name", path[j]) \in Units
        BY <1>1, UnitsAre
    <2> QED
        BY <1>1, <2>1
<1>4. Header(kind, path) = (first \o names) \o <<last>>
    BY DEF Header
<1> HIDE DEF type, length, last, names
<1>5. first \in Seq(Units) /\ Len(first) = 2 /\ first[1] = type /\ first[2] = length
    BY <1>2
<1>6. <<last>> \in Seq(Units) /\ Len(<<last>>) = 1 /\ <<last>>[1] = last
    BY <1>2
<1> HIDE DEF first
<1> DEFINE front == first \o names
<1>7. /\ front \in Seq(Units) /\ Len(front) = 2 + Len(path)
      /\ front[1] = type /\ front[2] = length
      /\ \A j \in 1 .. Len(path) : front[2 + j] = names[j]
    <2>1. first \in Seq(Units) /\ names \in Seq(Units)
        BY <1>3, <1>5
    <2>2. /\ front \in Seq(Units) /\ Len(front) = Len(first) + Len(names)
          /\ \A j \in 1 .. Len(first) : front[j] = first[j]
          /\ \A j \in 1 .. Len(names) : front[Len(first) + j] = names[j]
        BY <2>1, Joined
    <2> HIDE DEF front
    <2> QED
        BY <2>2, <1>1, <1>3, <1>5
<1> HIDE DEF front
<1> DEFINE ending == <<last>>
           whole == front \o ending
<1>8. ending \in Seq(Units) /\ Len(ending) = 1 /\ ending[1] = last
    BY <1>6
<1> HIDE DEF ending
<1>9. /\ whole \in Seq(Units) /\ Len(whole) = (2 + Len(path)) + 1
      /\ \A j \in 1 .. 2 + Len(path) : whole[j] = front[j]
      /\ whole[(2 + Len(path)) + 1] = last
    <2>1. front \in Seq(Units) /\ ending \in Seq(Units)
        BY <1>7, <1>8
    <2>2. /\ whole \in Seq(Units) /\ Len(whole) = Len(front) + Len(ending)
          /\ \A j \in 1 .. Len(front) : whole[j] = front[j]
          /\ \A j \in 1 .. Len(ending) : whole[Len(front) + j] = ending[j]
        BY <2>1, Joined
    <2> HIDE DEF whole
    <2> QED
        BY <2>2, <1>1, <1>7, <1>8
<1>10. Header(kind, path) = whole
    BY <1>4 DEF front, ending
<1> HIDE DEF whole
<1>11. /\ whole[1] = type /\ whole[2] = length /\ Len(whole) = 3 + Len(path)
       /\ whole[3 + Len(path)] = last
       /\ \A j \in 1 .. Len(path) : whole[2 + j] = names[j]
    BY <1>1, <1>7, <1>9
<1> QED
    BY <1>1, <1>3, <1>9, <1>10, <1>11 DEF type, length, last

-----------------------------------------------------------------------------
(* Where the entries lie *)

LayoutType ==
    /\ tree \in Trees
    /\ visited \in Seq([path : Seq(Names), node : DOMAIN tree, start : Nat])
    /\ archive \in Seq(Units)

\* The types of what is said of an entry, and the order of its positions.
LEMMA LayoutTypes ==
    ASSUME LayoutType, Sequenced
    PROVE  /\ Len(visited) \in Nat /\ Len(archive) \in Nat
           /\ \A i \in 1 .. Len(visited) :
                  /\ visited[i] \in [path : Seq(Names), node : DOMAIN tree, start : Nat]
                  /\ visited[i].path \in Seq(Names) /\ Len(visited[i].path) \in Nat
                  /\ visited[i].node \in DOMAIN tree
                  /\ Start(i) \in Nat /\ Stop(i) \in Nat /\ DataStart(i) \in Nat
                  /\ Start(i) + 3 <= DataStart(i)
                  /\ Start(i) <= Stop(i) /\ Stop(i) <= Len(archive)
                  /\ DataStart(i) = Start(i) + 3 + Len(visited[i].path)
<1>1. Len(visited) \in Nat /\ Len(archive) \in Nat
    BY LenProperties DEF LayoutType
<1>2. ASSUME NEW i \in 1 .. Len(visited)
      PROVE  /\ visited[i] \in [path : Seq(Names), node : DOMAIN tree, start : Nat]
             /\ visited[i].path \in Seq(Names) /\ Len(visited[i].path) \in Nat
             /\ visited[i].node \in DOMAIN tree
             /\ Start(i) \in Nat
    <2>1. visited[i] \in [path : Seq(Names), node : DOMAIN tree, start : Nat]
        BY ElementOfSeq DEF LayoutType
    <2>2. Len(visited[i].path) \in Nat
        BY <2>1, LenProperties
    <2> QED
        BY <2>1, <2>2 DEF Start
<1>3. ASSUME NEW i \in 1 .. Len(visited)
      PROVE  /\ Stop(i) \in Nat /\ DataStart(i) \in Nat
             /\ Start(i) + 3 <= DataStart(i)
             /\ Start(i) <= Stop(i) /\ Stop(i) <= Len(archive)
             /\ DataStart(i) = Start(i) + 3 + Len(visited[i].path)
    <2>1. Start(i) <= Stop(i) /\ Stop(i) <= Len(archive)
        BY DEF Sequenced
    <2>2. Stop(i) \in Nat
        <3>1. i < Len(visited) => i + 1 \in 1 .. Len(visited)
            BY <1>1
        <3> QED
            BY <3>1, <1>1, <1>2 DEF Stop
    <2>3. DataStart(i) = Start(i) + 3 + Len(visited[i].path)
        BY DEF DataStart
    <2> QED
        BY <2>1, <2>2, <2>3, <1>2
<1> QED
    BY <1>1, <1>2, <1>3

\* Parts of two sequences that agree there.
LEMMA SamePart ==
    ASSUME NEW X, NEW one \in Seq(X), NEW two \in Seq(X), NEW m \in Nat \ {0}, NEW n \in Nat,
           n <= Len(one), n <= Len(two), \A j \in m .. n : one[j] = two[j]
    PROVE  SubSeq(one, m, n) = SubSeq(two, m, n)
<1> DEFINE p == SubSeq(one, m, n)
           q == SubSeq(two, m, n)
<1>1. /\ p \in Seq(X) /\ Len(p) = IF m <= n THEN n - m + 1 ELSE 0
      /\ \A i \in 1 .. n - m + 1 : p[i] = one[m + i - 1]
    BY PartOf
<1>2. /\ q \in Seq(X) /\ Len(q) = IF m <= n THEN n - m + 1 ELSE 0
      /\ \A i \in 1 .. n - m + 1 : q[i] = two[m + i - 1]
    BY PartOf
<1> HIDE DEF p, q
<1>3. ASSUME NEW i \in 1 .. Len(p) PROVE p[i] = q[i]
    <2>1. i \in 1 .. n - m + 1 /\ m + i - 1 \in m .. n
        BY <1>1
    <2> QED
        BY <2>1, <1>1, <1>2
<1>4. p = q
    BY <1>1, <1>2, <1>3, SeqEqual
<1> QED
    BY <1>4 DEF p, q

\* What a step does to the layout that begins the entry e, of which it writes
\* more.
EntryBegun(n, a, e, more) ==
    /\ visited' \in Seq([path : Seq(Names), node : DOMAIN tree, start : Nat])
    /\ archive' \in Seq(Units)
    /\ n \in Nat /\ Len(visited') = n + 1
    /\ a \in Nat /\ Len(more) \in Nat
    /\ Len(archive') = a + Len(more)
    /\ \A j \in 1 .. a : archive'[j] = archive[j]
    /\ \A j \in 1 .. Len(more) : archive'[a + j] = more[j]
    /\ \A i \in 1 .. n :
           /\ visited'[i] = visited[i]
           /\ NodeKind(i)' = NodeKind(i)
           /\ Start(i)' = Start(i) /\ Stop(i)' = Stop(i)
           /\ DataStart(i)' = DataStart(i) /\ DataOf(i)' = DataOf(i)
    /\ visited'[n + 1] = e
    /\ Start(n + 1)' = a
    /\ Stop(n + 1)' = a + Len(more)
    /\ DataStart(n + 1)' = a + 3 + Len(e.path)
    /\ NodeKind(n + 1)' = tree[e.node].kind

\* A new entry, as far as it was written, leaves the others where they are.
LEMMA NewEntry ==
    ASSUME LayoutType, Sequenced, tree' = tree,
           NEW n, n = Len(visited), NEW a, a = Len(archive),
           NEW e \in [path : Seq(Names), node : DOMAIN tree, start : Nat],
           e.start = a, visited' = Append(visited, e),
           NEW more \in Seq(Units), archive' = archive \o more
    PROVE  EntryBegun(n, a, e, more)
<1>1. /\ n \in Nat /\ a \in Nat
      /\ \A i \in 1 .. n : /\ Start(i) \in Nat /\ Stop(i) \in Nat /\ DataStart(i) \in Nat
                           /\ Stop(i) <= a
    BY LayoutTypes
<1>2. /\ visited' \in Seq([path : Seq(Names), node : DOMAIN tree, start : Nat])
      /\ Len(visited') = n + 1 /\ visited'[n + 1] = e
      /\ \A i \in 1 .. n : visited'[i] = visited[i]
    BY AppendProperties DEF LayoutType
<1>3. /\ archive' \in Seq(Units)
      /\ Len(more) \in Nat
      /\ Len(archive') = a + Len(more)
      /\ \A j \in 1 .. a : archive'[j] = archive[j]
      /\ \A j \in 1 .. Len(more) : archive'[a + j] = more[j]
    <2>1. archive \in Seq(Units)
        BY DEF LayoutType
    <2>2. /\ archive \o more \in Seq(Units) /\ Len(more) \in Nat
          /\ Len(archive \o more) = Len(archive) + Len(more)
          /\ \A j \in 1 .. Len(archive) : (archive \o more)[j] = archive[j]
          /\ \A j \in 1 .. Len(more) : (archive \o more)[Len(archive) + j] = more[j]
        BY <2>1, Joined
    <2> QED
        BY <2>2, Zenon
<1>4. ASSUME NEW i \in 1 .. n
      PROVE  Start(i)' = Start(i) /\ DataStart(i)' = DataStart(i) /\ NodeKind(i)' = NodeKind(i)
    BY <1>2 DEF Start, DataStart, NodeKind
<1>5. Start(n + 1)' = a /\ DataStart(n + 1)' = a + 3 + Len(e.path)
      /\ NodeKind(n + 1)' = tree[e.node].kind
    BY <1>2 DEF Start, DataStart, NodeKind
<1>6. Stop(n + 1)' = a + Len(more)
    BY <1>1, <1>2, <1>3 DEF Stop
<1>7. ASSUME NEW i \in 1 .. n PROVE Stop(i)' = Stop(i)
    <2>1. CASE i < n
        <3>1. i + 1 \in 1 .. n /\ i < n + 1
            BY <2>1, <1>1
        <3>2. Stop(i)' = Start(i + 1)'
            BY <3>1, <1>2 DEF Stop
        <3>3. Stop(i) = Start(i + 1)
            BY <2>1 DEF Stop
        <3> QED
            BY <3>1, <3>2, <3>3, <1>4
    <2>2. CASE i = n
        <3>1. Stop(i)' = Start(n + 1)'
            BY <2>2, <1>1, <1>2 DEF Stop
        <3>2. Stop(i) = a
            BY <2>2, <1>1 DEF Stop
        <3> QED
            BY <3>1, <3>2, <1>5
    <2> QED
        BY <2>1, <2>2, <1>1
<1>8. ASSUME NEW i \in 1 .. n PROVE DataOf(i)' = DataOf(i)
    <2>1. DataOf(i)' = SubSeq(archive', DataStart(i) + 1, Stop(i))
        BY <1>4, <1>7 DEF DataOf
    <2>2. SubSeq(archive', DataStart(i) + 1, Stop(i)) = SubSeq(archive, DataStart(i) + 1, Stop(i))
        <3>1. /\ DataStart(i) + 1 \in Nat \ {0} /\ Stop(i) \in Nat
              /\ Stop(i) <= Len(archive) /\ Stop(i) <= Len(archive')
            BY <1>1, <1>3
        <3>2. \A j \in DataStart(i) + 1 .. Stop(i) : archive'[j] = archive[j]
            <4>1. Stop(i) \in Nat /\ DataStart(i) \in Nat /\ Stop(i) <= a /\ a \in Nat
                BY <1>1
            <4>2. \A j \in DataStart(i) + 1 .. Stop(i) : j \in 1 .. a
                BY <4>1
            <4>3. \A j \in 1 .. a : archive'[j] = archive[j]
                BY <1>3
            <4> QED
                BY <4>2, <4>3
        <3>3. archive \in Seq(Units) /\ archive' \in Seq(Units)
            BY <1>3 DEF LayoutType
        <3>4. PICK first \in Nat \ {0}, last \in Nat, one \in Seq(Units), two \in Seq(Units) :
                  /\ first = DataStart(i) + 1 /\ last = Stop(i)
                  /\ one = archive /\ two = archive'
            BY <3>1, <3>3
        <3>5. last <= Len(one) /\ last <= Len(two) /\ \A j \in first .. last : two[j] = one[j]
            BY <3>1, <3>2, <3>4
        <3>6. SubSeq(two, first, last) = SubSeq(one, first, last)
            BY <3>5, SamePart
        <3> QED
            BY <3>4, <3>6, Zenon
    <2> QED
        BY <2>1, <2>2 DEF DataOf
<1> QED
    BY <1>1, <1>2, <1>3, <1>4, <1>5, <1>6, <1>7, <1>8 DEF EntryBegun

\* What the tree holds.
LEMMA TreeIs ==
    ASSUME tree \in Trees
    PROVE  /\ \A p \in DOMAIN tree :
                  /\ p \in Seq(Names) /\ p # <<>>
                  /\ tree[p] \in [kind : Kinds, size : Nat, to : Seq(Names)]
                  /\ tree[p].size \in Nat /\ tree[p].kind \in Kinds
                  /\ tree[p].kind # "file" => tree[p].size = 0
           /\ <<ROOT>> \in DOMAIN tree /\ tree[<<ROOT>>].kind = "directory"
<1>1. IsTree(tree)
    BY TreesAssumption
<1> QED
    BY <1>1 DEF IsTree

\* The content of whatever is packed.
LEMMA ContentIs ==
    ASSUME tree \in Trees, NEW p \in DOMAIN tree
    PROVE  /\ Content(p) \in Seq(FileBytes)
           /\ Len(Content(p)) = tree[p].size
           /\ tree[p].kind # "file" => Content(p) = <<>>
<1>1. tree[p].size \in Nat /\ p \in Seq(Names) /\ (tree[p].kind # "file" => tree[p].size = 0)
    BY TreeIs
<1>2. \A i \in 1 .. tree[p].size : <<p, i>> \in FileBytes
    BY <1>1 DEF FileBytes
<1> QED
    BY <1>1, <1>2 DEF Content

\* An entry without compressed data is in order.
LEMMA NoUnits ==
    /\ Framed(<<>>)
    /\ Decompressed(<<>>) = <<>>
    /\ \A c \in Seq(FileBytes) : IsPrefix(<<>>, c)
<1>1. \A c \in Seq(FileBytes) : Len(c) \in Nat /\ SubSeq(c, 1, 0) = <<>>
    BY WholeOf
<1>2. SubSeq(<<>>, 1, 0) = <<>> /\ Len(<<>>) = 0
    BY SubSeqEmpty
<1> QED
    BY <1>1, <1>2, OutOfNone DEF Framed, IsPrefix

\* An entry is begun: the entries before it are kept, and the new one is a
\* header, or what the disk took of it.
LEMMA BeginKeepsLayout ==
    ASSUME LayoutType, happened \subseteq Faults, Sequenced, HeaderKept, DataKept,
           pc # "compress", tree' = tree,
           NEW kind \in {"directory", "file"}, NEW path \in Seq(Names), NEW node \in DOMAIN tree,
           kind = IF tree[node].kind = "directory" THEN "directory" ELSE "file",
           Write(Header(kind, path)), Visit(path, node),
           pc' = "compress" <=> tree[node].kind = "file",
           pc' = "compress" =>
               /\ file' = [rest |-> Content(node), bytes_written |-> 0,
                           pos |-> put + Len(Header(kind, path)) - 1]
               /\ cctx' = NewCCtx
    PROVE  /\ LayoutType' /\ put' \in 0 .. Len(archive')
           /\ happened \subseteq happened' /\ happened' \subseteq Faults
           /\ Sequenced' /\ HeaderKept' /\ DataKept' /\ Compressing'
<1> DEFINE header == Header(kind, path)
<1>1. PICK n, a : n = Len(visited) /\ a = Len(archive)
    OBVIOUS
<1>2. /\ header \in Seq(Units) /\ Len(path) \in Nat
      /\ Len(header) = 3 + Len(path)
      /\ header[1] = Unit("type", kind)
      /\ header[2] = Unit("path_length", Len(path))
      /\ \A j \in 1 .. Len(path) : header[2 + j] = Unit("name", path[j])
      /\ header[3 + Len(path)] = Unit("compressed_length", 0)
    BY HeaderIs
<1>3. put = a /\ archive \in Seq(Units) /\ put = Len(archive)
    BY <1>1 DEF Sequenced, LayoutType
<1> HIDE DEF header
<1>4. PICK k \in 0 .. Len(header) :
          /\ archive' = archive \o SubSeq(header, 1, k)
          /\ put' = Len(archive')
          /\ happened \subseteq happened' /\ happened' \subseteq Faults
          /\ Intact' => Intact /\ k = Len(header)
          /\ ~Intact => k = 0
    BY <1>2, <1>3, WriteIs DEF header
<1>14. PICK written, fresh :
           /\ written = SubSeq(header, 1, k)
           /\ fresh = [path |-> path, node |-> node, start |-> put]
    OBVIOUS
<1>5. k \in Nat /\ k <= 3 + Len(path) /\ k <= Len(header)
    BY <1>2
<1>6. written \in Seq(Units) /\ Len(written) = k /\ \A j \in 1 .. k : written[j] = header[j]
    BY <1>2, <1>5, <1>14, PartOf
<1>7. a \in Nat /\ n \in Nat
    BY <1>1, LayoutTypes
<1>8. /\ fresh \in [path : Seq(Names), node : DOMAIN tree, start : Nat]
      /\ fresh.start = a /\ fresh.path = path /\ fresh.node = node /\ visited' = Append(visited, fresh)
    BY <1>3, <1>7, <1>14 DEF Visit
<1>9. archive' = archive \o written
    BY <1>4, <1>14
<1>10. /\ visited' \in Seq([path : Seq(Names), node : DOMAIN tree, start : Nat])
       /\ archive' \in Seq(Units)
       /\ Len(visited') = n + 1
       /\ Len(archive') = a + k
       /\ \A j \in 1 .. a : archive'[j] = archive[j]
       /\ \A j \in 1 .. k : archive'[a + j] = header[j]
       /\ \A i \in 1 .. n :
              /\ visited'[i] = visited[i]
              /\ NodeKind(i)' = NodeKind(i)
              /\ Start(i)' = Start(i) /\ Stop(i)' = Stop(i)
              /\ DataStart(i)' = DataStart(i) /\ DataOf(i)' = DataOf(i)
       /\ visited'[n + 1] = fresh
       /\ Start(n + 1)' = a
       /\ Stop(n + 1)' = a + k
       /\ DataStart(n + 1)' = a + 3 + Len(path)
       /\ NodeKind(n + 1)' = tree[node].kind
    <2>1. /\ visited' \in Seq([path : Seq(Names), node : DOMAIN tree, start : Nat])
          /\ archive' \in Seq(Units)
          /\ Len(visited') = n + 1
          /\ Len(archive') = a + Len(written)
          /\ \A j \in 1 .. a : archive'[j] = archive[j]
          /\ \A j \in 1 .. Len(written) : archive'[a + j] = written[j]
          /\ \A i \in 1 .. n :
                 /\ visited'[i] = visited[i]
                 /\ NodeKind(i)' = NodeKind(i)
                 /\ Start(i)' = Start(i) /\ Stop(i)' = Stop(i)
                 /\ DataStart(i)' = DataStart(i) /\ DataOf(i)' = DataOf(i)
          /\ visited'[n + 1] = fresh
          /\ Start(n + 1)' = a
          /\ Stop(n + 1)' = a + Len(written)
          /\ DataStart(n + 1)' = a + 3 + Len(fresh.path)
          /\ NodeKind(n + 1)' = tree[fresh.node].kind
        <3>1. written \in Seq(Units) /\ fresh.start = a
            BY <1>6, <1>8
        <3>2. fresh \in [path : Seq(Names), node : DOMAIN tree, start : Nat]
            BY <1>8
        <3>3. visited' = Append(visited, fresh)
            BY <1>8
        <3>4. n = Len(visited) /\ a = Len(archive)
            BY <1>1
        <3>5. EntryBegun(n, a, fresh, written)
            BY <3>1, <3>2, <3>3, <3>4, <1>9, NewEntry
        <3> QED
            BY <3>5 DEF EntryBegun
    <2> QED
        BY <2>1, <1>6, <1>8
<1>11. \A i \in 1 .. n :
           /\ visited[i].path \in Seq(Names) /\ Len(visited[i].path) \in Nat
           /\ Start(i) \in Nat /\ Stop(i) \in Nat /\ DataStart(i) \in Nat
           /\ Start(i) + 3 <= DataStart(i)
           /\ Start(i) <= Stop(i) /\ Stop(i) <= a
           /\ DataStart(i) = Start(i) + 3 + Len(visited[i].path)
    BY <1>1, LayoutTypes
<1>12. 1 .. Len(visited') = 1 .. n \cup {n + 1} /\ n + 1 \notin 1 .. n
    BY <1>7, <1>10
<1>13. Sequenced'
    <2>1. put' = Len(archive') /\ visited' # <<>>
        BY <1>4, <1>7, <1>10
    <2>2. Start(1)' = 0
        <3>1. CASE n = 0
            <4>1. visited = <<>>
                BY <3>1, <1>1, WholeOf DEF LayoutType
            <4>2. a = 0
                BY <4>1, <1>1 DEF Sequenced
            <4> QED
                BY <4>2, <3>1, <1>10
        <3>2. CASE n # 0
            <4>1. visited # <<>> /\ 1 \in 1 .. n
                BY <3>2, <1>1, <1>7
            <4> QED
                BY <4>1, <1>10 DEF Sequenced
        <3> QED
            BY <3>1, <3>2
    <2>3. ASSUME NEW i \in 1 .. n
          PROVE  /\ Start(i)' <= Stop(i)'
                 /\ \A j \in i + 1 .. n + 1 : Stop(i)' <= Start(j)'
                 /\ Stop(i)' <= Len(archive')
                 /\ DataStart(i)' <= Stop(i)' \/ (~Intact' /\ Stop(i)' = Len(archive'))
        <3>1. /\ Start(i) <= Stop(i) /\ Stop(i) <= a
              /\ \A j \in i + 1 .. n : Stop(i) <= Start(j)
              /\ DataStart(i) <= Stop(i) \/ (~Intact /\ Stop(i) = a)
            BY <1>1 DEF Sequenced
        <3>2. ASSUME NEW j \in i + 1 .. n + 1 PROVE Stop(i) <= Start(j)'
            <4>1. j \in i + 1 .. n \/ j = n + 1
                BY <1>7
            <4>2. j \in i + 1 .. n => j \in 1 .. n
                BY <1>7
            <4> QED
                BY <4>1, <4>2, <3>1, <1>10, <1>11
        <3>3. ~Intact => k = 0 /\ ~Intact'
            BY <1>4
        <3>4. DataStart(i) <= Stop(i) \/ (~Intact' /\ Stop(i) = a + k)
            BY <3>1, <3>3, <1>7
        <3>5. Stop(i) <= a + k
            BY <3>1, <1>5, <1>7, <1>11
        <3> QED
            BY <3>1, <3>2, <3>4, <3>5, <1>10
    <2>4. /\ Start(n + 1)' <= Stop(n + 1)'
          /\ \A j \in (n + 1) + 1 .. n + 1 : Stop(n + 1)' <= Start(j)'
          /\ Stop(n + 1)' <= Len(archive')
          /\ DataStart(n + 1)' <= Stop(n + 1)' \/ (~Intact' /\ Stop(n + 1)' = Len(archive'))
        <3>1. Intact' => k = 3 + Len(path)
            BY <1>2, <1>4
        <3> QED
            BY <3>1, <1>2, <1>5, <1>7, <1>10
    <2>5. \A i \in 1 .. Len(visited') :
              /\ Start(i)' <= Stop(i)'
              /\ \A j \in i + 1 .. Len(visited') : Stop(i)' <= Start(j)'
              /\ Stop(i)' <= Len(archive')
              /\ DataStart(i)' <= Stop(i)' \/ (~Intact' /\ Stop(i)' = Len(archive'))
        BY <2>3, <2>4, <1>10, <1>12
    <2> QED
        BY <2>1, <2>2, <2>5 DEF Sequenced
<1>15. HeaderKept'
    <2>1. ASSUME NEW i \in 1 .. n PROVE HeaderAt(i)'
        <3>1. HeaderAt(i) /\ ~IsOpen(i)
            BY <1>1 DEF HeaderKept, IsOpen
        <3>2. /\ Start(i) \in Nat /\ Stop(i) \in Nat /\ DataStart(i) \in Nat /\ Stop(i) <= a
              /\ Len(visited[i].path) \in Nat /\ Start(i) + 3 <= DataStart(i)
            BY <1>11
        <3>3. /\ visited'[i] = visited[i] /\ NodeKind(i)' = NodeKind(i)
              /\ Start(i)' = Start(i) /\ Stop(i)' = Stop(i) /\ DataStart(i)' = DataStart(i)
            BY <1>10
        <3>4. ASSUME NEW j \in Nat \ {0}, j <= Stop(i) PROVE archive'[j] = archive[j]
            <4>1. j \in 1 .. a
                BY <3>2, <3>4, <1>7
            <4> QED
                BY <4>1, <1>10
        <3>5. ~Intact => ~Intact' /\ Len(archive') = a
            BY <1>4, <1>7, <1>10
        <3>6. /\ Start(i) + 1 \in Nat \ {0} /\ Start(i) + 2 \in Nat \ {0}
              /\ \A j \in 1 .. Len(visited[i].path) : Start(i) + 2 + j \in Nat \ {0}
              /\ DataStart(i) \in Nat \ {0}
            <4>1. Start(i) \in Nat /\ DataStart(i) \in Nat /\ Start(i) + 3 <= DataStart(i)
                BY <3>2
            <4>2. DataStart(i) \in Nat \ {0} /\ Start(i) + 1 \in Nat \ {0} /\ Start(i) + 2 \in Nat \ {0}
                BY <4>1
            <4>3. \A j \in 1 .. Len(visited[i].path) : j \in Nat
                BY <3>2
            <4>4. \A j \in Nat : Start(i) + 2 + j \in Nat \ {0}
                BY <4>1
            <4> QED
                BY <4>2, <4>3, <4>4
        <3>7. DataStart(i) <= Stop(i) =>
               /\ archive'[DataStart(i)].field = "compressed_length"
               /\ \/ archive'[DataStart(i)].value = Stop(i) - DataStart(i)
                  \/ /\ archive'[DataStart(i)].value = 0
                     /\ Stop(i) = Len(archive')
                     /\ ~Intact'
            BY <3>1, <3>4, <3>5, <3>6, <1>1 DEF HeaderAt
        <3>8. /\ Start(i) + 1 <= Stop(i) => archive'[Start(i) + 1] =
                     Unit("type", IF NodeKind(i) = "directory" THEN "directory" ELSE "file")
              /\ Start(i) + 2 <= Stop(i) =>
                     archive'[Start(i) + 2] = Unit("path_length", Len(visited[i].path))
            BY <3>1, <3>4, <3>6 DEF HeaderAt
        <3>9. \A j \in 1 .. Len(visited[i].path) :
                  Start(i) + 2 + j <= Stop(i) =>
                      archive'[Start(i) + 2 + j] = Unit("name", visited[i].path[j])
            BY <3>1, <3>4, <3>6 DEF HeaderAt
        <3> QED
            BY <3>3, <3>7, <3>8, <3>9 DEF HeaderAt
    <2>2. HeaderAt(n + 1)'
        <3>1. /\ visited'[n + 1].path = path /\ NodeKind(n + 1)' = tree[node].kind
              /\ Start(n + 1)' = a /\ Stop(n + 1)' = a + k
              /\ DataStart(n + 1)' = a + 3 + Len(path)
            BY <1>8, <1>10
        <3>2. a + 1 <= a + k => archive'[a + 1] = Unit("type", kind)
            BY <1>2, <1>5, <1>7, <1>10
        <3>3. a + 2 <= a + k => archive'[a + 2] = Unit("path_length", Len(path))
            BY <1>2, <1>5, <1>7, <1>10
        <3>4. ASSUME NEW j \in 1 .. Len(path), a + 2 + j <= a + k
              PROVE  archive'[a + 2 + j] = Unit("name", path[j])
            <4>1. 2 + j \in 1 .. k /\ a + 2 + j = a + (2 + j)
                BY <3>4, <1>2, <1>5, <1>7
            <4> QED
                BY <4>1, <1>2, <1>10
        <3>5. ASSUME a + 3 + Len(path) <= a + k
              PROVE  /\ archive'[a + 3 + Len(path)].field = "compressed_length"
                     /\ archive'[a + 3 + Len(path)].value = (a + k) - (a + 3 + Len(path))
            <4>1. k = 3 + Len(path) /\ k \in 1 .. k /\ a + 3 + Len(path) = a + k
                BY <3>5, <1>2, <1>5, <1>7
            <4>2. archive'[a + k] = Unit("compressed_length", 0)
                BY <4>1, <1>2, <1>10
            <4>3. (a + k) - (a + 3 + Len(path)) = 0
                BY <4>1, <1>2, <1>5, <1>7
            <4> QED
                BY <4>1, <4>2, <4>3, UnitsAre
        <3> QED
            BY <3>1, <3>2, <3>3, <3>4, <3>5 DEF HeaderAt
    <2> QED
        BY <2>1, <2>2, <1>12 DEF HeaderKept
<1>16. DataOf(n + 1)' = <<>>
    <2>1. DataOf(n + 1)' = SubSeq(archive', a + 3 + Len(path) + 1, a + k)
        BY <1>10 DEF DataOf
    <2>2. /\ a + 3 + Len(path) + 1 \in Int /\ a + k \in Int
          /\ a + k < a + 3 + Len(path) + 1
        BY <1>2, <1>5, <1>7
    <2> QED
        BY <2>1, <2>2, SubSeqEmpty
<1>17. \A p : Content(p)' = Content(p) /\ (FillsLastChunk(p)' <=> FillsLastChunk(p))
    BY DEF Content, FillsLastChunk
<1>18. DataKept'
    <2>1. ASSUME NEW i \in 1 .. n PROVE DataAt(i)'
        <3>1. DataAt(i) /\ ~IsOpen(i)
            BY <1>1 DEF DataKept, IsOpen
        <3>2. /\ visited'[i] = visited[i] /\ NodeKind(i)' = NodeKind(i)
              /\ DataOf(i)' = DataOf(i)
            BY <1>10
        <3>3. Intact' => Intact
            BY <1>4
        <3> QED
            BY <3>1, <3>2, <3>3, <1>17 DEF DataAt
    <2>2. DataAt(n + 1)'
        <3>1. visited'[n + 1].node = node /\ NodeKind(n + 1)' = tree[node].kind
            BY <1>8, <1>10
        <3>2. Content(node) \in Seq(FileBytes) /\ (tree[node].kind # "file" => Content(node) = <<>>)
            BY ContentIs DEF LayoutType
        <3>3. tree[node].kind = "file" => IsOpen(n + 1)'
            BY <1>10 DEF IsOpen
        <3> QED
            BY <3>1, <3>2, <3>3, <1>16, <1>17, NoUnits DEF DataAt
    <2> QED
        BY <2>1, <2>2, <1>12 DEF DataKept
<1>19. ASSUME pc' = "compress", Intact'
       PROVE  /\ file'.pos = DataStart(n + 1)' - 1
              /\ file'.bytes_written = Stop(n + 1)' - DataStart(n + 1)'
              /\ archive'[DataStart(n + 1)'].value = 0
    <2>1. k = 3 + Len(path) /\ k \in 1 .. k
        BY <1>19, <1>2, <1>4
    <2>2. archive'[a + k] = Unit("compressed_length", 0)
        BY <2>1, <1>2, <1>10
    <2>3. a + 3 + Len(path) = a + k /\ DataStart(n + 1)' = a + k /\ Stop(n + 1)' = a + k
        BY <2>1, <1>2, <1>7, <1>10
    <2>4. file'.pos = a + k - 1 /\ file'.bytes_written = 0
        <3>1. file'.pos = put + Len(header) - 1 /\ file'.bytes_written = 0
            BY <1>19 DEF header
        <3>2. put = a /\ Len(header) = k
            BY <1>2, <1>3, <2>1
        <3> QED
            BY <3>1, <3>2
    <2> QED
        BY <2>2, <2>3, <2>4, <1>5, <1>7, UnitsAre
<1>20. Compressing'
    <2> SUFFICES ASSUME pc' = "compress" PROVE Compressing'
        BY DEF Compressing
    <2>1. /\ visited' # <<>> /\ Len(visited') = n + 1 /\ NodeKind(n + 1)' = "file"
          /\ visited'[n + 1].node = node
        <3>1. visited' # <<>>
            BY <1>7, <1>10
        <3> QED
            BY <3>1, <1>8, <1>10
    <2>2. file'.rest = Content(node) /\ cctx' = NewCCtx
        OBVIOUS
    <2>3. /\ cctx'.owed = <<>> /\ cctx'.held = <<>> /\ cctx'.begun = FALSE
        BY <2>2 DEF NewCCtx
    <2>4. DataOf(n + 1)' \o cctx'.owed = <<>>
        BY <2>3, <1>16
    <2>5. Content(node) \in Seq(FileBytes) /\ Len(Content(node)) = tree[node].size
          /\ tree[node].size \in Nat
        BY ContentIs, TreeIs DEF LayoutType
    <2>6. (Decompressed(<<>>) \o cctx'.held) \o file'.rest = Content(node)
        BY <2>2, <2>3, <2>5, OutOfNone, WholeOf, EmptySeq
    <2>7. \E q \in 0 .. tree[node].size : tree[node].size = q * READ_SIZE + Len(file'.rest)
        <3>1. tree[node].size = 0 * READ_SIZE + Len(file'.rest) /\ 0 \in 0 .. tree[node].size
            BY <2>2, <2>5, ArchiveAssumption
        <3> QED
            BY <3>1
    <2> QED
        BY <2>1, <2>3, <2>4, <2>6, <2>7, <1>17, <1>19, NoUnits DEF Compressing
<1>21. LayoutType'
    BY <1>10 DEF LayoutType
<1>22. put' \in 0 .. Len(archive')
    BY <1>4, <1>5, <1>7, <1>10
<1> QED
    BY <1>4, <1>13, <1>15, <1>18, <1>20, <1>21, <1>22

\* What a step that writes nothing leaves as it is.
LEMMA SameEntries ==
    ASSUME visited' = visited, archive' = archive, tree' = tree
    PROVE  /\ \A i : /\ Start(i)' = Start(i) /\ Stop(i)' = Stop(i)
                     /\ DataStart(i)' = DataStart(i) /\ DataOf(i)' = DataOf(i)
                     /\ NodeKind(i)' = NodeKind(i)
           /\ \A p : Content(p)' = Content(p) /\ (FillsLastChunk(p)' <=> FillsLastChunk(p))
<1>1. \A i : /\ Start(i)' = Start(i) /\ DataStart(i)' = DataStart(i) /\ NodeKind(i)' = NodeKind(i)
    BY DEF Start, DataStart, NodeKind
<1>2. \A i : Stop(i)' = Stop(i)
    BY <1>1 DEF Stop
<1>3. \A i : DataOf(i)' = DataOf(i)
    BY <1>1, <1>2 DEF DataOf
<1>4. \A p : Content(p)' = Content(p) /\ (FillsLastChunk(p)' <=> FillsLastChunk(p))
    BY DEF Content, FillsLastChunk
<1> QED
    BY <1>1, <1>2, <1>3, <1>4

\* A step that leaves the archive and the entries alone leaves them in order.
LEMMA SameLayout ==
    ASSUME LayoutType, Sequenced, HeaderKept, DataKept,
           visited' = visited, archive' = archive, put' = put, tree' = tree,
           Intact' <=> Intact, pc # "compress", pc' # "compress"
    PROVE  LayoutType' /\ Sequenced' /\ HeaderKept' /\ DataKept' /\ Compressing'
<1>1. /\ \A i : /\ Start(i)' = Start(i) /\ Stop(i)' = Stop(i)
                /\ DataStart(i)' = DataStart(i) /\ DataOf(i)' = DataOf(i)
                /\ NodeKind(i)' = NodeKind(i)
      /\ \A p : Content(p)' = Content(p) /\ (FillsLastChunk(p)' <=> FillsLastChunk(p))
    BY SameEntries
<1>2. \A i : ~IsOpen(i) /\ ~IsOpen(i)'
    BY DEF IsOpen
<1>3. LayoutType'
    BY DEF LayoutType
<1>4. Sequenced'
    BY <1>1 DEF Sequenced
<1>5. ASSUME NEW i \in 1 .. Len(visited) PROVE HeaderAt(i)'
    <2>1. HeaderAt(i)
        BY DEF HeaderKept
    <2> QED
        BY <2>1, <1>1, <1>2 DEF HeaderAt
<1>6. ASSUME NEW i \in 1 .. Len(visited) PROVE DataAt(i)'
    <2>1. DataAt(i)
        BY DEF DataKept
    <2> QED
        BY <2>1, <1>1, <1>2 DEF DataAt
<1> QED
    BY <1>3, <1>4, <1>5, <1>6 DEF HeaderKept, DataKept, Compressing

-----------------------------------------------------------------------------
(* Filling in the length *)

\* One unit written over another changes that one only.
LEMMA Patched ==
    ASSUME archive \in Seq(Units), NEW at \in Nat, at < Len(archive), NEW unit \in Units,
           archive' = Overwrite(at, <<unit>>)
    PROVE  /\ archive' \in Seq(Units)
           /\ Len(archive') = Len(archive)
           /\ archive'[at + 1] = unit
           /\ \A j \in 1 .. Len(archive) : j # at + 1 => archive'[j] = archive[j]
<1>1. PICK before, one, after :
          /\ before = SubSeq(archive, 1, at) /\ one = <<unit>>
          /\ after = SubSeq(archive, at + 1 + 1, Len(archive))
    OBVIOUS
<1>2. one \in Seq(Units) /\ Len(one) = 1 /\ one[1] = unit
    BY <1>1
<1>3. Len(archive) \in Nat /\ at + 1 + 1 \in Nat \ {0} /\ 1 \in Nat \ {0} /\ at <= Len(archive)
    BY WholeOf
<1>4. /\ before \in Seq(Units) /\ Len(before) = at
      /\ \A j \in 1 .. at : before[j] = archive[j]
    <2>1. /\ before \in Seq(Units) /\ Len(before) = IF 1 <= at THEN at - 1 + 1 ELSE 0
          /\ \A j \in 1 .. at - 1 + 1 : before[j] = archive[1 + j - 1]
        BY <1>1, <1>3, PartOf
    <2> QED
        BY <2>1
<1>5. /\ after \in Seq(Units) /\ Len(after) = Len(archive) - (at + 1)
      /\ \A j \in 1 .. Len(archive) - (at + 1) : after[j] = archive[(at + 1) + j]
    <2>1. /\ after \in Seq(Units)
          /\ Len(after) = IF at + 1 + 1 <= Len(archive) THEN Len(archive) - (at + 1 + 1) + 1 ELSE 0
          /\ \A j \in 1 .. Len(archive) - (at + 1 + 1) + 1 : after[j] = archive[at + 1 + 1 + j - 1]
        BY <1>1, <1>3, PartOf
    <2> QED
        BY <2>1, <1>3
<1>6. archive' = (before \o one) \o after
    BY <1>1, <1>2 DEF Overwrite
<1>7. PICK start : start = before \o one
    OBVIOUS
<1>8. /\ start \in Seq(Units) /\ Len(start) = at + 1
      /\ \A j \in 1 .. at : start[j] = archive[j]
      /\ start[at + 1] = unit
    <2>1. /\ start \in Seq(Units) /\ Len(start) = Len(before) + Len(one)
          /\ \A j \in 1 .. Len(before) : start[j] = before[j]
          /\ \A j \in 1 .. Len(one) : start[Len(before) + j] = one[j]
        BY <1>2, <1>4, <1>7, Joined
    <2> QED
        BY <2>1, <1>2, <1>4
<1>9. /\ archive' \in Seq(Units) /\ Len(archive') = Len(start) + Len(after)
      /\ \A j \in 1 .. Len(start) : archive'[j] = start[j]
      /\ \A j \in 1 .. Len(after) : archive'[Len(start) + j] = after[j]
    <2>1. start \in Seq(Units) /\ after \in Seq(Units)
        BY <1>5, <1>8
    <2>2. /\ start \o after \in Seq(Units) /\ Len(start \o after) = Len(start) + Len(after)
          /\ \A j \in 1 .. Len(start) : (start \o after)[j] = start[j]
          /\ \A j \in 1 .. Len(after) : (start \o after)[Len(start) + j] = after[j]
        BY <2>1, Joined
    <2>3. archive' = start \o after
        BY <1>6, <1>7
    <2> QED
        BY <2>2, <2>3
<1>10. archive'[at + 1] = unit
    BY <1>8, <1>9
<1>11. ASSUME NEW j \in 1 .. Len(archive), j # at + 1 PROVE archive'[j] = archive[j]
    <2>1. CASE j <= at
        BY <2>1, <1>8, <1>9
    <2>2. CASE j > at + 1
        <3>1. /\ j - (at + 1) \in 1 .. Len(after)
              /\ j = (at + 1) + (j - (at + 1))
            BY <2>2, <1>3, <1>5
        <3>2. archive'[(at + 1) + (j - (at + 1))] = after[j - (at + 1)]
            BY <3>1, <1>8, <1>9
        <3>3. after[j - (at + 1)] = archive[(at + 1) + (j - (at + 1))]
            BY <3>1, <1>5
        <3> QED
            BY <3>1, <3>2, <3>3
    <2> QED
        BY <1>11, <2>1, <2>2
<1>12. Len(archive') = Len(archive)
    BY <1>3, <1>5, <1>8, <1>9
<1> QED
    BY <1>9, <1>10, <1>11, <1>12

\* The file being compressed is the last entry.
LEMMA OpenEntry ==
    ASSUME LayoutType, Sequenced, Compressing, pc = "compress"
    PROVE  /\ Len(visited) \in 1 .. Len(visited) /\ NodeKind(Len(visited)) = "file"
           /\ visited[Len(visited)].node \in DOMAIN tree
           /\ Stop(Len(visited)) = Len(archive)
           /\ Intact => DataStart(Len(visited)) <= Len(archive)
<1>1. visited # <<>> /\ NodeKind(Len(visited)) = "file"
    BY DEF Compressing
<1>2. Len(visited) \in Nat /\ Len(visited) # 0
    BY <1>1, WholeOf DEF LayoutType
<1>3. Len(visited) \in 1 .. Len(visited)
    BY <1>2
<1>4. Stop(Len(visited)) = Len(archive)
    BY <1>2 DEF Stop
<1>5. Intact => DataStart(Len(visited)) <= Len(archive)
    BY <1>3, <1>4 DEF Sequenced
<1>6. visited[Len(visited)].node \in DOMAIN tree
    BY <1>3, LayoutTypes
<1> QED
    BY <1>1, <1>3, <1>4, <1>5, <1>6

\* The compressed data of an entry, unit by unit.
LEMMA DataIs ==
    ASSUME LayoutType, Sequenced, NEW i \in 1 .. Len(visited)
    PROVE  /\ DataOf(i) \in Seq(Units)
           /\ Len(DataOf(i)) = IF DataStart(i) <= Stop(i) THEN Stop(i) - DataStart(i) ELSE 0
           /\ \A j \in 1 .. Stop(i) - DataStart(i) : DataOf(i)[j] = archive[DataStart(i) + j]
<1>1. PICK from, to : from = DataStart(i) + 1 /\ to = Stop(i)
    OBVIOUS
<1>2. /\ from \in Nat \ {0} /\ to \in Nat /\ to <= Len(archive)
      /\ DataStart(i) \in Nat /\ archive \in Seq(Units)
    BY <1>1, LayoutTypes DEF LayoutType
<1>3. /\ SubSeq(archive, from, to) \in Seq(Units)
      /\ Len(SubSeq(archive, from, to)) = IF from <= to THEN to - from + 1 ELSE 0
      /\ \A j \in 1 .. to - from + 1 : SubSeq(archive, from, to)[j] = archive[from + j - 1]
    <2>1. SubSeq(archive, from, to) \in Seq(Units)
        BY <1>2, PartOf
    <2>2. Len(SubSeq(archive, from, to)) = IF from <= to THEN to - from + 1 ELSE 0
        BY <1>2, PartOf
    <2>3. \A j \in 1 .. to - from + 1 : SubSeq(archive, from, to)[j] = archive[from + j - 1]
        BY <1>2, PartOf
    <2> QED
        BY <2>1, <2>2, <2>3
<1>4. DataOf(i) = SubSeq(archive, from, to)
    BY <1>1 DEF DataOf
<1>5. Len(DataOf(i)) = IF DataStart(i) <= Stop(i) THEN Stop(i) - DataStart(i) ELSE 0
    <2>1. (IF from <= to THEN to - from + 1 ELSE 0)
              = IF DataStart(i) <= Stop(i) THEN Stop(i) - DataStart(i) ELSE 0
        BY <1>1, <1>2
    <2> QED
        BY <2>1, <1>3, <1>4
<1>6. ASSUME NEW j \in 1 .. Stop(i) - DataStart(i)
      PROVE  DataOf(i)[j] = archive[DataStart(i) + j]
    <2>1. j \in 1 .. to - from + 1 /\ from + j - 1 = DataStart(i) + j
        BY <1>1, <1>2
    <2> QED
        BY <2>1, <1>3, <1>4
<1> QED
    BY <1>3, <1>4, <1>5, <1>6

\* What was compressed is whole once the file is at its end, unless it fills
\* its last chunk.
LEMMA AllCompressed ==
    ASSUME LayoutType, Sequenced, Compressing, pc = "compress", Intact, file.rest = <<>>,
           NEW n, n = Len(visited), ~FillsLastChunk(visited[n].node)
    PROVE  Decompressed(DataOf(n)) = Content(visited[n].node)
<1>1. /\ cctx.held = <<>> /\ cctx.owed = <<>>
      /\ (Decompressed(DataOf(n) \o cctx.owed) \o cctx.held) \o file.rest = Content(visited[n].node)
    BY DEF Compressing
<1>2. n \in 1 .. Len(visited)
    BY OpenEntry
<1>3. DataOf(n) \in Seq(Units)
    BY <1>2, DataIs
<1>4. DataOf(n) \o <<>> = DataOf(n)
    BY <1>3, WholeOf
<1>5. Decompressed(DataOf(n)) \in Seq(FileBytes)
    BY <1>3, OutTyped
<1>6. (Decompressed(DataOf(n)) \o <<>>) \o <<>> = Decompressed(DataOf(n))
    BY <1>5, WholeOf
<1> QED
    BY <1>1, <1>4, <1>6

\* addFile returning: the length goes into its own header and nowhere else.
LEMMA FillInKeepsLayout ==
    ASSUME LayoutType, Sequenced, HeaderKept, DataKept, Compressing,
           file.bytes_written \in Nat, AddFileReturns
    PROVE  /\ LayoutType' /\ put' \in 0 .. Len(archive')
           /\ Sequenced' /\ HeaderKept' /\ DataKept' /\ Compressing'
<1>1. /\ pc = "compress" /\ pc' = "pack" /\ file.rest = <<>>
      /\ tree' = tree /\ visited' = visited /\ happened' = happened /\ (Intact' <=> Intact)
    BY DEF AddFileReturns, packVars, Intact
<1>2. PICK n, a : n = Len(visited) /\ a = Len(archive)
    OBVIOUS
<1>3. /\ n \in 1 .. n /\ NodeKind(n) = "file" /\ n \in Nat /\ a \in Nat
      /\ visited[n].node \in DOMAIN tree
      /\ Stop(n) = a /\ (Intact => DataStart(n) <= a)
    BY <1>1, <1>2, OpenEntry, LayoutTypes
<1>4. \A i \in 1 .. n :
           /\ visited[i].path \in Seq(Names) /\ Len(visited[i].path) \in Nat
           /\ Start(i) \in Nat /\ Stop(i) \in Nat /\ DataStart(i) \in Nat
           /\ Start(i) + 3 <= DataStart(i)
           /\ Start(i) <= Stop(i) /\ Stop(i) <= a
           /\ DataStart(i) = Start(i) + 3 + Len(visited[i].path)
    BY <1>2, LayoutTypes
<1>5. \A i : ~IsOpen(i)'
    BY <1>1 DEF IsOpen
<1>6. Compressing'
    BY <1>1 DEF Compressing
<1>7. \A i \in 1 .. n : i # n => ~IsOpen(i)
    BY <1>2 DEF IsOpen
<1>8. CASE ~Intact
    <2>1. archive' = archive /\ put' = put
        BY <1>8 DEF AddFileReturns, Intact
    <2>2. /\ \A i : /\ Start(i)' = Start(i) /\ Stop(i)' = Stop(i)
                    /\ DataStart(i)' = DataStart(i) /\ DataOf(i)' = DataOf(i)
                    /\ NodeKind(i)' = NodeKind(i)
          /\ \A p : Content(p)' = Content(p) /\ (FillsLastChunk(p)' <=> FillsLastChunk(p))
        BY <1>1, <2>1, SameEntries
    <2>3. LayoutType'
        BY <1>1, <2>1 DEF LayoutType
    <2>4. Sequenced'
        BY <1>1, <2>1, <2>2 DEF Sequenced
    <2>5. ASSUME NEW i \in 1 .. Len(visited) PROVE HeaderAt(i)'
        <3>1. HeaderAt(i)
            BY DEF HeaderKept
        <3> QED
            BY <3>1, <1>1, <1>8, <2>1, <2>2 DEF HeaderAt
    <2>6. ASSUME NEW i \in 1 .. Len(visited) PROVE DataAt(i)'
        <3>1. DataAt(i)
            BY DEF DataKept
        <3> QED
            BY <3>1, <1>1, <1>8, <2>2 DEF DataAt
    <2>7. put' \in 0 .. Len(archive')
        BY <1>2, <1>3, <2>1 DEF Sequenced
    <2> QED
        BY <1>1, <1>6, <2>3, <2>4, <2>5, <2>6, <2>7 DEF HeaderKept, DataKept
<1>9. CASE Intact
    <2>1. PICK at, unit : at = file.pos /\ unit = Unit("compressed_length", file.bytes_written)
        OBVIOUS
    <2>2. archive' = Overwrite(at, <<unit>>) /\ put' = a
        BY <1>2, <1>9, <2>1 DEF AddFileReturns, Intact, WriteCompressedLength, SeekEnd
    <2>3. /\ at = DataStart(n) - 1 /\ file.bytes_written = Stop(n) - DataStart(n)
        BY <1>1, <1>2, <1>9, <2>1 DEF Compressing
    <2>4. at \in Nat /\ at + 1 = DataStart(n) /\ at < a
        <3>1. PICK d \in Nat, s \in Nat : d = DataStart(n) /\ s = Start(n) /\ s + 3 <= d
            BY <1>3, <1>4
        <3>2. at = d - 1 /\ d <= a /\ a \in Nat
            BY <3>1, <2>3, <1>3, <1>9
        <3>3. at \in Nat /\ at + 1 = d /\ at < a
            BY <3>1, <3>2
        <3> QED
            BY <3>1, <3>3
    <2>5. unit \in Units /\ unit.field = "compressed_length" /\ unit.value = Stop(n) - DataStart(n)
        BY <2>1, <2>3, UnitsAre
    <2>6. /\ archive' \in Seq(Units) /\ Len(archive') = a
          /\ archive'[DataStart(n)] = unit
          /\ \A j \in 1 .. a : j # DataStart(n) => archive'[j] = archive[j]
        <3>1. archive \in Seq(Units) /\ at < Len(archive)
            BY <1>2, <2>4 DEF LayoutType
        <3>2. /\ archive' \in Seq(Units) /\ Len(archive') = Len(archive)
              /\ archive'[at + 1] = unit
              /\ \A j \in 1 .. Len(archive) : j # at + 1 => archive'[j] = archive[j]
            BY <2>2, <2>4, <2>5, <3>1, Patched
        <3> QED
            BY <3>2, <2>4, <1>2
    <2>7. /\ \A i : /\ Start(i)' = Start(i) /\ DataStart(i)' = DataStart(i)
                    /\ NodeKind(i)' = NodeKind(i) /\ Stop(i)' = Stop(i)
        <3>1. \A i : Start(i)' = Start(i) /\ DataStart(i)' = DataStart(i) /\ NodeKind(i)' = NodeKind(i)
            BY <1>1 DEF Start, DataStart, NodeKind
        <3>2. \A i : Stop(i)' = Stop(i)
            BY <3>1, <1>1, <1>2, <2>6 DEF Stop
        <3> QED
            BY <3>1, <3>2
    <2>8. \A i \in 1 .. n : i # n => Stop(i) < DataStart(n)
        <3>1. ASSUME NEW i \in 1 .. n, i # n PROVE Stop(i) < DataStart(n)
            <4>1. n \in i + 1 .. n
                BY <3>1, <1>3
            <4>2. Stop(i) <= Start(n)
                BY <4>1, <1>2 DEF Sequenced
            <4> QED
                BY <4>2, <1>3, <1>4
        <3> QED
            BY <3>1
    <2>9. ASSUME NEW i \in 1 .. n PROVE DataOf(i)' = DataOf(i)
        <3>1. DataOf(i)' = SubSeq(archive', DataStart(i) + 1, Stop(i))
            BY <2>7 DEF DataOf
        <3>2. /\ DataStart(i) + 1 \in Nat \ {0} /\ Stop(i) \in Nat
              /\ Stop(i) <= Len(archive) /\ Stop(i) <= Len(archive')
            BY <1>2, <1>4, <2>6
        <3>3. ASSUME NEW j \in DataStart(i) + 1 .. Stop(i) PROVE archive'[j] = archive[j]
            <4>0. DataStart(i) < j /\ j <= Stop(i) /\ j \in Int
                BY <1>4
            <4>1. j # DataStart(n)
                <5>1. CASE i = n
                    BY <5>1, <4>0, <1>3, <1>4
                <5>2. CASE i # n
                    BY <5>2, <4>0, <2>8, <1>3, <1>4
                <5> QED
                    BY <5>1, <5>2
            <4>2. j \in 1 .. a
                <5>1. DataStart(i) \in Nat /\ Stop(i) \in Nat /\ Stop(i) <= a /\ a \in Nat
                    BY <1>3, <1>4
                <5> QED
                    BY <5>1, <4>0
            <4> QED
                BY <4>1, <4>2, <2>6
        <3>4. archive \in Seq(Units) /\ archive' \in Seq(Units)
            BY <2>6 DEF LayoutType
        <3>5. SubSeq(archive', DataStart(i) + 1, Stop(i)) = SubSeq(archive, DataStart(i) + 1, Stop(i))
            BY <3>2, <3>3, <3>4, SamePart
        <3> QED
            BY <3>1, <3>5 DEF DataOf
    <2>10. \A p : Content(p)' = Content(p) /\ (FillsLastChunk(p)' <=> FillsLastChunk(p))
        BY <1>1 DEF Content, FillsLastChunk
    <2>11. LayoutType'
        BY <1>1, <2>6 DEF LayoutType
    <2>12. put' \in 0 .. Len(archive')
        BY <1>3, <2>2, <2>6
    <2>13. Sequenced'
        <3>1. archive = <<>> => archive' = <<>>
            BY <1>2, <2>4, <1>3
        <3> QED
            BY <3>1, <1>1, <1>2, <2>2, <2>6, <2>7 DEF Sequenced
    <2>14. ASSUME NEW i \in 1 .. n PROVE HeaderAt(i)'
        <3>1. HeaderAt(i)
            BY <1>2 DEF HeaderKept
        <3>2. ASSUME NEW j \in Nat, Start(i) < j, j < DataStart(i), j <= Stop(i)
              PROVE  archive'[j] = archive[j]
            <4>2. j # DataStart(n)
                <5>1. CASE i = n
                    BY <5>1, <3>2, <1>3, <1>4
                <5>2. CASE i # n
                    BY <5>2, <3>2, <2>8, <1>3, <1>4
                <5> QED
                    BY <5>1, <5>2
            <4>1. j \in 1 .. a /\ j # DataStart(n)
                BY <3>2, <4>2, <1>3, <1>4
            <4> QED
                BY <4>1, <2>6
        <3>3. /\ Start(i) + 1 \in Nat /\ Start(i) < Start(i) + 1 /\ Start(i) + 1 < DataStart(i)
              /\ Start(i) + 2 \in Nat /\ Start(i) < Start(i) + 2 /\ Start(i) + 2 < DataStart(i)
            BY <1>4
        <3>4. ASSUME NEW j \in 1 .. Len(visited[i].path)
              PROVE  /\ Start(i) + 2 + j \in Nat /\ Start(i) < Start(i) + 2 + j
                     /\ Start(i) + 2 + j < DataStart(i)
            <4>1. PICK from \in Nat, d \in Nat, l \in Nat :
                      from = Start(i) /\ d = DataStart(i) /\ l = Len(visited[i].path)
                BY <1>4
            <4>2. d = from + 3 + l
                BY <4>1, <1>4
            <4>3. j \in 1 .. l
                BY <4>1
            <4>4. from + 2 + j \in Nat /\ from < from + 2 + j /\ from + 2 + j < d
                BY <4>2, <4>3
            <4> QED
                BY <4>1, <4>4
        <3>5. DataStart(i) <= Stop(i) =>
               /\ archive'[DataStart(i)].field = "compressed_length"
               /\ archive'[DataStart(i)].value = Stop(i) - DataStart(i)
            <4>1. CASE i = n
                BY <4>1, <2>5, <2>6
            <4>2. CASE i # n
                <5>1. ~IsOpen(i)
                    BY <4>2, <1>7
                <5>2. DataStart(i) <= Stop(i) =>
                          DataStart(i) \in 1 .. a /\ DataStart(i) # DataStart(n)
                    <6>1. PICK d \in Nat, s \in Nat, e \in Nat, st \in Nat :
                              /\ d = DataStart(i) /\ s = Stop(i) /\ e = DataStart(n)
                              /\ st = Start(i)
                        BY <1>3, <1>4
                    <6>2. st + 3 <= d /\ s <= a /\ s < e /\ a \in Nat
                        BY <6>1, <4>2, <1>3, <1>4, <2>8
                    <6>3. d <= s => d \in 1 .. a /\ d # e
                        BY <6>2
                    <6> QED
                        BY <6>1, <6>3
                <5>3. DataStart(i) <= Stop(i) => archive'[DataStart(i)] = archive[DataStart(i)]
                    BY <5>2, <2>6
                <5> QED
                    BY <5>1, <5>3, <3>1, <1>9 DEF HeaderAt
            <4> QED
                BY <4>1, <4>2
        <3>6. /\ Start(i) + 1 <= Stop(i) => archive'[Start(i) + 1] =
                     Unit("type", IF NodeKind(i) = "directory" THEN "directory" ELSE "file")
              /\ Start(i) + 2 <= Stop(i) =>
                     archive'[Start(i) + 2] = Unit("path_length", Len(visited[i].path))
            BY <3>1, <3>2, <3>3 DEF HeaderAt
        <3>7. \A j \in 1 .. Len(visited[i].path) :
                  Start(i) + 2 + j <= Stop(i) =>
                      archive'[Start(i) + 2 + j] = Unit("name", visited[i].path[j])
            BY <3>1, <3>2, <3>4 DEF HeaderAt
        <3> QED
            BY <3>5, <3>6, <3>7, <2>7, <1>1 DEF HeaderAt
    <2>15. ASSUME NEW i \in 1 .. n PROVE DataAt(i)'
        <3>1. DataAt(i)
            BY <1>2 DEF DataKept
        <3>2. CASE i = n
            <4>1. \/ Decompressed(DataOf(n)) = Content(visited[n].node)
                  \/ FillsLastChunk(visited[n].node)
                BY <1>1, <1>2, <1>9, AllCompressed
            <4> QED
                BY <3>1, <3>2, <4>1, <1>1, <2>7, <2>9, <2>10 DEF DataAt
        <3>3. CASE i # n
            <4>1. ~IsOpen(i)
                BY <3>3, <1>7
            <4> QED
                BY <3>1, <4>1, <1>1, <2>7, <2>9, <2>10 DEF DataAt
        <3> QED
            BY <3>2, <3>3
    <2> QED
        BY <1>1, <1>2, <1>6, <2>11, <2>12, <2>13, <2>14, <2>15 DEF HeaderKept, DataKept
<1> QED
    BY <1>8, <1>9

-----------------------------------------------------------------------------
(* Compressed data *)

\* A sequence cut in two.
LEMMA BeginningOf ==
    ASSUME NEW X, NEW whole \in Seq(X), NEW m \in 0 .. Len(whole)
    PROVE  /\ SubSeq(whole, 1, m) \in Seq(X)
           /\ Len(SubSeq(whole, 1, m)) = m
           /\ \A j \in 1 .. m : SubSeq(whole, 1, m)[j] = whole[j]
           /\ SubSeq(whole, m + 1, Len(whole)) \in Seq(X)
           /\ Len(SubSeq(whole, m + 1, Len(whole))) = Len(whole) - m
           /\ SubSeq(whole, 1, m) \o SubSeq(whole, m + 1, Len(whole)) = whole
<1>1. Len(whole) \in Nat /\ m \in Nat /\ m <= Len(whole) /\ m + 1 \in Nat \ {0} /\ 1 \in Nat \ {0}
    BY LenProperties
<1>2. SubSeq(whole, 1, m) \in Seq(X)
    BY <1>1, PartOf
<1>3. Len(SubSeq(whole, 1, m)) = m
    <2>1. Len(SubSeq(whole, 1, m)) = IF 1 <= m THEN m - 1 + 1 ELSE 0
        BY <1>1, PartOf
    <2> QED
        BY <2>1, <1>1
<1>4. ASSUME NEW j \in 1 .. m PROVE SubSeq(whole, 1, m)[j] = whole[j]
    <2>1. \A i \in 1 .. m - 1 + 1 : SubSeq(whole, 1, m)[i] = whole[1 + i - 1]
        BY <1>1, PartOf
    <2> QED
        BY <2>1, <1>1
<1>5. SubSeq(whole, m + 1, Len(whole)) \in Seq(X)
    BY <1>1, PartOf
<1>6. Len(SubSeq(whole, m + 1, Len(whole))) = Len(whole) - m
    <2>1. Len(SubSeq(whole, m + 1, Len(whole))) =
              IF m + 1 <= Len(whole) THEN Len(whole) - (m + 1) + 1 ELSE 0
        BY <1>1, PartOf
    <2> QED
        BY <2>1, <1>1
<1>7. SubSeq(whole, 1, m) \o SubSeq(whole, m + 1, Len(whole)) = whole
    <2>1. 1 \in 1 .. Len(whole) + 1 /\ m \in 1 - 1 .. Len(whole) /\ Len(whole) \in m .. Len(whole)
        BY <1>1
    <2>2. SubSeq(whole, 1, m) \o SubSeq(whole, m + 1, Len(whole)) = SubSeq(whole, 1, Len(whole))
        BY <2>1, ConcatAdjacentSubSeq
    <2> QED
        BY <2>2, SubSeqFull
<1> QED
    BY <1>2, <1>3, <1>4, <1>5, <1>6, <1>7

\* What comes first is a prefix.
LEMMA PrefixOfJoined ==
    ASSUME NEW before \in Seq(FileBytes), NEW after \in Seq(FileBytes)
    PROVE  IsPrefix(before, before \o after)
<1>1. /\ before \o after \in Seq(FileBytes) /\ Len(before) \in Nat /\ Len(after) \in Nat
      /\ Len(before \o after) = Len(before) + Len(after)
      /\ \A j \in 1 .. Len(before) : (before \o after)[j] = before[j]
    BY Joined
<1>2. PICK both : both = before \o after
    OBVIOUS
<1>3. SubSeq(before, 1, Len(before)) = SubSeq(both, 1, Len(before))
    <2>1. /\ both \in Seq(FileBytes) /\ Len(before) <= Len(both) /\ Len(before) <= Len(before)
          /\ 1 \in Nat \ {0} /\ \A j \in 1 .. Len(before) : before[j] = both[j]
        BY <1>1, <1>2
    <2> QED
        BY <2>1, <1>1, SamePart
<1>4. Len(before) <= Len(both)
    BY <1>1, <1>2
<1> QED
    BY <1>2, <1>3, <1>4 DEF IsPrefix

\* The beginning of a frame decompresses to the beginning of its content.
LEMMA FrameBegun ==
    ASSUME NEW p \in Seq(Units), NEW q \in Seq(Units), NEW units, units = p \o q, Framed(units),
           NEW rest \in Seq(FileBytes)
    PROVE  Framed(p) /\ IsPrefix(Decompressed(p), Decompressed(units) \o rest)
<1>1. PICK m : m = Len(p)
    OBVIOUS
<1>2. /\ m \in Nat /\ Len(q) \in Nat /\ Len(units) = m + Len(q)
      /\ \A j \in 1 .. m : p[j] = units[j]
    BY <1>1, Joined
<1>3. Len(units) \in Nat
    BY <1>2
<1>4. Framed(p)
    <2>1. ASSUME NEW j \in 1 .. m
          PROVE  p[j].field \in IF j = 1 THEN {"frame"}
                                ELSE IF j = m THEN {"block", "end"} ELSE {"block"}
        <3>1. j \in 1 .. Len(units) /\ p[j] = units[j] /\ (j = Len(units) => j = m)
            BY <1>2, <1>3
        <3>2. units[j].field \in IF j = 1 THEN {"frame"}
                                 ELSE IF j = Len(units) THEN {"block", "end"} ELSE {"block"}
            BY <3>1 DEF Framed
        <3> QED
            BY <3>1, <3>2
    <2> QED
        BY <2>1, <1>1 DEF Framed
<1>5. PICK x, y : x = Decompressed(p) /\ y = Decompressed(q)
    OBVIOUS
<1>6. x \in Seq(FileBytes) /\ y \in Seq(FileBytes) /\ y \o rest \in Seq(FileBytes)
    BY <1>2, <1>5, OutTyped, ConcatProperties
<1>7. Decompressed(units) \o rest = x \o (y \o rest)
    <2>1. Decompressed(units) = x \o y
        BY <1>2, <1>5, OutOfConcat
    <2>2. rest \in Seq(FileBytes)
        OBVIOUS
    <2>3. JoinedEitherWay(x, y, rest)
        BY <1>6, <2>2, BytesJoined
    <2> QED
        BY <2>1, <2>3, Zenon DEF JoinedEitherWay
<1> QED
    BY <1>4, <1>5, <1>6, <1>7, PrefixOfJoined

\* A frame that has not ended goes on with blocks, and may end.
LEMMA FrameGoesOn ==
    ASSUME NEW out \in Seq(Units), NEW new \in Seq(Units), NEW e_end \in BOOLEAN,
           Framed(out), out # <<>> => out[Len(out)].field # "end",
           \A j \in 1 .. Len(new) :
               new[j].field \in IF j = 1 /\ out = <<>> THEN {"frame"}
                                ELSE IF j = Len(new) /\ e_end THEN {"end"} ELSE {"block"}
    PROVE  /\ Framed(out \o new)
           /\ ~e_end /\ out \o new # <<>> => (out \o new)[Len(out \o new)].field # "end"
<1>1. PICK both : both = out \o new
    OBVIOUS
<1>2. /\ both \in Seq(Units) /\ Len(out) \in Nat /\ Len(new) \in Nat
      /\ Len(both) = Len(out) + Len(new)
      /\ \A j \in 1 .. Len(out) : both[j] = out[j]
      /\ \A j \in 1 .. Len(new) : both[Len(out) + j] = new[j]
    BY <1>1, Joined
<1>3. out = <<>> <=> Len(out) = 0
    BY WholeOf
<1>4. ASSUME NEW j \in 1 .. Len(out)
      PROVE  /\ both[j].field \in IF j = 1 THEN {"frame"} ELSE {"block"}
    <2>1. j \in 1 .. Len(out) /\ out # <<>> /\ both[j] = out[j]
        BY <1>2, <1>3
    <2>2. out[j].field \in IF j = 1 THEN {"frame"}
                           ELSE IF j = Len(out) THEN {"block", "end"} ELSE {"block"}
        BY DEF Framed
    <2> QED
        BY <2>1, <2>2
<1>5. ASSUME NEW j \in 1 .. Len(new)
      PROVE  both[Len(out) + j].field \in
                 IF Len(out) + j = 1 THEN {"frame"}
                 ELSE IF Len(out) + j = Len(both) /\ e_end THEN {"end"} ELSE {"block"}
    <2>1. /\ Len(out) + j = 1 <=> j = 1 /\ out = <<>>
          /\ Len(out) + j = Len(both) <=> j = Len(new)
        <3>1. Len(out) \in Nat /\ Len(new) \in Nat /\ Len(both) = Len(out) + Len(new) /\ j \in Int
              /\ j >= 1
            BY <1>2
        <3>4. PICK lo \in Nat, ln \in Nat : lo = Len(out) /\ ln = Len(new) /\ Len(both) = lo + ln
            BY <3>1
        <3>5. (lo + j = lo + ln) <=> (j = ln)
            BY <3>1
        <3>2. (Len(out) + j = Len(both)) <=> (j = Len(new))
            BY <3>4, <3>5
        <3>3. Len(out) + j = 1 <=> j = 1 /\ Len(out) = 0
            BY <3>1
        <3> QED
            BY <3>2, <3>3, <1>3
    <2>2. both[Len(out) + j] = new[j]
        BY <1>2
    <2> QED
        BY <2>1, <2>2
<1>6. ASSUME NEW j \in 1 .. Len(both)
      PROVE  both[j].field \in IF j = 1 THEN {"frame"}
                               ELSE IF j = Len(both) /\ e_end THEN {"block", "end"} ELSE {"block"}
    <2>1. CASE j <= Len(out)
        BY <2>1, <1>2, <1>4
    <2>2. CASE j > Len(out)
        <3>1. j - Len(out) \in 1 .. Len(new) /\ Len(out) + (j - Len(out)) = j
            BY <2>2, <1>2
        <3> QED
            BY <3>1, <1>5
    <2> QED
        BY <2>1, <2>2, <1>2
<1>7. Framed(both)
    BY <1>6 DEF Framed
<1>8. ~e_end /\ both # <<>> => both[Len(both)].field # "end"
    <2>1. both # <<>> => Len(both) \in 1 .. Len(both)
        BY <1>2, WholeOf
    <2> QED
        BY <2>1, <1>6
<1> QED
    BY <1>1, <1>7, <1>8

-----------------------------------------------------------------------------
(* A chunk is compressed *)

\* What a step does to the layout that adds more to the last entry.
EntryGrown(n, a, more) ==
    /\ archive' \in Seq(Units)
    /\ Len(more) \in Nat
    /\ Len(archive') = a + Len(more)
    /\ \A j \in 1 .. a : archive'[j] = archive[j]
    /\ \A i : Start(i)' = Start(i) /\ DataStart(i)' = DataStart(i) /\ NodeKind(i)' = NodeKind(i)
    /\ \A i \in 1 .. n : i # n => Stop(i)' = Stop(i) /\ DataOf(i)' = DataOf(i)
    /\ Stop(n)' = a + Len(more)
    /\ DataStart(n) <= a => DataOf(n)' = DataOf(n) \o more

\* Units appended to the archive belong to the last entry and to no other.
LEMMA GrowEntry ==
    ASSUME LayoutType, Sequenced, tree' = tree, visited' = visited,
           NEW n, n = Len(visited), n \in 1 .. n, NEW a, a = Len(archive),
           NEW more \in Seq(Units), archive' = archive \o more
    PROVE  EntryGrown(n, a, more)
<1>1. /\ n \in Nat /\ a \in Nat
      /\ \A i \in 1 .. n : /\ Start(i) \in Nat /\ Stop(i) \in Nat /\ DataStart(i) \in Nat
                           /\ Stop(i) <= a
    BY LayoutTypes
<1>2. archive \in Seq(Units)
    BY DEF LayoutType
<1>3. /\ archive' \in Seq(Units)
      /\ Len(more) \in Nat
      /\ Len(archive') = a + Len(more)
      /\ \A j \in 1 .. a : archive'[j] = archive[j]
      /\ \A j \in 1 .. Len(more) : archive'[a + j] = more[j]
    BY <1>2, Joined
<1>4. \A i : Start(i)' = Start(i) /\ DataStart(i)' = DataStart(i) /\ NodeKind(i)' = NodeKind(i)
    BY DEF Start, DataStart, NodeKind
<1>5. Stop(n)' = a + Len(more) /\ Stop(n) = a
    BY <1>1, <1>3 DEF Stop
<1>6. ASSUME NEW i \in 1 .. n, i # n PROVE Stop(i)' = Stop(i)
    BY <1>6, <1>1, <1>4 DEF Stop
<1>7. ASSUME NEW i \in 1 .. n, i # n PROVE DataOf(i)' = DataOf(i)
    <2>1. DataOf(i)' = SubSeq(archive', DataStart(i) + 1, Stop(i))
        BY <1>4, <1>6, <1>7 DEF DataOf
    <2>2. /\ DataStart(i) + 1 \in Nat \ {0} /\ Stop(i) \in Nat
          /\ Stop(i) <= Len(archive) /\ Stop(i) <= Len(archive')
        BY <1>1, <1>3
    <2>3. \A j \in DataStart(i) + 1 .. Stop(i) : archive'[j] = archive[j]
        BY <2>2, <1>1, <1>3
    <2>4. SubSeq(archive', DataStart(i) + 1, Stop(i)) = SubSeq(archive, DataStart(i) + 1, Stop(i))
        BY <2>2, <2>3, <1>2, <1>3, SamePart
    <2> QED
        BY <2>1, <2>4 DEF DataOf
<1>8. ASSUME DataStart(n) <= a PROVE DataOf(n)' = DataOf(n) \o more
    <2>1. PICK d, old, now, both :
              /\ d = DataStart(n) /\ old = DataOf(n) /\ now = SubSeq(archive', d + 1, a + Len(more))
              /\ both = old \o more
        OBVIOUS
    <2>2. d \in Nat /\ d <= a
        BY <2>1, <1>1, <1>8
    <2>3. /\ old \in Seq(Units) /\ Len(old) = a - d
          /\ \A j \in 1 .. a - d : old[j] = archive[d + j]
        <3>1. n \in 1 .. Len(visited)
            OBVIOUS
        <3>2. /\ DataOf(n) \in Seq(Units)
              /\ Len(DataOf(n)) = IF DataStart(n) <= Stop(n) THEN Stop(n) - DataStart(n) ELSE 0
              /\ \A j \in 1 .. Stop(n) - DataStart(n) : DataOf(n)[j] = archive[DataStart(n) + j]
            BY <3>1, DataIs
        <3> QED
            BY <3>2, <2>1, <2>2, <1>5
    <2>4. /\ both \in Seq(Units) /\ Len(both) = (a - d) + Len(more)
          /\ \A j \in 1 .. a - d : both[j] = old[j]
          /\ \A j \in 1 .. Len(more) : both[(a - d) + j] = more[j]
        <3>1. old \in Seq(Units) /\ both = old \o more
            BY <2>1, <2>3
        <3>2. /\ both \in Seq(Units) /\ Len(both) = Len(old) + Len(more)
              /\ \A j \in 1 .. Len(old) : both[j] = old[j]
              /\ \A j \in 1 .. Len(more) : both[Len(old) + j] = more[j]
            BY <3>1, Joined
        <3> QED
            BY <3>2, <2>3
    <2>5. /\ now \in Seq(Units) /\ Len(now) = (a - d) + Len(more)
          /\ \A j \in 1 .. (a - d) + Len(more) : now[j] = archive'[d + j]
        <3>1. d + 1 \in Nat \ {0} /\ a + Len(more) \in Nat /\ a + Len(more) <= Len(archive')
            BY <2>2, <1>1, <1>3
        <3>2. now \in Seq(Units)
            BY <3>1, <2>1, <1>3, PartOf
        <3>3. Len(now) = IF d + 1 <= a + Len(more) THEN (a + Len(more)) - (d + 1) + 1 ELSE 0
            BY <3>1, <2>1, <1>3, PartOf
        <3>4. \A j \in 1 .. (a + Len(more)) - (d + 1) + 1 : now[j] = archive'[(d + 1) + j - 1]
            <4>1. \A j \in 1 .. (a + Len(more)) - (d + 1) + 1 :
                      SubSeq(archive', d + 1, a + Len(more))[j] = archive'[(d + 1) + j - 1]
                BY <3>1, <1>3, PartOf
            <4> QED
                BY <4>1, <2>1, Zenon
        <3>5. Len(now) = (a - d) + Len(more)
            <4>1. Len(more) \in Nat /\ a \in Nat
                BY <1>1, <1>3
            <4>2. (IF d + 1 <= a + Len(more) THEN (a + Len(more)) - (d + 1) + 1 ELSE 0)
                      = (a - d) + Len(more)
                BY <4>1, <2>2
            <4> QED
                BY <3>3, <4>2
        <3>6. ASSUME NEW j \in 1 .. (a - d) + Len(more) PROVE now[j] = archive'[d + j]
            <4>1. j \in 1 .. (a + Len(more)) - (d + 1) + 1 /\ (d + 1) + j - 1 = d + j
                BY <2>2, <1>1, <1>3
            <4> QED
                BY <4>1, <3>4
        <3> QED
            BY <3>2, <3>5, <3>6
    <2>6. ASSUME NEW j \in 1 .. Len(now) PROVE now[j] = both[j]
        <3>1. j \in 1 .. (a - d) + Len(more) /\ now[j] = archive'[d + j]
            BY <2>5
        <3>2. CASE j \in 1 .. a - d
            <4>1. d + j \in 1 .. a
                BY <3>2, <2>2, <1>1
            <4> QED
                BY <3>1, <3>2, <4>1, <2>3, <2>4, <1>3
        <3>3. CASE j - (a - d) \in 1 .. Len(more)
            <4>1. d + j = a + (j - (a - d)) /\ (a - d) + (j - (a - d)) = j
                BY <3>1, <2>2, <1>1, <1>3
            <4>2. archive'[a + (j - (a - d))] = more[j - (a - d)]
                BY <3>3, <1>3
            <4>3. both[(a - d) + (j - (a - d))] = more[j - (a - d)]
                BY <3>3, <2>4
            <4> QED
                BY <3>1, <4>1, <4>2, <4>3
        <3>4. j \in 1 .. a - d \/ j - (a - d) \in 1 .. Len(more)
            BY <3>1, <2>2, <1>1, <1>3
        <3> QED
            BY <3>2, <3>3, <3>4
    <2>7. now = both
        BY <2>4, <2>5, <2>6, SeqEqual
    <2>8. DataOf(n)' = now
        BY <2>1, <1>4, <1>5 DEF DataOf
    <2> QED
        BY <2>1, <2>7, <2>8
<1> QED
    BY <1>3, <1>4, <1>5, <1>6, <1>7, <1>8 DEF EntryGrown

CCtxType == [begun : BOOLEAN, held : Seq(FileBytes), owed : Seq(Units)]
FileType == [rest : Seq(FileBytes), pos : Nat, bytes_written : Nat]

\* The chunk that zstd::compress reads next.
ReadIs(read, bytes, rest) ==
    /\ read \in 0 .. Len(file.rest) /\ Len(file.rest) \in Nat
    /\ file.rest \in Seq(FileBytes)
    /\ bytes \in Seq(FileBytes) /\ rest \in Seq(FileBytes)
    /\ bytes \o rest = file.rest
    /\ Len(file.rest) = read + Len(rest)
    /\ Len(rest) \in Nat
    /\ read <= READ_SIZE
    /\ rest # <<>> => read = READ_SIZE
    /\ rest = <<>> <=> Len(rest) = 0

\* What one read takes from the file, and what it leaves.
LEMMA ChunkRead ==
    ASSUME file \in FileType, NEW read, read = Lesser(READ_SIZE, Len(file.rest)),
           NEW bytes, bytes = InBuffer(read),
           NEW rest, rest = SubSeq(file.rest, read + 1, Len(file.rest))
    PROVE  ReadIs(read, bytes, rest)
<1> USE ArchiveAssumption
<1>1. file.rest \in Seq(FileBytes)
    BY DEF FileType
<1>2. Len(file.rest) \in Nat
    BY <1>1, LenProperties
<1>3. read \in 0 .. Len(file.rest) /\ (read # READ_SIZE => read = Len(file.rest))
    BY <1>2 DEF Lesser
<1>4. /\ bytes \in Seq(FileBytes) /\ rest \in Seq(FileBytes) /\ Len(rest) = Len(file.rest) - read
      /\ bytes \o rest = file.rest
    <2>1. PICK whole : whole = file.rest
        OBVIOUS
    <2>2. whole \in Seq(FileBytes) /\ read \in 0 .. Len(whole)
        BY <1>1, <1>3, <2>1
    <2>3. bytes = SubSeq(whole, 1, read) /\ rest = SubSeq(whole, read + 1, Len(whole))
        BY <2>1 DEF InBuffer
    <2>4. /\ SubSeq(whole, 1, read) \in Seq(FileBytes)
          /\ SubSeq(whole, read + 1, Len(whole)) \in Seq(FileBytes)
        BY <2>2, BeginningOf
    <2>5. Len(SubSeq(whole, read + 1, Len(whole))) = Len(whole) - read
        BY <2>2, BeginningOf
    <2>6. SubSeq(whole, 1, read) \o SubSeq(whole, read + 1, Len(whole)) = whole
        BY <2>2, BeginningOf
    <2> QED
        BY <2>1, <2>3, <2>4, <2>5, <2>6, Zenon
<1>5. rest = <<>> <=> Len(rest) = 0
    BY <1>4, WholeOf
<1>6. Len(rest) \in Nat /\ Len(file.rest) = read + Len(rest)
    <2>1. PICK all, more : all \in Nat /\ all = Len(file.rest) /\ more = Len(rest)
        BY <1>2
    <2>2. read \in 0 .. all /\ more = all - read
        BY <2>1, <1>3, <1>4
    <2>3. all \in Nat
        BY <2>1
    <2>4. more \in Nat /\ all = read + more
        BY <2>2, <2>3
    <2> QED
        BY <2>1, <2>4
<1>7. rest # <<>> => read = READ_SIZE
    <2>1. PICK all \in Nat, more \in Nat, one \in Nat :
              all = Len(file.rest) /\ more = Len(rest) /\ one = read
        BY <1>2, <1>3, <1>6
    <2>2. all = one + more /\ (one # READ_SIZE => one = all)
        BY <2>1, <1>3, <1>6
    <2>3. more # 0 => one = READ_SIZE
        BY <2>2
    <2> QED
        BY <2>1, <2>3, <1>5
<1>8. read <= READ_SIZE
    BY <1>2 DEF Lesser
<1> QED
    BY <1>1, <1>2, <1>3, <1>4, <1>5, <1>6, <1>7, <1>8 DEF ReadIs

\* All of the content is in full, with the library, or in rest.
ChunkDone(n, read, next, rest, full) ==
    /\ next \in CCtxType
    /\ rest \in Seq(FileBytes)
    /\ full \in Seq(Units)
    /\ Framed(full)
    /\ (Decompressed(full) \o next.held) \o rest = Content(visited[n].node)
    /\ Decompressed(full) \o (next.held \o rest) = Content(visited[n].node)
    /\ next.begun <=> full # <<>>
    /\ rest # <<>> =>
           /\ full # <<>> => full[Len(full)].field # "end"
           /\ \E k \in 0 .. tree[visited[n].node].size :
                  tree[visited[n].node].size = k * READ_SIZE + Len(rest)
    /\ rest = <<>> /\ ~FillsLastChunk(visited[n].node) =>
           IsLastChunk(read) /\ next.held = <<>>

\* A chunk that was read and compressed: the content is still in the archive,
\* with the library, or to be read, and the frame is still one.
LEMMA ChunkCompressed ==
    ASSUME LayoutType, Sequenced, Compressing, pc = "compress", Intact,
           cctx \in CCtxType, file \in FileType,
           NEW n, n = Len(visited),
           NEW read, read = Lesser(READ_SIZE, Len(file.rest)), read > 0,
           NEW next, next = CompressStream2(InBuffer(read), IsLastChunk(read)),
           NEW rest, rest = SubSeq(file.rest, read + 1, Len(file.rest)),
           NEW full, full = DataOf(n) \o next.owed
    PROVE  ChunkDone(n, read, next, rest, full)
<1> USE ArchiveAssumption
<1>1. PICK bytes, e_end, node, size, out :
          /\ bytes = InBuffer(read) /\ e_end = IsLastChunk(read)
          /\ node = visited[n].node /\ size = tree[visited[n].node].size
          /\ out = DataOf(n) \o cctx.owed
    OBVIOUS
<1>2. /\ read \in 0 .. Len(file.rest) /\ Len(file.rest) \in Nat
      /\ file.rest \in Seq(FileBytes)
      /\ bytes \in Seq(FileBytes) /\ rest \in Seq(FileBytes)
      /\ bytes \o rest = file.rest
      /\ Len(file.rest) = read + Len(rest)
      /\ Len(rest) \in Nat
      /\ read <= READ_SIZE
      /\ rest # <<>> => read = READ_SIZE
      /\ rest = <<>> <=> Len(rest) = 0
    <2>1. ReadIs(read, bytes, rest)
        BY <1>1, ChunkRead
    <2> QED
        BY <2>1 DEF ReadIs
<1>3. e_end \in BOOLEAN /\ (e_end <=> read < READ_SIZE)
    <2>1. IsLastChunk(read) \in BOOLEAN /\ (IsLastChunk(read) <=> read < READ_SIZE)
        BY DEF IsLastChunk
    <2> QED
        BY <2>1, <1>1, Zenon
<1>4. n \in 1 .. Len(visited) /\ node \in DOMAIN tree /\ size \in Nat
    <2>1. n \in 1 .. Len(visited) /\ node \in DOMAIN tree
        BY <1>1, OpenEntry
    <2> QED
        BY <2>1, <1>1, TreeIs DEF LayoutType
<1>5. CompressedTo(next, bytes, e_end)
    BY <1>1, <1>2, <1>3, CompressOut DEF CCtxType
<1>6. next \in CCtxType /\ (e_end => next.held = <<>>)
    BY <1>5 DEF CompressedTo, CCtxType
<1>7. PICK new \in Seq(Units) :
          /\ next.owed = cctx.owed \o new
          /\ Decompressed(new) \o next.held = cctx.held \o bytes
          /\ next.begun <=> cctx.begun \/ new # <<>>
          /\ \A j \in 1 .. Len(new) :
                 new[j].field \in
                     IF j = 1 /\ ~cctx.begun THEN {"frame"}
                     ELSE IF j = Len(new) /\ e_end THEN {"end"} ELSE {"block"}
    BY <1>5 DEF CompressedTo
<1>8. /\ (Decompressed(out) \o cctx.held) \o file.rest = Content(node)
      /\ Framed(out)
      /\ cctx.begun <=> out # <<>>
    BY <1>1 DEF Compressing
<1>9. file.rest # <<>>
    <2>1. read \in 0 .. Len(file.rest) /\ Len(file.rest) \in Nat /\ file.rest \in Seq(FileBytes)
        BY <1>2
    <2>2. Len(file.rest) # 0
        BY <2>1
    <2> QED
        BY <2>1, <2>2, WholeOf
<1>10. /\ out # <<>> => out[Len(out)].field # "end"
       /\ \E k \in 0 .. size : size = k * READ_SIZE + Len(file.rest)
    BY <1>1, <1>9 DEF Compressing
<1>11. PICK owed, held, data : owed = cctx.owed /\ held = cctx.held /\ data = DataOf(n)
    OBVIOUS
<1>12. owed \in Seq(Units) /\ held \in Seq(FileBytes) /\ data \in Seq(Units)
    BY <1>4, <1>11, DataIs DEF CCtxType
<1>13. out \in Seq(Units) /\ full = out \o new
    <2>1. out = data \o owed /\ full = data \o (owed \o new)
        BY <1>1, <1>7, <1>11
    <2> QED
        BY <2>1, <1>12, JoinedUnits, ConcatProperties
<1>14. full \in Seq(Units) /\ (full = <<>> <=> out = <<>> /\ new = <<>>)
    <2>1. full \in Seq(Units) /\ Len(full) = Len(out) + Len(new) /\ Len(out) \in Nat /\ Len(new) \in Nat
        BY <1>13, Joined
    <2>2. /\ Len(full) = 0 <=> full = <<>>
          /\ Len(out) = 0 <=> out = <<>>
          /\ Len(new) = 0 <=> new = <<>>
        BY <2>1, <1>13, WholeOf
    <2> QED
        BY <2>1, <2>2
<1>15. Framed(full) /\ (~e_end /\ full # <<>> => full[Len(full)].field # "end")
    <2>1. \A j \in 1 .. Len(new) :
              new[j].field \in IF j = 1 /\ out = <<>> THEN {"frame"}
                               ELSE IF j = Len(new) /\ e_end THEN {"end"} ELSE {"block"}
        BY <1>7, <1>8
    <2> QED
        BY <2>1, <1>3, <1>8, <1>10, <1>13, FrameGoesOn
<1>16. next.begun <=> full # <<>>
    BY <1>7, <1>8, <1>14
<1>17. PICK x \in Seq(FileBytes), y \in Seq(FileBytes), z \in Seq(FileBytes) :
           x = Decompressed(out) /\ y = Decompressed(new) /\ z = next.held
    BY <1>6, <1>13, OutTyped DEF CCtxType
<1>19. Decompressed(full) = x \o y
    BY <1>13, <1>17, OutOfConcat
<1>20. /\ ((x \o y) \o z) \o rest = Content(node)
       /\ (x \o y) \o (z \o rest) = Content(node)
    <2>1. y \o z = held \o bytes
        BY <1>7, <1>11, <1>17
    <2>2. PICK r0 \in Seq(FileBytes), b0 \in Seq(FileBytes), h0 \in Seq(FileBytes) :
              r0 = rest /\ b0 = bytes /\ h0 = held
        BY <1>2, <1>12
    <2>5. y \o z = h0 \o b0
        BY <2>1, <2>2
    <2>3. /\ ((x \o y) \o z) \o r0 = (x \o h0) \o (b0 \o r0)
          /\ (x \o y) \o (z \o r0) = (x \o h0) \o (b0 \o r0)
        <3>1. SameBytes(x, y, z, h0, b0, r0)
            BY <2>5, Regrouped
        <3> QED
            BY <3>1 DEF SameBytes
    <2>4. (x \o held) \o file.rest = Content(node)
        BY <1>8, <1>11, <1>17
    <2> QED
        BY <2>2, <2>3, <2>4, <1>2
<1>21. PICK k \in 0 .. size : size = k * READ_SIZE + Len(file.rest)
    BY <1>10
<1>22. ASSUME read = READ_SIZE
       PROVE  /\ k + 1 \in 0 .. size
              /\ size = (k + 1) * READ_SIZE + Len(rest)
              /\ Len(rest) = 0 => size > 0 /\ (size % READ_SIZE) = 0
    <2>1. size = k * READ_SIZE + (READ_SIZE + Len(rest))
        BY <1>2, <1>21, <1>22
    <2>2. PICK s0 \in Nat, l0 \in Nat, b0 \in Nat \ {0} : s0 = size /\ l0 = Len(rest) /\ b0 = READ_SIZE
        BY <1>2, <1>4
    <2>3. PICK k0 \in 0 .. s0 : k0 = k
        BY <2>2
    <2>4. s0 = k0 * b0 + (b0 + l0)
        BY <2>1, <2>2, <2>3, Zenon
    <2>5. /\ k0 + 1 \in 0 .. s0
          /\ s0 = (k0 + 1) * b0 + l0
          /\ l0 = 0 => s0 > 0 /\ (s0 % b0) = 0
        <3>1. ChunkMore(s0, b0, l0, k0)
            BY <2>4, OneChunkMore
        <3> QED
            BY <3>1, Zenon DEF ChunkMore
    <2> QED
        BY <2>2, <2>3, <2>5, Zenon
<1>23. ASSUME rest # <<>>
       PROVE  /\ full # <<>> => full[Len(full)].field # "end"
              /\ \E q \in 0 .. size : size = q * READ_SIZE + Len(rest)
    <2>1. read = READ_SIZE
        BY <1>2, <1>23, Zenon
    <2>2. ~e_end
        <3>1. ~(READ_SIZE < READ_SIZE)
            OBVIOUS
        <3> QED
            BY <2>1, <3>1, <1>3, Zenon
    <2>3. k + 1 \in 0 .. size /\ size = (k + 1) * READ_SIZE + Len(rest)
        BY <2>1, <1>22, Zenon
    <2>4. \E q \in 0 .. size : size = q * READ_SIZE + Len(rest)
        BY <2>3, Zenon
    <2> QED
        BY <2>2, <2>4, <1>15, Zenon
<1>24. ASSUME rest = <<>>, ~FillsLastChunk(node) PROVE e_end
    <2> SUFFICES ASSUME read = READ_SIZE PROVE FALSE
        <3>0. read \in 0 .. Len(file.rest) /\ Len(file.rest) \in Nat /\ read <= READ_SIZE
            BY <1>2, Zenon
        <3>1. PICK one \in Nat : one = read /\ one <= READ_SIZE
            BY <3>0
        <3>2. ~(one < READ_SIZE) => one = READ_SIZE
            BY <3>1
        <3> QED
            BY <3>1, <3>2, <1>3, Zenon
    <2>1. size > 0 /\ (size % READ_SIZE) = 0
        BY <1>2, <1>22, <1>24, Zenon
    <2> QED
        BY <2>1, <1>1, <1>24 DEF FillsLastChunk
<1>25. (Decompressed(full) \o next.held) \o rest = Content(visited[n].node)
    BY <1>1, <1>17, <1>19, <1>20
<1>26. Decompressed(full) \o (next.held \o rest) = Content(visited[n].node)
    BY <1>1, <1>17, <1>19, <1>20
<1>27. rest = <<>> /\ ~FillsLastChunk(visited[n].node) => IsLastChunk(read) /\ next.held = <<>>
    BY <1>1, <1>6, <1>24
<1>28. rest # <<>> =>
           /\ full # <<>> => full[Len(full)].field # "end"
           /\ \E q \in 0 .. tree[visited[n].node].size :
                  tree[visited[n].node].size = q * READ_SIZE + Len(rest)
    BY <1>1, <1>23
<1> QED
    BY <1>2, <1>6, <1>14, <1>15, <1>16, <1>25, <1>26, <1>27, <1>28 DEF ChunkDone

\* More of the open entry is written.
LEMMA GrownSequence ==
    ASSUME LayoutType, Sequenced, Intact, visited' = visited, put' = Len(archive'),
           NEW n \in Nat, n = Len(visited), n \in 1 .. n, NEW a \in Nat, a = Len(archive),
           NEW more, EntryGrown(n, a, more)
    PROVE  Sequenced'
<1>2. /\ archive' \in Seq(Units)
      /\ Len(archive') = a + Len(more) /\ Len(more) \in Nat
      /\ \A j \in 1 .. a : archive'[j] = archive[j]
      /\ \A i : Start(i)' = Start(i) /\ DataStart(i)' = DataStart(i) /\ NodeKind(i)' = NodeKind(i)
      /\ \A i \in 1 .. n : i # n => Stop(i)' = Stop(i) /\ DataOf(i)' = DataOf(i)
      /\ Stop(n)' = a + Len(more)
    BY DEF EntryGrown
<1>3. /\ \A i \in 1 .. n : /\ Start(i) \in Nat /\ Stop(i) \in Nat /\ DataStart(i) \in Nat
                           /\ Start(i) <= Stop(i) /\ Stop(i) <= a
                           /\ Len(visited[i].path) \in Nat
                           /\ DataStart(i) = Start(i) + 3 + Len(visited[i].path)
    BY LayoutTypes
<1>4. Stop(n) = a
    BY DEF Stop
<1>5. \A i \in 1 .. n : DataStart(i) <= Stop(i)
    BY DEF Sequenced
<1>7. PICK b \in Nat : b = Len(archive') /\ a <= b /\ b = a + Len(more)
    BY <1>2
<1>8. ASSUME NEW i \in 1 .. n PROVE Stop(i) <= Stop(i)' /\ Stop(i)' <= b /\ Stop(i)' \in Nat
    <2>1. CASE i = n
        BY <2>1, <1>2, <1>4, <1>7
    <2>2. CASE i # n
        <3>1. Stop(i)' = Stop(i)
            BY <2>2, <1>2
        <3>2. PICK s \in Nat : s = Stop(i) /\ s <= a
            BY <1>3
        <3>3. s <= b
            BY <3>2, <1>7
        <3> QED
            BY <3>1, <3>2, <3>3
    <2> QED
        BY <2>1, <2>2
<1>9. Sequenced'
    <2>1. ASSUME NEW i \in 1 .. n
          PROVE  /\ Start(i) <= Stop(i)'
                 /\ DataStart(i) <= Stop(i)'
        <3>1. PICK at \in Nat, d \in Nat, s \in Nat :
                  /\ at = Start(i) /\ d = DataStart(i) /\ s = Stop(i)
                  /\ at <= s /\ d <= s
            BY <1>3, <1>5
        <3>2. PICK s1 \in Nat : s1 = Stop(i)' /\ s <= s1
            BY <3>1, <1>8
        <3>3. at <= s1 /\ d <= s1
            BY <3>1, <3>2
        <3> QED
            BY <3>1, <3>2, <3>3
    <2>2. ASSUME NEW i \in 1 .. n, NEW j \in i + 1 .. n PROVE Stop(i)' <= Start(j)
        <3>1. i # n
            OBVIOUS
        <3>2. Stop(i) <= Start(j)
            BY DEF Sequenced
        <3> QED
            BY <3>1, <3>2, <1>2
    <2>3. visited # <<>> /\ Start(1) = 0
        <3>1. visited # <<>>
            OBVIOUS
        <3> QED
            BY <3>1 DEF Sequenced
    <2> QED
        BY <2>1, <2>2, <2>3, <1>2, <1>7, <1>8 DEF Sequenced
<1> QED
    BY <1>9

\* More data leave the headers alone, whose length is not filled in yet.
LEMMA GrownHeader ==
    ASSUME LayoutType, Sequenced, HeaderKept, Intact, visited' = visited, pc' = "compress",
           NEW n \in Nat, n = Len(visited), n \in 1 .. n, NEW a \in Nat, a = Len(archive),
           NEW more, EntryGrown(n, a, more), archive[DataStart(n)].value = 0
    PROVE  HeaderKept' /\ archive'[DataStart(n)].value = 0
<1>2. /\ archive' \in Seq(Units)
      /\ Len(archive') = a + Len(more) /\ Len(more) \in Nat
      /\ \A j \in 1 .. a : archive'[j] = archive[j]
      /\ \A i : Start(i)' = Start(i) /\ DataStart(i)' = DataStart(i) /\ NodeKind(i)' = NodeKind(i)
      /\ \A i \in 1 .. n : i # n => Stop(i)' = Stop(i) /\ DataOf(i)' = DataOf(i)
      /\ Stop(n)' = a + Len(more)
    BY DEF EntryGrown
<1>3. /\ \A i \in 1 .. n : /\ Start(i) \in Nat /\ Stop(i) \in Nat /\ DataStart(i) \in Nat
                           /\ Start(i) <= Stop(i) /\ Stop(i) <= a
                           /\ Len(visited[i].path) \in Nat
                           /\ DataStart(i) = Start(i) + 3 + Len(visited[i].path)
    BY LayoutTypes
<1>4. Stop(n) = a
    BY DEF Stop
<1>5. \A i \in 1 .. n : DataStart(i) <= Stop(i)
    BY DEF Sequenced
<1>7. PICK b \in Nat : b = Len(archive') /\ a <= b /\ b = a + Len(more)
    BY <1>2
<1>10. ASSUME NEW i \in 1 .. n, i # n PROVE HeaderAt(i)'
    <2>1. HeaderAt(i)
        BY DEF HeaderKept
    <2>2. ~IsOpen(i)
        BY <1>10 DEF IsOpen
    <2>3. Stop(i)' = Stop(i) /\ Start(i)' = Start(i) /\ DataStart(i)' = DataStart(i)
          /\ NodeKind(i)' = NodeKind(i)
        BY <1>2, <1>10
    <2>4. PICK at \in Nat, d \in Nat, s \in Nat, l \in Nat :
              /\ at = Start(i) /\ d = DataStart(i) /\ s = Stop(i) /\ l = Len(visited[i].path)
              /\ d <= s /\ s <= a /\ d = at + 3 + l
        <3>1. /\ Start(i) \in Nat /\ Stop(i) \in Nat /\ DataStart(i) \in Nat
              /\ DataStart(i) <= Stop(i) /\ Stop(i) <= a
              /\ Len(visited[i].path) \in Nat
              /\ DataStart(i) = Start(i) + 3 + Len(visited[i].path)
            BY <1>3, <1>5
        <3> QED
            BY <3>1, Zenon
    <2>5. \A j \in 1 .. a : archive'[j] = archive[j]
        BY <1>2
    <2>12. d <= s /\ s <= a /\ d = at + 3 + l
        BY <2>4
    <2>6. archive'[at + 1] = archive[at + 1] /\ archive'[at + 2] = archive[at + 2]
          /\ archive'[d] = archive[d]
        <3>1. at + 1 \in 1 .. a /\ at + 2 \in 1 .. a /\ d \in 1 .. a
            BY <2>12
        <3> QED
            BY <3>1, <2>5, Zenon
    <2>7. ASSUME NEW j \in 1 .. l
          PROVE  archive'[at + 2 + j] = archive[at + 2 + j] /\ at + 2 + j <= s
        <3>1. at + 2 + j \in 1 .. a /\ at + 2 + j <= s
            BY <2>12
        <3> QED
            BY <3>1, <2>5, Zenon
    <2>8. archive[d].field = "compressed_length" /\ archive[d].value = s - d
        BY <2>1, <2>2, <2>4 DEF HeaderAt
    <2>9. \A j \in 1 .. l : archive[at + 2 + j] = Unit("name", visited[i].path[j])
        BY <2>1, <2>4, <2>7 DEF HeaderAt
    <2>10. /\ archive[at + 1] =
                  Unit("type", IF NodeKind(i) = "directory" THEN "directory" ELSE "file")
           /\ archive[at + 2] = Unit("path_length", Len(visited[i].path))
        <3>1. at + 1 <= s /\ at + 2 <= s
            BY <2>4
        <3> QED
            BY <2>1, <2>4, <3>1 DEF HeaderAt
    <2>11. \A j \in 1 .. l : archive'[at + 2 + j] = Unit("name", visited[i].path[j])
        BY <2>7, <2>9
    <2> QED
        BY <2>3, <2>4, <2>6, <2>8, <2>10, <2>11 DEF HeaderAt
<1>11. HeaderAt(n)' /\ archive'[DataStart(n)].value = 0
    <2>1. HeaderAt(n)
        BY DEF HeaderKept
    <2>2. IsOpen(n)'
        BY DEF IsOpen
    <2>3. Stop(n)' = b /\ Start(n)' = Start(n) /\ DataStart(n)' = DataStart(n)
          /\ NodeKind(n)' = NodeKind(n)
        BY <1>2, <1>7
    <2>4. PICK at \in Nat, d \in Nat, l \in Nat :
              /\ at = Start(n) /\ d = DataStart(n) /\ l = Len(visited[n].path)
              /\ d <= a /\ a <= b /\ d = at + 3 + l
        BY <1>3, <1>4, <1>5, <1>7
    <2>5. \A j \in 1 .. a : archive'[j] = archive[j]
        BY <1>2
    <2>6. archive'[at + 1] = archive[at + 1] /\ archive'[at + 2] = archive[at + 2]
          /\ archive'[d] = archive[d]
        <3>1. d <= a /\ d = at + 3 + l
            BY <2>4
        <3>2. at + 1 \in 1 .. a /\ at + 2 \in 1 .. a /\ d \in 1 .. a
            BY <3>1
        <3> QED
            BY <3>2, <2>5, Zenon
    <2>7. ASSUME NEW j \in 1 .. l
          PROVE  archive'[at + 2 + j] = archive[at + 2 + j] /\ at + 2 + j <= a
        <3>1. d <= a /\ d = at + 3 + l
            BY <2>4
        <3>2. at + 2 + j \in 1 .. a /\ at + 2 + j <= a
            BY <3>1
        <3> QED
            BY <3>2, <2>5
    <2>8. archive[d].field = "compressed_length" /\ archive[d].value = 0
        BY <2>1, <2>4, <1>4 DEF HeaderAt
    <2>9. \A j \in 1 .. l : archive[at + 2 + j] = Unit("name", visited[n].path[j])
        BY <2>1, <2>4, <2>7, <1>4 DEF HeaderAt
    <2>10. /\ archive[at + 1] =
                  Unit("type", IF NodeKind(n) = "directory" THEN "directory" ELSE "file")
           /\ archive[at + 2] = Unit("path_length", Len(visited[n].path))
        <3>1. at + 1 <= Stop(n) /\ at + 2 <= Stop(n)
            BY <2>4, <1>4
        <3> QED
            BY <2>1, <2>4, <3>1 DEF HeaderAt
    <2>11. \A j \in 1 .. l : archive'[at + 2 + j] = Unit("name", visited[n].path[j])
        BY <2>7, <2>9
    <2> QED
        BY <1>7, <2>2, <2>3, <2>4, <2>6, <2>8, <2>10, <2>11 DEF HeaderAt
<1> QED
    BY <1>10, <1>11 DEF HeaderKept

\* More data in the last entry leave the data of the others alone.
LEMMA GrownData ==
    ASSUME DataKept, Intact, pc = "compress", pc' = "compress",
           tree' = tree, visited' = visited,
           NEW n \in Nat, n = Len(visited), n \in 1 .. n, NEW a \in Nat, a = Len(archive),
           NEW more, EntryGrown(n, a, more),
           NodeKind(n) = "file", DataStart(n) <= a, Framed(DataOf(n) \o more),
           IsPrefix(Decompressed(DataOf(n) \o more), Content(visited[n].node))
    PROVE  DataKept'
<1>2. /\ archive' \in Seq(Units)
      /\ Len(archive') = a + Len(more) /\ Len(more) \in Nat
      /\ \A j \in 1 .. a : archive'[j] = archive[j]
      /\ \A i : Start(i)' = Start(i) /\ DataStart(i)' = DataStart(i) /\ NodeKind(i)' = NodeKind(i)
      /\ \A i \in 1 .. n : i # n => Stop(i)' = Stop(i) /\ DataOf(i)' = DataOf(i)
      /\ Stop(n)' = a + Len(more)
    BY DEF EntryGrown
<1>3. DataOf(n)' = DataOf(n) \o more
    BY DEF EntryGrown
<1>12. \A p : Content(p)' = Content(p) /\ (FillsLastChunk(p)' <=> FillsLastChunk(p))
    BY DEF Content, FillsLastChunk
<1>13. ASSUME NEW i \in 1 .. n, i # n PROVE DataAt(i)'
    <2>1. DataAt(i)
        BY DEF DataKept
    <2>2. ~IsOpen(i)
        BY <1>13 DEF IsOpen
    <2>3. NodeKind(i)' = NodeKind(i) /\ DataOf(i)' = DataOf(i)
        BY <1>2, <1>13
    <2> QED
        BY <2>1, <2>2, <2>3, <1>12 DEF DataAt
<1>14. DataAt(n)'
    <2>1. IsOpen(n)'
        BY DEF IsOpen
    <2>2. NodeKind(n)' = "file" /\ DataOf(n)' = DataOf(n) \o more
        BY <1>2, <1>3
    <2> QED
        BY <2>1, <2>2, <1>12 DEF DataAt
<1> QED
    BY <1>13, <1>14 DEF DataKept

\* Nothing is written any more, though the file is still being compressed.
LEMMA StalledKeepsLayout ==
    ASSUME LayoutType, Sequenced, HeaderKept, DataKept, Compressing, ~Intact, ~Intact',
           pc = "compress", pc' = "compress",
           tree' = tree, visited' = visited, archive' = archive, put' = Len(archive')
    PROVE  LayoutType' /\ Sequenced' /\ HeaderKept' /\ DataKept' /\ Compressing'
<1>1. /\ \A i : /\ Start(i)' = Start(i) /\ Stop(i)' = Stop(i)
                /\ DataStart(i)' = DataStart(i) /\ DataOf(i)' = DataOf(i)
                /\ NodeKind(i)' = NodeKind(i)
      /\ \A p : Content(p)' = Content(p) /\ (FillsLastChunk(p)' <=> FillsLastChunk(p))
    BY SameEntries
<1>2. LayoutType'
    BY DEF LayoutType
<1>3. Sequenced'
    BY <1>1 DEF Sequenced
<1>4. ASSUME NEW i \in 1 .. Len(visited) PROVE HeaderAt(i)'
    <2>1. HeaderAt(i)
        BY DEF HeaderKept
    <2> QED
        BY <2>1, <1>1 DEF HeaderAt
<1>5. ASSUME NEW i \in 1 .. Len(visited) PROVE DataAt(i)'
    <2>1. DataAt(i)
        BY DEF DataKept
    <2> QED
        BY <2>1, <1>1 DEF DataAt
<1>6. visited # <<>> /\ NodeKind(Len(visited)) = "file"
    BY DEF Compressing
<1>7. Compressing'
    BY <1>1, <1>6 DEF Compressing
<1> QED
    BY <1>2, <1>3, <1>4, <1>5, <1>7 DEF HeaderKept, DataKept

CutAt(whole, m, front, back) ==
    /\ front = SubSeq(whole, 1, m) /\ back = SubSeq(whole, m + 1, Len(whole))
    /\ whole = front \o back
    /\ Len(front) = m
    /\ Len(back) = Len(whole) - m

\* The two parts of a sequence, as a pair of witnesses.
LEMMA Cut ==
    ASSUME NEW whole \in Seq(Units), NEW m \in 0 .. Len(whole)
    PROVE  \E front \in Seq(Units), back \in Seq(Units) : CutAt(whole, m, front, back)
<1>1. PICK front, back : front = SubSeq(whole, 1, m) /\ back = SubSeq(whole, m + 1, Len(whole))
    OBVIOUS
<1>2. front \in Seq(Units) /\ Len(front) = m
    BY <1>1, BeginningOf
<1>3. back \in Seq(Units) /\ Len(back) = Len(whole) - m
    BY <1>1, BeginningOf
<1>4. whole = front \o back
    BY <1>1, BeginningOf
<1>5. CutAt(whole, m, front, back)
    BY <1>1, <1>2, <1>3, <1>4 DEF CutAt
<1> QED
    BY <1>2, <1>3, <1>5

SameUnits(data, more, unwritten, tail) ==
    data \o ((more \o unwritten) \o tail) = (data \o more) \o (unwritten \o tail)

\* Units written now and units written later, in the order either side needs.
LEMMA RegroupedUnits ==
    ASSUME NEW data \in Seq(Units), NEW more \in Seq(Units), NEW unwritten \in Seq(Units),
           NEW tail \in Seq(Units)
    PROVE  SameUnits(data, more, unwritten, tail)
<1>1. unwritten \o tail \in Seq(Units)
    BY Joined
<1>2. PICK later \in Seq(Units) : later = unwritten \o tail
    BY <1>1, Zenon
<1>3. JoinedEitherWay(more, unwritten, tail) /\ JoinedEitherWay(data, more, later)
    BY UnitsJoined
<1>4. (more \o unwritten) \o tail = more \o later
    BY <1>2, <1>3, Zenon DEF JoinedEitherWay
<1>5. (data \o more) \o later = data \o (more \o later)
    BY <1>3, Zenon DEF JoinedEitherWay
<1> QED
    BY <1>2, <1>4, <1>5, Zenon DEF SameUnits

\* The library and the file after a chunk of which the first m units are
\* written at once.
ChunkTakes(next, rest, m) ==
    /\ next \in CCtxType /\ rest \in Seq(FileBytes)
    /\ cctx' \in CCtxType /\ file' \in FileType
    /\ cctx'.begun = next.begun /\ cctx'.held = next.held
    /\ cctx'.owed = SubSeq(next.owed, m + 1, Len(next.owed))
    /\ file'.rest = rest /\ file'.pos = file.pos
    /\ file'.bytes_written = file.bytes_written + m

\* The library and the file after a chunk, of which some units are written at once.
LEMMA ChunkTaken ==
    ASSUME cctx \in CCtxType, file \in FileType,
           NEW read, read = Lesser(READ_SIZE, Len(file.rest)),
           NEW next, next = CompressStream2(InBuffer(read), IsLastChunk(read)),
           NEW rest, rest = SubSeq(file.rest, read + 1, Len(file.rest)),
           NEW m \in 0 .. Len(next.owed),
           cctx' = [next EXCEPT !.owed = SubSeq(@, m + 1, Len(@))],
           file' = [file EXCEPT !.rest = SubSeq(@, read + 1, Len(@)), !.bytes_written = @ + m]
    PROVE  ChunkTakes(next, rest, m)
<1>1. PICK bytes, e_end : bytes = InBuffer(read) /\ e_end = IsLastChunk(read)
    OBVIOUS
<1>2. bytes \in Seq(FileBytes) /\ rest \in Seq(FileBytes)
    <2>1. ReadIs(read, bytes, rest)
        BY <1>1, ChunkRead
    <2> QED
        BY <2>1 DEF ReadIs
<1>3. e_end \in BOOLEAN
    <2>1. IsLastChunk(read) \in BOOLEAN
        BY DEF IsLastChunk
    <2> QED
        BY <2>1, <1>1, Zenon
<1>4. next \in CCtxType
    <2>1. CompressedTo(next, bytes, e_end)
        BY <1>1, <1>2, <1>3, CompressOut DEF CCtxType
    <2> QED
        BY <2>1 DEF CompressedTo, CCtxType
<1>5. PICK owed \in Seq(Units) : owed = next.owed
    BY <1>4 DEF CCtxType
<1>6. SubSeq(owed, m + 1, Len(owed)) \in Seq(Units)
    <2>1. m \in 0 .. Len(owed)
        BY <1>5
    <2> QED
        BY <2>1, BeginningOf
<1>7. /\ cctx'.begun = next.begun /\ cctx'.held = next.held
      /\ cctx'.owed = SubSeq(owed, m + 1, Len(owed))
      /\ cctx' \in CCtxType
    BY <1>4, <1>5, <1>6 DEF CCtxType
<1>8. m \in Nat
    BY <1>5, LenProperties
<1>9. /\ file'.rest = rest /\ file'.pos = file.pos
      /\ file'.bytes_written = file.bytes_written + m
      /\ file' \in FileType
    <2>1. PICK bw \in Nat : bw = file.bytes_written + m
        BY <1>8 DEF FileType
    <2>2. file' = [file EXCEPT !.rest = rest, !.bytes_written = bw]
        BY <2>1
    <2> QED
        BY <2>1, <2>2, <1>2 DEF FileType
<1> QED
    BY <1>2, <1>4, <1>5, <1>7, <1>9 DEF ChunkTakes

\* The open entry and what the library still owes, after a chunk of which the
\* disk took more.
LEMMA CompressKeepsLayout ==
    ASSUME LayoutType, happened \subseteq Faults, Sequenced, HeaderKept, DataKept, Compressing,
           cctx \in CCtxType, file \in FileType, CompressChunk
    PROVE  /\ LayoutType' /\ put' \in 0 .. Len(archive')
           /\ happened \subseteq happened' /\ happened' \subseteq Faults
           /\ cctx' \in CCtxType /\ file' \in FileType
           /\ Sequenced' /\ HeaderKept' /\ DataKept' /\ Compressing'
<1>1. PICK read, next, rest :
          /\ read = Lesser(READ_SIZE, Len(file.rest))
          /\ next = CompressStream2(InBuffer(read), IsLastChunk(read))
          /\ rest = SubSeq(file.rest, read + 1, Len(file.rest))
    OBVIOUS
<1>2. /\ pc = "compress" /\ pc' = "compress" /\ read > 0
      /\ tree' = tree /\ visited' = visited
    BY <1>1 DEF CompressChunk
<1>3. PICK m \in 0 .. Len(next.owed) :
          /\ Len(next.owed) - m <= IF IsLastChunk(read) THEN 0 ELSE 1
          /\ Write(SubSeq(next.owed, 1, m))
          /\ cctx' = [next EXCEPT !.owed = SubSeq(@, m + 1, Len(@))]
          /\ file' = [file EXCEPT !.rest = SubSeq(@, read + 1, Len(@)), !.bytes_written = @ + m]
    BY <1>1 DEF CompressChunk
<1>4. /\ next \in CCtxType /\ rest \in Seq(FileBytes)
      /\ cctx' \in CCtxType /\ file' \in FileType
      /\ cctx'.begun = next.begun /\ cctx'.held = next.held
      /\ cctx'.owed = SubSeq(next.owed, m + 1, Len(next.owed))
      /\ file'.rest = rest /\ file'.pos = file.pos
      /\ file'.bytes_written = file.bytes_written + m
    <2>1. ChunkTakes(next, rest, m)
        BY <1>1, <1>3, ChunkTaken
    <2> QED
        BY <2>1 DEF ChunkTakes
<1>5. PICK owed \in Seq(Units) : owed = next.owed
    BY <1>4 DEF CCtxType
<1>6. m \in 0 .. Len(owed)
    BY <1>5
<1>7. PICK units \in Seq(Units), tail \in Seq(Units) :
          /\ units = SubSeq(owed, 1, m) /\ tail = SubSeq(owed, m + 1, Len(owed))
          /\ owed = units \o tail
          /\ Len(units) = m
          /\ Len(tail) = Len(owed) - m
    <2>1. PICK front \in Seq(Units), back \in Seq(Units) : CutAt(owed, m, front, back)
        BY <1>6, Cut
    <2> QED
        BY <2>1 DEF CutAt
<1>8. Write(units)
    BY <1>3, <1>5, <1>7
<1>9. archive \in Seq(Units) /\ put = Len(archive)
    BY DEF LayoutType, Sequenced
<1>10. PICK k \in 0 .. Len(units) :
           /\ archive' = archive \o SubSeq(units, 1, k)
           /\ put' = Len(archive')
           /\ happened \subseteq happened' /\ happened' \subseteq Faults
           /\ Intact' => Intact /\ k = Len(units)
           /\ ~Intact => k = 0
    BY <1>8, <1>9, WriteIs
<1>11. PICK more \in Seq(Units), unwritten \in Seq(Units) :
           /\ more = SubSeq(units, 1, k) /\ unwritten = SubSeq(units, k + 1, Len(units))
           /\ units = more \o unwritten
    <2>1. PICK front \in Seq(Units), back \in Seq(Units) : CutAt(units, k, front, back)
        BY Cut
    <2> QED
        BY <2>1 DEF CutAt
<1>12. archive' = archive \o more
    BY <1>10, <1>11
<1>13. archive' \in Seq(Units) /\ Len(archive') \in Nat
    BY <1>9, <1>12, Joined
<1>14. PICK n \in Nat, a \in Nat : n = Len(visited) /\ a = Len(archive)
    BY LayoutTypes
<1>15. n \in 1 .. n /\ NodeKind(n) = "file" /\ Stop(n) = a /\ (Intact => DataStart(n) <= a)
       /\ visited[n].node \in DOMAIN tree
    BY <1>2, <1>14, OpenEntry
<1>16. CASE ~Intact
    <2>1. k = 0 /\ ~Intact'
        BY <1>16, <1>10
    <2>2. archive' = archive
        <3>1. SubSeq(units, 1, 0) = <<>> /\ archive \o <<>> = archive
            BY <1>9, WholeOf
        <3> QED
            BY <2>1, <3>1, <1>10
    <2>3. LayoutType' /\ Sequenced' /\ HeaderKept' /\ DataKept' /\ Compressing'
        BY <2>1, <2>2, <1>2, <1>10, <1>16, StalledKeepsLayout
    <2> QED
        BY <2>3, <1>4, <1>10, <1>13
<1>17. CASE Intact
    <2>1. PICK full : full = DataOf(n) \o next.owed
        OBVIOUS
    <2>2. ChunkDone(n, read, next, rest, full)
        BY <2>1, <1>1, <1>2, <1>14, <1>17, ChunkCompressed
    <2>3. PICK data \in Seq(Units) : data = DataOf(n)
        BY <1>14, <1>15, DataIs
    <2>4. PICK grown \in Seq(Units), later \in Seq(Units) :
              grown = data \o more /\ later = unwritten \o tail
        BY Joined
    <2>5. full = grown \o later
        <3>1. full = data \o ((more \o unwritten) \o tail)
            BY <2>1, <2>3, <1>5, <1>7, <1>11
        <3>2. SameUnits(data, more, unwritten, tail)
            BY RegroupedUnits
        <3> QED
            BY <2>4, <3>1, <3>2 DEF SameUnits
    <2>6. PICK held_rest \in Seq(FileBytes) : held_rest = next.held \o rest
        <3>1. PICK x \in Seq(FileBytes), y \in Seq(FileBytes) : x = next.held /\ y = rest
            BY <1>4 DEF CCtxType
        <3>2. x \o y \in Seq(FileBytes)
            BY Joined
        <3> QED
            BY <3>1, <3>2
    <2>7. Framed(full) /\ Decompressed(full) \o held_rest = Content(visited[n].node)
        BY <2>2, <2>6 DEF ChunkDone
    <2>8. Framed(grown) /\ IsPrefix(Decompressed(grown), Content(visited[n].node))
        <3>1. Framed(grown) /\ IsPrefix(Decompressed(grown), Decompressed(full) \o held_rest)
            BY <2>5, <2>7, FrameBegun
        <3> QED
            BY <3>1, <2>7
    <2>9. archive[DataStart(n)].value = 0 /\ DataStart(n) <= a
        BY <1>2, <1>14, <1>15, <1>17 DEF Compressing
    <2>10. EntryGrown(n, a, more)
        BY <1>2, <1>12, <1>14, <1>15, GrowEntry
    <2>11. Sequenced'
        BY <2>10, <1>2, <1>10, <1>14, <1>15, <1>17, GrownSequence
    <2>12. HeaderKept' /\ archive'[DataStart(n)].value = 0
        BY <2>9, <2>10, <1>2, <1>14, <1>15, <1>17, GrownHeader
    <2>13. DataKept'
        <3>1. grown = DataOf(n) \o more
            BY <2>3, <2>4
        <3>2. Framed(DataOf(n) \o more)
              /\ IsPrefix(Decompressed(DataOf(n) \o more), Content(visited[n].node))
            BY <3>1, <2>8
        <3> QED
            BY <3>2, <2>9, <2>10, <1>2, <1>14, <1>15, <1>17, GrownData
    <2>14. LayoutType'
        BY <1>2, <1>13 DEF LayoutType
    <2>15. Compressing'
        <3>1. visited' # <<>> /\ NodeKind(n)' = "file" /\ n = Len(visited')
            <4>1. NodeKind(n)' = NodeKind(n)
                BY <2>10 DEF EntryGrown
            <4>2. visited # <<>>
                BY <1>2 DEF Compressing
            <4> QED
                BY <4>1, <4>2, <1>2, <1>14, <1>15
        <3>2. CASE ~Intact'
            BY <3>1, <3>2 DEF Compressing
        <3>3. CASE Intact'
            <4>1. k = Len(units) /\ more = units
                <5>1. k = Len(units)
                    BY <3>3, <1>10
                <5> QED
                    BY <5>1, <1>11, WholeOf
            <4>2. DataOf(n)' = grown /\ DataStart(n)' = DataStart(n) /\ Stop(n)' = a + m
                <5>1. /\ DataOf(n)' = DataOf(n) \o more /\ Stop(n)' = a + Len(more)
                      /\ DataStart(n)' = DataStart(n)
                    BY <2>9, <2>10 DEF EntryGrown
                <5> QED
                    BY <5>1, <4>1, <2>3, <2>4, <1>7
            <4>3. DataOf(n)' \o cctx'.owed = full
                <5>1. full = data \o (units \o tail)
                    BY <2>1, <2>3, <1>5, <1>7
                <5>2. (data \o units) \o tail = data \o (units \o tail)
                    <6>1. JoinedEitherWay(data, units, tail)
                        BY UnitsJoined
                    <6> QED
                        BY <6>1 DEF JoinedEitherWay
                <5>3. cctx'.owed = tail
                    BY <1>4, <1>5, <1>7
                <5> QED
                    BY <5>1, <5>2, <5>3, <4>1, <4>2, <2>4
            <4>4. file'.pos = DataStart(n)' - 1
                <5>1. file.pos = DataStart(n) - 1
                    BY <1>2, <1>14, <1>17 DEF Compressing
                <5> QED
                    BY <5>1, <4>2, <1>4
            <4>5. file'.bytes_written = Stop(n)' - DataStart(n)'
                <5>1. file.bytes_written = Stop(n) - DataStart(n)
                    BY <1>2, <1>14, <1>17 DEF Compressing
                <5>2. PICK d \in Nat : d = DataStart(n)
                    BY <1>14, <1>15, LayoutTypes
                <5>3. m \in Nat
                    BY <1>6, LenProperties
                <5>4. (a - d) + m = (a + m) - d
                    BY <5>3
                <5> QED
                    BY <5>1, <5>2, <5>4, <4>2, <1>4, <1>15
            <4>6. archive'[DataStart(n)'].value = 0
                BY <2>12, <4>2
            <4>7. tree' = tree /\ visited' = visited
                  /\ \A p : Content(p)' = Content(p) /\ (FillsLastChunk(p)' <=> FillsLastChunk(p))
                BY <1>2 DEF Content, FillsLastChunk
            <4>8. rest = <<>> /\ ~FillsLastChunk(visited[n].node) =>
                      cctx'.held = <<>> /\ cctx'.owed = <<>>
                <5>1. SUFFICES ASSUME rest = <<>>, ~FillsLastChunk(visited[n].node)
                      PROVE  cctx'.held = <<>> /\ cctx'.owed = <<>>
                    OBVIOUS
                <5>2. IsLastChunk(read) /\ next.held = <<>>
                    BY <2>2, <5>1 DEF ChunkDone
                <5>3. Len(owed) - m <= 0
                    BY <5>2, <1>3, <1>5
                <5>4. PICK l \in Nat : l = Len(tail)
                    BY LenProperties
                <5>5. l <= 0
                    BY <5>3, <5>4, <1>7
                <5>6. tail = <<>>
                    <6>1. l = 0
                        BY <5>5
                    <6> QED
                        BY <6>1, <5>4, WholeOf
                <5> QED
                    BY <5>2, <5>6, <1>4, <1>5, <1>7
            <4>9. /\ (Decompressed(full) \o next.held) \o rest = Content(visited[n].node)
                  /\ Framed(full)
                  /\ next.begun <=> full # <<>>
                  /\ rest # <<>> =>
                         /\ full # <<>> => full[Len(full)].field # "end"
                         /\ \E q \in 0 .. tree[visited[n].node].size :
                                tree[visited[n].node].size = q * READ_SIZE + Len(rest)
                BY <2>2, Zenon DEF ChunkDone
            <4>10. PICK full1, node1 : full1 = DataOf(n)' \o cctx'.owed /\ node1 = visited'[n].node
                OBVIOUS
            <4>11. full1 = full /\ node1 = visited[n].node
                BY <4>3, <4>7, <4>10
            <4>12. /\ (Decompressed(full1) \o cctx'.held) \o file'.rest = Content(node1)'
                   /\ Framed(full1)
                   /\ cctx'.begun <=> full1 # <<>>
                   /\ file'.rest # <<>> =>
                          /\ full1 # <<>> => full1[Len(full1)].field # "end"
                          /\ \E q \in 0 .. tree'[node1].size :
                                 tree'[node1].size = q * READ_SIZE + Len(file'.rest)
                <5>1. /\ (Decompressed(full1) \o cctx'.held) \o file'.rest = Content(node1)'
                      /\ Framed(full1)
                    BY <4>7, <4>9, <4>11, <1>4
                <5>2. cctx'.begun <=> full1 # <<>>
                    BY <4>9, <4>11, <1>4
                <5>3. file'.rest # <<>> =>
                          /\ full1 # <<>> => full1[Len(full1)].field # "end"
                          /\ \E q \in 0 .. tree'[node1].size :
                                 tree'[node1].size = q * READ_SIZE + Len(file'.rest)
                    BY <4>7, <4>9, <4>11, <1>4, Zenon
                <5> QED
                    BY <5>1, <5>2, <5>3
            <4>13. file'.rest = <<>> /\ ~FillsLastChunk(node1)' => cctx'.held = <<>> /\ cctx'.owed = <<>>
                BY <4>7, <4>8, <4>11, <1>4
            <4> QED
                BY <3>1, <4>4, <4>5, <4>6, <4>10, <4>12, <4>13, Zenon DEF Compressing
        <3> QED
            BY <3>2, <3>3
    <2> QED
        BY <2>11, <2>12, <2>13, <2>14, <2>15, <1>4, <1>10, <1>13
<1> QED
    BY <1>16, <1>17
=============================================================================
