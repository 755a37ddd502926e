------------------------- MODULE ArchiveWalk_proofs -------------------------
(***************************************************************************)
(* What packDirectory visits: a path leads one way through the directory,  *)
(* and when the last call has returned every way was followed to its end,  *)
(* so that no part of the directory is taken for the whole.                *)
(***************************************************************************)
EXTENDS ArchiveLayout_proofs

-----------------------------------------------------------------------------
(* Ways through the directory *)

\* They depend on the directory alone, which never changes.
LEMMA SameTree ==
    ASSUME tree' = tree
    PROVE  /\ \A p : Target(p)' = Target(p) /\ Kind(p)' = Kind(p) /\ Children(p)' = Children(p)
           /\ \A n : Walks(n)' = Walks(n)
           /\ \A w : EndOf(w)' = EndOf(w)
           /\ \A p, node : Leads(p, node)' <=> Leads(p, node)
<1>1. \A p : Target(p)' = Target(p) /\ Kind(p)' = Kind(p) /\ Children(p)' = Children(p)
    BY DEF Target, Kind, Children
<1>2. \A w : EndOf(w)' = EndOf(w)
    BY <1>1 DEF EndOf
<1>3. \A w : IsWalk(w)' <=> IsWalk(w)
    BY <1>1 DEF IsWalk
<1>4. \A n : Walks(n)' = Walks(n)
    BY <1>3 DEF Walks
<1>5. \A p, node : Leads(p, node)' <=> Leads(p, node)
    BY <1>2, <1>4 DEF Leads
<1> QED
    BY <1>1, <1>2, <1>4, <1>5

\* The w[i] lie in one another and have the names of the path.
IsWalkTo(w, n, path, node) ==
    /\ w \in [1 .. n -> DOMAIN tree]
    /\ w[1] = <<ROOT>>
    /\ \A i \in 2 .. n : Kind(w[i - 1]) = "directory" /\ w[i] \in Children(Target(w[i - 1]))
    /\ path = [i \in 1 .. n |-> Last(w[i])]
    /\ node = Target(w[n])

\* A walk in terms of its last step and its path.
LEMMA WalkIs ==
    ASSUME NEW n \in Nat \ {0}, NEW w \in [1 .. n -> DOMAIN tree]
    PROVE  /\ Len(w) = n /\ DOMAIN w = 1 .. n
           /\ Last(w) = w[n] /\ EndOf(w) = Target(w[n]) /\ w[n] \in DOMAIN tree
           /\ PathOf(w) = [i \in 1 .. n |-> Last(w[i])]
           /\ Len(PathOf(w)) = n
           /\ w \in Walks(n) <=> IsWalkTo(w, n, PathOf(w), EndOf(w))
<1>1. w \in Seq(DOMAIN tree) /\ Len(w) = n /\ DOMAIN w = 1 .. n
    OBVIOUS
<1>2. Last(w) = w[n] /\ EndOf(w) = Target(w[n]) /\ w[n] \in DOMAIN tree
    BY <1>1 DEF Last, EndOf
<1>3. PathOf(w) = [i \in 1 .. n |-> Last(w[i])]
    BY <1>1 DEF PathOf
<1>4. Len(PathOf(w)) = n
    BY <1>3
<1>5. w \in Walks(n) <=> IsWalkTo(w, n, PathOf(w), EndOf(w))
    BY <1>1, <1>2, <1>3, Zenon DEF Walks, IsWalk, IsWalkTo
<1> QED
    BY <1>1, <1>2, <1>3, <1>4, <1>5

\* To lead somewhere is to have a walk there.
LEMMA LeadsIs ==
    ASSUME NEW path \in Seq(Names), NEW n \in Nat \ {0}, n = Len(path), NEW node
    PROVE  Leads(path, node) <=> \E w : IsWalkTo(w, n, path, node)
<1>1. ASSUME Leads(path, node) PROVE \E w : IsWalkTo(w, n, path, node)
    <2>1. PICK w \in Walks(n) : PathOf(w) = path /\ EndOf(w) = node
        BY <1>1 DEF Leads
    <2>2. w \in [1 .. n -> DOMAIN tree]
        BY DEF Walks
    <2>3. IsWalkTo(w, n, PathOf(w), EndOf(w))
        BY <2>2, WalkIs
    <2> QED
        BY <2>1, <2>3
<1>2. ASSUME NEW w, IsWalkTo(w, n, path, node) PROVE Leads(path, node)
    <2>1. w \in [1 .. n -> DOMAIN tree] /\ path = [i \in 1 .. n |-> Last(w[i])] /\ node = Target(w[n])
        BY <1>2 DEF IsWalkTo
    <2>2. PathOf(w) = path /\ EndOf(w) = node /\ (w \in Walks(n) <=> IsWalkTo(w, n, PathOf(w), EndOf(w)))
        BY <2>1, WalkIs
    <2>3. w \in Walks(n)
        BY <2>2, <1>2
    <2> QED
        BY <2>2, <2>3 DEF Leads
<1> QED
    BY <1>1, <1>2

\* The directory itself is led to by its own name.
LEMMA LeadsToRoot ==
    ASSUME tree \in Trees
    PROVE  <<ROOT>> \in Seq(Names) /\ Len(<<ROOT>>) = 1 /\ Leads(<<ROOT>>, <<ROOT>>)
<1> DEFINE w == [i \in 1 .. 1 |-> <<ROOT>>]
<1>1. <<ROOT>> \in DOMAIN tree /\ <<ROOT>> \in Seq(Names) /\ tree[<<ROOT>>].kind = "directory"
    BY TreeIs
<1>2. w \in [1 .. 1 -> DOMAIN tree] /\ w[1] = <<ROOT>> /\ Last(<<ROOT>>) = ROOT
    BY <1>1 DEF Last
<1>3. Target(<<ROOT>>) = <<ROOT>>
    BY <1>1 DEF Target
<1>4. [i \in 1 .. 1 |-> Last(w[i])] = <<ROOT>>
    BY <1>2
<1> HIDE DEF w
<1>5. IsWalkTo(w, 1, <<ROOT>>, <<ROOT>>)
    BY <1>2, <1>3, <1>4 DEF IsWalkTo
<1>6. 1 \in Nat \ {0} /\ Len(<<ROOT>>) = 1
    OBVIOUS
<1>7. \E u : IsWalkTo(u, 1, <<ROOT>>, <<ROOT>>)
    BY <1>5
<1> QED
    BY <1>1, <1>6, <1>7, LeadsIs

\* A path that leads to a directory leads on to each of its children.
LEMMA LeadsToChild ==
    ASSUME tree \in Trees, NEW path \in Seq(Names), path # <<>>, NEW dir, Leads(path, dir),
           dir \in DOMAIN tree, tree[dir].kind = "directory", NEW c \in Children(dir)
    PROVE  /\ Append(path, Last(c)) \in Seq(Names)
           /\ Len(Append(path, Last(c))) = Len(path) + 1
           /\ Leads(Append(path, Last(c)), Target(c))
<1>1. c \in DOMAIN tree /\ c \in Seq(Names) /\ c # <<>>
    BY TreeIs DEF Children
<1>2. Last(c) \in Names
    <2>1. Len(c) \in 1 .. Len(c)
        BY <1>1, WholeOf
    <2> QED
        BY <1>1, <2>1, ElementOfSeq DEF Last
<1>3. PICK n \in Nat \ {0} : n = Len(path)
    BY WholeOf
<1>4. PICK longer \in Seq(Names) :
          /\ longer = Append(path, Last(c)) /\ Len(longer) = n + 1
          /\ \A i \in 1 .. n : longer[i] = path[i]
          /\ longer[n + 1] = Last(c)
    <2>1. PICK name \in Names : name = Last(c)
        BY <1>2
    <2>2. /\ Append(path, name) \in Seq(Names) /\ Len(Append(path, name)) = n + 1
          /\ \A i \in 1 .. n : Append(path, name)[i] = path[i]
          /\ Append(path, name)[n + 1] = name
        BY <1>3, AppendProperties
    <2> QED
        BY <2>1, <2>2, Zenon
<1>5. PICK w : IsWalkTo(w, n, path, dir)
    BY <1>3, LeadsIs
<1>6. /\ w \in [1 .. n -> DOMAIN tree]
      /\ w[1] = <<ROOT>>
      /\ \A i \in 2 .. n : Kind(w[i - 1]) = "directory" /\ w[i] \in Children(Target(w[i - 1]))
      /\ path = [i \in 1 .. n |-> Last(w[i])]
      /\ dir = Target(w[n])
    BY <1>5 DEF IsWalkTo
<1>7. Kind(w[n]) = "directory"
    BY <1>6 DEF Kind
<1> DEFINE v == [i \in 1 .. n + 1 |-> IF i = n + 1 THEN c ELSE w[i]]
<1>8. /\ v \in [1 .. n + 1 -> DOMAIN tree]
      /\ \A i \in 1 .. n : v[i] = w[i]
      /\ v[n + 1] = c
    BY <1>1, <1>6
<1> HIDE DEF v
<1>9. v[1] = <<ROOT>>
    BY <1>6, <1>8
<1>10. ASSUME NEW i \in 2 .. n + 1
       PROVE  Kind(v[i - 1]) = "directory" /\ v[i] \in Children(Target(v[i - 1]))
    <2>1. CASE i = n + 1
        <3>1. v[i] = c /\ v[i - 1] = w[n]
            BY <2>1, <1>8
        <3> QED
            BY <3>1, <1>6, <1>7
    <2>2. CASE i \in 2 .. n
        <3>1. v[i] = w[i] /\ v[i - 1] = w[i - 1]
            BY <2>2, <1>8
        <3> QED
            BY <2>2, <3>1, <1>6
    <2> QED
        BY <2>1, <2>2
<1>11. longer = [i \in 1 .. n + 1 |-> Last(v[i])]
    <2>1. ASSUME NEW i \in 1 .. n + 1 PROVE longer[i] = Last(v[i])
        <3>1. CASE i = n + 1
            BY <3>1, <1>4, <1>8
        <3>2. CASE i \in 1 .. n
            BY <3>2, <1>4, <1>6, <1>8
        <3> QED
            BY <3>1, <3>2
    <2>2. longer = [i \in 1 .. n + 1 |-> longer[i]]
        BY <1>4, LenProperties
    <2> QED
        BY <2>1, <2>2
<1>12. IsWalkTo(v, n + 1, longer, Target(c))
    BY <1>8, <1>9, <1>10, <1>11 DEF IsWalkTo
<1>13. n + 1 \in Nat \ {0} /\ n + 1 = Len(longer)
    BY <1>4
<1>14. Leads(longer, Target(c))
    BY <1>12, <1>13, LeadsIs
<1> QED
    BY <1>3, <1>4, <1>14

\* In a directory a name is there once.
LEMMA OneChild ==
    ASSUME tree \in Trees, NEW dir, NEW c \in Children(dir), NEW d \in Children(dir),
           Last(c) = Last(d)
    PROVE  c = d
<1>1. /\ c \in Seq(Names) /\ c # <<>> /\ d \in Seq(Names) /\ d # <<>>
      /\ Len(c) = Len(dir) + 1 /\ Len(d) = Len(dir) + 1 /\ Front(c) = dir /\ Front(d) = dir
    BY TreeIs DEF Children
<1>2. PICK n \in Nat \ {0} : n = Len(c) /\ n = Len(d)
    BY <1>1, WholeOf
<1>3. ASSUME NEW s \in Seq(Names), n = Len(s), Front(s) = dir, NEW j \in 1 .. n - 1
      PROVE  s[j] = dir[j]
    <2>1. n - 1 \in Nat /\ n - 1 <= Len(s) /\ 1 \in Nat \ {0}
        BY <1>3
    <2>2. dir = SubSeq(s, 1, n - 1)
        BY <1>3 DEF Front
    <2>3. \A i \in 1 .. (n - 1) - 1 + 1 : SubSeq(s, 1, n - 1)[i] = s[1 + i - 1]
        BY <2>1, PartOf
    <2>4. j \in 1 .. (n - 1) - 1 + 1 /\ 1 + j - 1 = j
        OBVIOUS
    <2> QED
        BY <2>2, <2>3, <2>4
<1>4. ASSUME NEW j \in 1 .. Len(c) PROVE c[j] = d[j]
    <2>1. CASE j = n
        BY <2>1, <1>2 DEF Last
    <2>2. CASE j # n
        <3>1. j \in 1 .. n - 1
            BY <2>2, <1>2
        <3>2. c[j] = dir[j]
            BY <3>1, <1>1, <1>2, <1>3
        <3>3. d[j] = dir[j]
            BY <3>1, <1>1, <1>2, <1>3
        <3> QED
            BY <3>2, <3>3
    <2> QED
        BY <2>1, <2>2
<1> QED
    BY <1>1, <1>2, <1>4, SeqEqual

\* Only one way has a path.
LEMMA OneWalk ==
    ASSUME tree \in Trees, NEW n \in Nat \ {0}, NEW path, NEW v, NEW w, NEW x, NEW y,
           IsWalkTo(v, n, path, x), IsWalkTo(w, n, path, y)
    PROVE  v = w /\ x = y
<1>1. /\ v \in [1 .. n -> DOMAIN tree]
      /\ v[1] = <<ROOT>>
      /\ \A i \in 2 .. n : v[i] \in Children(Target(v[i - 1]))
      /\ path = [i \in 1 .. n |-> Last(v[i])]
      /\ x = Target(v[n])
    BY DEF IsWalkTo
<1>2. /\ w \in [1 .. n -> DOMAIN tree]
      /\ w[1] = <<ROOT>>
      /\ \A i \in 2 .. n : w[i] \in Children(Target(w[i - 1]))
      /\ path = [i \in 1 .. n |-> Last(w[i])]
      /\ y = Target(w[n])
    BY DEF IsWalkTo
<1>3. \A i \in 1 .. n : Last(v[i]) = Last(w[i])
    <2>1. \A i \in 1 .. n : path[i] = Last(v[i])
        BY <1>1
    <2>2. \A i \in 1 .. n : path[i] = Last(w[i])
        BY <1>2
    <2> QED
        BY <2>1, <2>2
<1> DEFINE S == {i \in Nat : i + 1 <= n => v[i + 1] = w[i + 1]}
<1>4. 0 \in S
    <2>1. v[0 + 1] = w[0 + 1]
        <3>1. v[1] = w[1]
            BY <1>1, <1>2, Zenon
        <3> QED
            BY <3>1
    <2> QED
        BY <2>1
<1>5. ASSUME NEW i \in S PROVE i + 1 \in S
    <2> SUFFICES ASSUME (i + 1) + 1 <= n PROVE v[(i + 1) + 1] = w[(i + 1) + 1]
        OBVIOUS
    <2>1. PICK j \in 2 .. n : j = (i + 1) + 1 /\ j - 1 = i + 1 /\ j \in 1 .. n
        OBVIOUS
    <2>2. v[j - 1] = w[j - 1]
        BY <2>1
    <2>3. v[j] \in Children(Target(v[j - 1])) /\ w[j] \in Children(Target(v[j - 1]))
        BY <2>2, <1>1, <1>2
    <2>4. Last(v[j]) = Last(w[j])
        BY <2>1, <1>3
    <2>5. v[j] = w[j]
        BY <2>3, <2>4, OneChild
    <2> QED
        BY <2>1, <2>5
<1>6. S \in SUBSET Nat
    OBVIOUS
<1> HIDE DEF S
<1>7. S = Nat
    BY <1>4, <1>5, <1>6, AllOfNat
<1>8. ASSUME NEW i \in 1 .. n PROVE v[i] = w[i]
    <2>1. i - 1 \in Nat /\ (i - 1) + 1 = i /\ i <= n
        OBVIOUS
    <2>2. i - 1 \in S
        BY <2>1, <1>7
    <2> QED
        BY <2>1, <2>2 DEF S
<1>9. v = w
    BY <1>1, <1>2, <1>8
<1> QED
    BY <1>1, <1>2, <1>9

\* Once all calls of packDirectory have returned, everything there is a way to
\* was visited.
LEMMA AllVisited ==
    ASSUME tree \in Trees, Visits, NoneForgotten, pc \notin {"create", "pack_failed"}, stack = <<>>,
           visited \in Seq([path : Seq(Names), node : DOMAIN tree, start : Nat]),
           NEW n \in Nat \ {0}, NEW path, NEW node, NEW w, IsWalkTo(w, n, path, node),
           Kind(w[n]) \notin {"special", "missing"}
    PROVE  VisitedAs(path, node)
<1>1. /\ w \in [1 .. n -> DOMAIN tree]
      /\ w[1] = <<ROOT>>
      /\ \A i \in 2 .. n : Kind(w[i - 1]) = "directory" /\ w[i] \in Children(Target(w[i - 1]))
      /\ path = [i \in 1 .. n |-> Last(w[i])]
      /\ node = Target(w[n])
    BY DEF IsWalkTo
<1>2. ASSUME NEW i \in 1 .. n PROVE Kind(w[i]) \notin {"special", "missing"}
    <2>1. CASE i = n
        BY <2>1
    <2>2. CASE i # n
        <3>1. i + 1 \in 2 .. n /\ (i + 1) - 1 = i
            BY <2>2
        <3>2. Kind(w[i]) = "directory"
            BY <3>1, <1>1
        <3> QED
            BY <3>2
    <2> QED
        BY <2>1, <2>2
<1> DEFINE P(i) == [j \in 1 .. i |-> Last(w[j])]
           S == {i \in Nat : i + 1 <= n => VisitedAs(P(i + 1), Target(w[i + 1]))}
<1>3. 0 \in S
    <2>1. 1 \in 1 .. Len(visited)
        <3>1. visited # <<>>
            BY DEF Visits
        <3> QED
            BY <3>1, WholeOf
    <2>2. visited[1].path = <<ROOT>> /\ visited[1].node = <<ROOT>>
        BY <2>1 DEF Visits
    <2>3. P(1) = <<ROOT>>
        <3>1. Last(<<ROOT>>) = ROOT
            BY DEF Last
        <3>2. Last(w[1]) = ROOT
            BY <3>1, <1>1
        <3>3. \A j \in 1 .. 1 : Last(w[j]) = ROOT
            BY <3>2
        <3>4. P(1) = [j \in 1 .. 1 |-> ROOT]
            BY <3>3
        <3> HIDE DEF P
        <3> QED
            BY <3>4
    <2>4. Target(w[1]) = <<ROOT>>
        <3>1. tree[<<ROOT>>].kind = "directory"
            BY TreeIs
        <3> QED
            BY <3>1, <1>1 DEF Target
    <2>5. VisitedAs(P(1), Target(w[1]))
        BY <2>1, <2>2, <2>3, <2>4 DEF VisitedAs
    <2> QED
        BY <2>5
<1>4. ASSUME NEW i \in S PROVE i + 1 \in S
    <2> SUFFICES ASSUME (i + 1) + 1 <= n PROVE VisitedAs(P((i + 1) + 1), Target(w[(i + 1) + 1]))
        OBVIOUS
    <2>1. PICK k \in 1 .. n : k = i + 1 /\ k + 1 \in 2 .. n /\ (k + 1) - 1 = k /\ k + 1 \in 1 .. n
        OBVIOUS
    <2>2. VisitedAs(P(k), Target(w[k]))
        BY <2>1
    <2>3. PICK j \in 1 .. Len(visited) : visited[j].path = P(k) /\ visited[j].node = Target(w[k])
        BY <2>2 DEF VisitedAs
    <2>4. Kind(w[k]) = "directory" /\ w[k + 1] \in Children(visited[j].node)
        BY <2>1, <2>3, <1>1
    <2>5. NodeKind(j) = "directory"
        BY <2>3, <2>4 DEF NodeKind, Kind
    <2>6. ~Pending(visited[j].path, w[k + 1])
        BY DEF Pending
    <2>7. VisitedAs(Append(visited[j].path, Last(w[k + 1])), Target(w[k + 1]))
        BY <2>1, <2>4, <2>5, <2>6, <1>2 DEF NoneForgotten
    <2>8. P(k + 1) = Append(P(k), Last(w[k + 1]))
        OBVIOUS
    <2> QED
        BY <2>1, <2>3, <2>7, <2>8
<1>5. S \in SUBSET Nat
    OBVIOUS
<1> HIDE DEF S
<1>6. S = Nat
    BY <1>3, <1>4, <1>5, AllOfNat
<1>7. n - 1 \in S /\ (n - 1) + 1 = n
    BY <1>6
<1>8. VisitedAs(P(n), Target(w[n]))
    BY <1>7 DEF S
<1> QED
    BY <1>1, <1>8

\* A way on which a directory is met again has ways of every length before it.
LEMMA RoundAgain ==
    ASSUME NEW n \in Nat \ {0}, NEW path, NEW node, NEW w, IsWalkTo(w, n, path, node),
           NEW i \in 1 .. n - 1, Target(w[i]) = node,
           NEW m \in Nat \ {0}, NEW q, NEW v, IsWalkTo(v, m, q, node)
    PROVE  \E u, r : IsWalkTo(u, m + (n - i), r, node)
<1>1. /\ w \in [1 .. n -> DOMAIN tree]
      /\ \A j \in 2 .. n : Kind(w[j - 1]) = "directory" /\ w[j] \in Children(Target(w[j - 1]))
      /\ node = Target(w[n])
    BY DEF IsWalkTo
<1>2. /\ v \in [1 .. m -> DOMAIN tree]
      /\ v[1] = <<ROOT>>
      /\ \A j \in 2 .. m : Kind(v[j - 1]) = "directory" /\ v[j] \in Children(Target(v[j - 1]))
      /\ node = Target(v[m])
    BY DEF IsWalkTo
<1>3. PICK d \in Nat \ {0} : d = n - i
    OBVIOUS
<1> DEFINE u == [j \in 1 .. m + d |-> IF j <= m THEN v[j] ELSE w[i + (j - m)]]
<1>4. ASSUME NEW j \in 1 .. m + d, ~(j <= m) PROVE i + (j - m) \in 1 .. n /\ u[j] = w[i + (j - m)]
    BY <1>3, <1>4
<1>5. ASSUME NEW j \in 1 .. m PROVE u[j] = v[j]
    OBVIOUS
<1>6. u \in [1 .. m + d -> DOMAIN tree]
    <2>1. ASSUME NEW j \in 1 .. m + d
          PROVE  (IF j <= m THEN v[j] ELSE w[i + (j - m)]) \in DOMAIN tree
        <3>1. CASE j <= m
            BY <3>1, <1>2
        <3>2. CASE ~(j <= m)
            BY <3>2, <1>1, <1>4
        <3> QED
            BY <3>1, <3>2
    <2> QED
        BY <2>1
<1> HIDE DEF u
<1>7. u[1] = <<ROOT>>
    BY <1>2, <1>5
<1>8. Kind(v[m]) = "directory"
    <2>1. i + 1 \in 2 .. n /\ (i + 1) - 1 = i
        OBVIOUS
    <2>2. Kind(w[i]) = "directory"
        BY <2>1, <1>1
    <2> QED
        BY <2>2, <1>2 DEF Kind
<1>9. ASSUME NEW j \in 2 .. m + d
      PROVE  Kind(u[j - 1]) = "directory" /\ u[j] \in Children(Target(u[j - 1]))
    <2>1. CASE j <= m
        <3>1. u[j] = v[j] /\ u[j - 1] = v[j - 1] /\ j \in 2 .. m
            BY <2>1, <1>5
        <3> QED
            BY <3>1, <1>2
    <2>2. CASE j = m + 1
        <3>1. u[j - 1] = v[m]
            BY <2>2, <1>5
        <3>2. i + 1 \in 2 .. n /\ (i + 1) - 1 = i /\ i + (j - m) = i + 1 /\ ~(j <= m) /\ j \in 1 .. m + d
            BY <2>2
        <3>3. u[j] = w[i + 1]
            BY <3>2, <1>4
        <3>4. w[i + 1] \in Children(Target(w[i]))
            BY <3>2, <1>1
        <3> QED
            BY <3>1, <3>3, <3>4, <1>2, <1>8
    <2>3. CASE j > m + 1
        <3>1. /\ ~(j <= m) /\ ~(j - 1 <= m) /\ j \in 1 .. m + d /\ j - 1 \in 1 .. m + d
              /\ i + (j - m) \in 2 .. n /\ (i + (j - m)) - 1 = i + ((j - 1) - m)
            BY <2>3, <1>3
        <3>2. PICK k \in 2 .. n : k = i + (j - m) /\ k - 1 = i + ((j - 1) - m)
            BY <3>1
        <3>3. u[j] = w[k] /\ u[j - 1] = w[k - 1]
            BY <3>1, <3>2, <1>4
        <3> QED
            BY <3>3, <1>1
    <2> QED
        BY <2>1, <2>2, <2>3
<1>10. Target(u[m + d]) = node
    <2>1. m + d \in 1 .. m + d /\ ~(m + d <= m) /\ i + ((m + d) - m) = n
        BY <1>3
    <2>2. u[m + d] = w[n]
        BY <2>1, <1>4
    <2> QED
        BY <2>2, <1>1
<1> DEFINE r == [j \in 1 .. m + d |-> Last(u[j])]
<1>11. IsWalkTo(u, m + d, r, node)
    BY <1>6, <1>7, <1>9, <1>10 DEF IsWalkTo
<1> QED
    BY <1>3, <1>11

\* What packDirectory went through does not lead back to itself.
LEMMA NoWayBack ==
    ASSUME NEW b \in Nat, NEW node,
           \A m \in Nat \ {0} : (\E u, r : IsWalkTo(u, m, r, node)) => m <= b,
           NEW n \in Nat \ {0}, NEW path, NEW w, IsWalkTo(w, n, path, node), NEW i \in 1 .. n - 1
    PROVE  Target(w[i]) # node
<1> SUFFICES ASSUME Target(w[i]) = node PROVE FALSE
    OBVIOUS
<1> DEFINE T == {m \in Nat \ {0} : \E u, r : IsWalkTo(u, m, r, node)}
<1>1. n \in T
    OBVIOUS
<1>2. T \in SUBSET Nat /\ T # {}
    BY <1>1
<1>3. \A m \in T : m <= b
    OBVIOUS
<1>4. ASSUME NEW m \in T PROVE m + (n - i) \in T
    <2>1. m \in Nat \ {0} /\ m + (n - i) \in Nat \ {0}
        OBVIOUS
    <2>2. PICK u, r : IsWalkTo(u, m, r, node)
        OBVIOUS
    <2>3. \E u1, r1 : IsWalkTo(u1, m + (n - i), r1, node)
        BY <2>1, <2>2, RoundAgain
    <2> QED
        BY <2>1, <2>3
<1> HIDE DEF T
<1>5. PICK x \in T : \A y \in T : y <= x
    BY <1>2, <1>3, GreatestOf
<1>6. x + (n - i) <= x
    BY <1>4, <1>5
<1>7. x \in Nat
    BY <1>2
<1> QED
    BY <1>6, <1>7

\* A walk as a member of Walks.
LEMMA WalksAre ==
    ASSUME NEW n \in Nat \ {0}, NEW w \in Walks(n)
    PROVE  /\ IsWalkTo(w, n, PathOf(w), EndOf(w))
           /\ Last(w) = w[n] /\ EndOf(w) = Target(w[n]) /\ Len(PathOf(w)) = n
           /\ Kind(Last(w)) # "missing" =>
                  EndOf(w) \in DOMAIN tree /\ tree[EndOf(w)].kind = Kind(Last(w))
<1>1. w \in [1 .. n -> DOMAIN tree]
    BY DEF Walks
<1>2. /\ IsWalkTo(w, n, PathOf(w), EndOf(w))
      /\ Last(w) = w[n] /\ EndOf(w) = Target(w[n]) /\ Len(PathOf(w)) = n
    BY <1>1, WalkIs
<1>3. Kind(w[n]) # "missing" => Target(w[n]) \in DOMAIN tree /\ tree[Target(w[n])].kind = Kind(w[n])
    BY DEF Kind
<1> QED
    BY <1>2, <1>3

\* What was visited by the end of packing, for every way.
LEMMA EveryWayVisited ==
    ASSUME tree \in Trees, Visits, NoneForgotten, pc \notin {"create", "pack_failed"}, stack = <<>>,
           visited \in Seq([path : Seq(Names), node : DOMAIN tree, start : Nat]),
           NEW n \in Nat \ {0}, NEW w \in Walks(n), Kind(Last(w)) \notin {"special", "missing"}
    PROVE  /\ n <= PATH_MAX_LEN
           /\ \E j \in 1 .. Len(visited) :
                  /\ visited[j].path = PathOf(w) /\ visited[j].node = EndOf(w)
                  /\ NodeKind(j) = Kind(Last(w))
           /\ Kind(Last(w)) \in {"directory", "file"}
<1>1. /\ IsWalkTo(w, n, PathOf(w), EndOf(w))
      /\ Last(w) = w[n] /\ EndOf(w) = Target(w[n]) /\ Len(PathOf(w)) = n
      /\ tree[EndOf(w)].kind = Kind(Last(w))
    BY WalksAre
<1>2. VisitedAs(PathOf(w), EndOf(w))
    BY <1>1, AllVisited
<1>3. PICK j \in 1 .. Len(visited) : visited[j].path = PathOf(w) /\ visited[j].node = EndOf(w)
    BY <1>2 DEF VisitedAs
<1>4. NodeKind(j) = Kind(Last(w))
    BY <1>1, <1>3 DEF NodeKind
<1>5. /\ Len(visited[j].path) \in 1 .. PATH_MAX_LEN
      /\ NodeKind(j) \in {"directory", "file", "unreadable"}
      /\ NodeKind(j) # "unreadable"
    BY DEF Visits
<1>6. n <= PATH_MAX_LEN
    BY <1>1, <1>3, <1>5
<1> QED
    BY <1>3, <1>4, <1>5, <1>6

\* When every call has returned with nothing forgotten, every walk was followed
\* to its end: none of them led to what cannot be packed.
LEMMA PackedWhole ==
    ASSUME tree \in Trees, Visits, Calls, NoneForgotten,
           visited \in Seq([path : Seq(Names), node : DOMAIN tree, start : Nat])
    PROVE  NoPartForTheWhole
<1> USE ArchiveAssumption
<1> SUFFICES ASSUME pc = "packed", NEW n \in 1 .. PATH_MAX_LEN + 1, NEW w \in Walks(n)
             PROVE  /\ Kind(Last(w)) # "unreadable"
                    /\ n > PATH_MAX_LEN => Kind(Last(w)) \in {"special", "missing"}
                    /\ \A i \in 1 .. n - 1 : EndOf(w) # Target(w[i])
    BY DEF NoPartForTheWhole
<1>1. n \in Nat \ {0} /\ stack = <<>>
    BY DEF Calls
<1>2. /\ IsWalkTo(w, n, PathOf(w), EndOf(w))
      /\ Last(w) = w[n] /\ EndOf(w) = Target(w[n])
    BY <1>1, WalksAre
<1>3. Kind(Last(w)) # "unreadable"
    BY <1>1, EveryWayVisited
<1>4. n > PATH_MAX_LEN => Kind(Last(w)) \in {"special", "missing"}
    <2>1. Kind(Last(w)) \notin {"special", "missing"} => n <= PATH_MAX_LEN
        BY <1>1, EveryWayVisited
    <2> QED
        BY <1>1, <2>1
<1>5. ASSUME NEW i \in 1 .. n - 1 PROVE EndOf(w) # Target(w[i])
    <2> SUFFICES ASSUME Target(w[i]) = EndOf(w) PROVE FALSE
        OBVIOUS
    <2>1. Kind(w[i]) = "directory"
        <3>1. i + 1 \in 2 .. n /\ (i + 1) - 1 = i
            BY <1>1
        <3> QED
            BY <3>1, <1>2 DEF IsWalkTo
    <2>2. ASSUME NEW m \in Nat \ {0}, NEW u, NEW r, IsWalkTo(u, m, r, EndOf(w))
          PROVE  m <= PATH_MAX_LEN
        <3>1. u \in [1 .. m -> DOMAIN tree] /\ r = [j \in 1 .. m |-> Last(u[j])]
              /\ EndOf(w) = Target(u[m])
            BY <2>2 DEF IsWalkTo
        <3>2. Kind(u[m]) = "directory"
            BY <3>1, <2>1 DEF Kind
        <3>3. /\ PathOf(u) = r /\ EndOf(u) = EndOf(w) /\ Last(u) = u[m]
              /\ u \in Walks(m) <=> IsWalkTo(u, m, PathOf(u), EndOf(u))
            BY <3>1, WalkIs
        <3>4. u \in Walks(m)
            BY <2>2, <3>3
        <3> QED
            BY <3>2, <3>3, <3>4, <1>1, EveryWayVisited
    <2>3. PATH_MAX_LEN \in Nat
        OBVIOUS
    <2>4. \A m \in Nat \ {0} : (\E u, r : IsWalkTo(u, m, r, EndOf(w))) => m <= PATH_MAX_LEN
        BY <2>2
    <2>5. Target(w[i]) # EndOf(w)
        BY <2>3, <2>4, <1>1, <1>2, NoWayBack
    <2> QED
        BY <2>5
<1> QED
    BY <1>3, <1>4, <1>5

-----------------------------------------------------------------------------
(* What packDirectory visits *)

Entries == [path : Seq(Names), node : DOMAIN tree, start : Nat]
Frames == [relative_path : Seq(Names), todo : SUBSET DOMAIN tree]

\* A step that visits nothing.
LEMMA SameVisits ==
    ASSUME Visits, tree' = tree, visited' = visited, pc' # "create",
           pc' # "pack_failed" => pc \notin {"create", "pack_failed"}
    PROVE  Visits'
<1>1. ASSUME NEW i \in 1 .. Len(visited')
      PROVE  /\ Leads(visited[i].path, visited[i].node)'
             /\ Len(visited'[i].path) \in 1 .. PATH_MAX_LEN
             /\ NodeKind(i)' \in {"directory", "file", "unreadable"}
             /\ NodeKind(i)' = "unreadable" => pc' = "pack_failed"
             /\ i = 1 => visited'[i].path = <<ROOT>> /\ visited'[i].node = <<ROOT>>
    <2>1. NodeKind(i)' = NodeKind(i) /\ i \in 1 .. Len(visited)
        BY DEF NodeKind
    <2>2. Leads(visited[i].path, visited[i].node)' <=> Leads(visited[i].path, visited[i].node)
        BY SameTree DEF Leads
    <2> QED
        BY <2>1, <2>2 DEF Visits
<1> QED
    BY <1>1 DEF Visits

\* A step that visits one entry more.
LEMMA MoreVisits ==
    ASSUME Visits, tree' = tree, visited \in Seq(Entries), pc \notin {"pack_failed"},
           NEW e \in Entries, visited' = Append(visited, e),
           Leads(e.path, e.node), Len(e.path) \in 1 .. PATH_MAX_LEN,
           tree[e.node].kind \in {"directory", "file", "unreadable"},
           tree[e.node].kind = "unreadable" => pc' = "pack_failed",
           visited = <<>> => e.path = <<ROOT>> /\ e.node = <<ROOT>>,
           pc' # "create"
    PROVE  Visits'
<1>1. PICK n \in Nat : n = Len(visited)
    BY LenProperties
<1>2. /\ Len(visited') = n + 1 /\ visited'[n + 1] = e
      /\ \A i \in 1 .. n : visited'[i] = visited[i]
    BY <1>1, AppendProperties
<1>3. ASSUME NEW i \in 1 .. n
      PROVE  /\ Leads(visited[i].path, visited[i].node)'
             /\ Len(visited'[i].path) \in 1 .. PATH_MAX_LEN
             /\ NodeKind(i)' \in {"directory", "file", "unreadable"}
             /\ NodeKind(i)' = "unreadable" => pc' = "pack_failed"
             /\ i = 1 => visited'[i].path = <<ROOT>> /\ visited'[i].node = <<ROOT>>
    <2>1. visited'[i] = visited[i]
        BY <1>2
    <2>2. NodeKind(i)' = NodeKind(i) /\ i \in 1 .. Len(visited)
        BY <1>1, <2>1 DEF NodeKind
    <2>3. PICK path, node : path = visited[i].path /\ node = visited[i].node
        OBVIOUS
    <2>4. Leads(path, node)' <=> Leads(path, node)
        BY SameTree
    <2> QED
        BY <2>1, <2>2, <2>3, <2>4 DEF Visits
<1>4. /\ Leads(visited[n + 1].path, visited[n + 1].node)'
      /\ NodeKind(n + 1)' = tree[e.node].kind
    <2>1. PICK path, node : path = e.path /\ node = e.node
        OBVIOUS
    <2>2. Leads(path, node)' <=> Leads(path, node)
        BY SameTree
    <2> QED
        BY <2>1, <2>2, <1>2 DEF NodeKind
<1>5. n + 1 = 1 => visited = <<>>
    BY <1>1, WholeOf
<1>6. ASSUME NEW i \in 1 .. Len(visited')
      PROVE  /\ Leads(visited[i].path, visited[i].node)'
             /\ Len(visited'[i].path) \in 1 .. PATH_MAX_LEN
             /\ NodeKind(i)' \in {"directory", "file", "unreadable"}
             /\ NodeKind(i)' = "unreadable" => pc' = "pack_failed"
             /\ i = 1 => visited'[i].path = <<ROOT>> /\ visited'[i].node = <<ROOT>>
    <2>1. CASE i = n + 1
        BY <2>1, <1>2, <1>4, <1>5
    <2>2. CASE i \in 1 .. n
        BY <2>2, <1>3
    <2> QED
        BY <2>1, <2>2, <1>2
<1>7. visited' # <<>>
    BY <1>2
<1> QED
    BY <1>6, <1>7 DEF Visits

\* What a step may do to the entries and the calls.
EntriesKept == \A i \in 1 .. Len(visited) : i \in 1 .. Len(visited') /\ visited'[i] = visited[i]

CallsGoOn ==
    \A s \in 1 .. Len(stack') :
        \/ \E r \in 1 .. Len(stack) :
               /\ stack'[s].relative_path = stack[r].relative_path
               /\ stack'[s].todo \subseteq stack[r].todo
        \/ \E i \in 1 .. Len(visited') :
               /\ visited'[i].path = stack'[s].relative_path
               /\ tree[visited'[i].node].kind = "directory"
               /\ stack'[s].todo \subseteq Children(visited'[i].node)

PendingGoesOn ==
    \A path, c : Pending(path, c) =>
        \/ Pending(path, c)'
        \/ Kind(c) \in {"special", "missing"}
        \/ VisitedAs(Append(path, Last(c)), Target(c))'

\* Calls that go on work on directories that were visited.
LEMMA CallsKept ==
    ASSUME Calls, tree' = tree, EntriesKept, CallsGoOn,
           pc' \in {"pack", "compress"} => stack' # <<>>,
           pc' \notin {"create", "pack", "compress", "pack_failed"} => stack' = <<>>
    PROVE  Calls'
<1>1. ASSUME NEW s \in 1 .. Len(stack')
      PROVE  \E i \in 1 .. Len(visited') :
                 /\ visited'[i].path = stack'[s].relative_path
                 /\ NodeKind(i)' = "directory"
                 /\ stack'[s].todo \subseteq Children(visited[i].node)'
    <2>1. CASE \E r \in 1 .. Len(stack) :
                   /\ stack'[s].relative_path = stack[r].relative_path
                   /\ stack'[s].todo \subseteq stack[r].todo
        <3>1. PICK r \in 1 .. Len(stack) :
                   /\ stack'[s].relative_path = stack[r].relative_path
                   /\ stack'[s].todo \subseteq stack[r].todo
            BY <2>1
        <3>2. PICK i \in 1 .. Len(visited) :
                  /\ visited[i].path = stack[r].relative_path
                  /\ NodeKind(i) = "directory"
                  /\ stack[r].todo \subseteq Children(visited[i].node)
            BY DEF Calls
        <3>3. i \in 1 .. Len(visited') /\ visited'[i] = visited[i]
            BY DEF EntriesKept
        <3>4. NodeKind(i)' = NodeKind(i)
            BY <3>3 DEF NodeKind
        <3>5. PICK dir : dir = visited[i].node /\ dir = visited'[i].node
            BY <3>3
        <3>6. Children(dir)' = Children(dir)
            BY SameTree
        <3> QED
            BY <3>1, <3>2, <3>3, <3>4, <3>5, <3>6
    <2>2. CASE \E i \in 1 .. Len(visited') :
                   /\ visited'[i].path = stack'[s].relative_path
                   /\ tree[visited'[i].node].kind = "directory"
                   /\ stack'[s].todo \subseteq Children(visited'[i].node)
        <3>1. PICK i \in 1 .. Len(visited') :
                   /\ visited'[i].path = stack'[s].relative_path
                   /\ tree[visited'[i].node].kind = "directory"
                   /\ stack'[s].todo \subseteq Children(visited'[i].node)
            BY <2>2
        <3>2. NodeKind(i)' = "directory"
            BY <3>1 DEF NodeKind
        <3>3. PICK dir : dir = visited'[i].node
            OBVIOUS
        <3>4. Children(dir)' = Children(dir)
            BY SameTree
        <3> QED
            BY <3>1, <3>2, <3>3, <3>4
    <2> QED
        BY <2>1, <2>2 DEF CallsGoOn
<1> QED
    BY <1>1 DEF Calls

\* Nothing is forgotten when what was pending still is or was just visited.
LEMMA NoneForgottenKept ==
    ASSUME NoneForgotten, pc # "pack_failed", tree' = tree, EntriesKept, PendingGoesOn,
           \A i \in 1 .. Len(visited') :
               \/ i \in 1 .. Len(visited)
               \/ tree[visited'[i].node].kind # "directory"
               \/ \A c \in Children(visited'[i].node) : Pending(visited[i].path, c)'
    PROVE  NoneForgotten'
<1> SUFFICES ASSUME NEW i \in 1 .. Len(visited'), NodeKind(i)' = "directory",
                    NEW c \in Children(visited[i].node)'
             PROVE  \/ Kind(c)' \in {"special", "missing"}
                    \/ Pending(visited[i].path, c)'
                    \/ VisitedAs(Append(visited[i].path, Last(c)), Target(c))'
    BY DEF NoneForgotten
<1>1. PICK path, dir : path = visited'[i].path /\ dir = visited'[i].node
    OBVIOUS
<1>2. Children(dir)' = Children(dir) /\ Kind(c)' = Kind(c) /\ Target(c)' = Target(c)
    BY SameTree
<1>3. c \in Children(dir)
    BY <1>1, <1>2
<1>4. tree[dir].kind = "directory"
    BY <1>1 DEF NodeKind
<1>5. PICK longer, target : longer = Append(path, Last(c)) /\ target = Target(c)
    OBVIOUS
<1>6. \/ Kind(c) \in {"special", "missing"} \/ Pending(path, c)' \/ VisitedAs(longer, target)'
    <2>1. CASE i \in 1 .. Len(visited)
        <3>1. visited'[i] = visited[i]
            BY <2>1 DEF EntriesKept
        <3>2. NodeKind(i) = "directory" /\ path = visited[i].path /\ dir = visited[i].node
            BY <3>1, <1>1, <1>4 DEF NodeKind
        <3>3. \/ Kind(c) \in {"special", "missing"} \/ Pending(path, c) \/ VisitedAs(longer, target)
            BY <2>1, <3>2, <1>3, <1>5 DEF NoneForgotten
        <3>4. VisitedAs(longer, target) => VisitedAs(longer, target)'
            BY DEF VisitedAs, EntriesKept
        <3>5. Pending(path, c) =>
                  \/ Pending(path, c)' \/ Kind(c) \in {"special", "missing"} \/ VisitedAs(longer, target)'
            BY <1>2, <1>5 DEF PendingGoesOn
        <3> QED
            BY <3>3, <3>4, <3>5
    <2>2. CASE i \notin 1 .. Len(visited)
        BY <2>2, <1>1, <1>3, <1>4
    <2> QED
        BY <2>1, <2>2
<1> QED
    BY <1>1, <1>2, <1>5, <1>6

\* The calls without the child p of the innermost one.
CallsWithout(p, calls) ==
    /\ calls \in Seq(Frames) /\ Len(calls) = Len(stack) /\ Len(stack) \in Nat \ {0}
    /\ Last(stack) = stack[Len(stack)] /\ Last(stack) \in Frames
    /\ \A s \in 1 .. Len(stack) :
           /\ calls[s].relative_path = stack[s].relative_path
           /\ calls[s].todo \subseteq stack[s].todo
           /\ \A c \in stack[s].todo : c \in calls[s].todo \/ (s = Len(stack) /\ c = p)
    /\ p \notin calls[Len(stack)].todo

\* The innermost call without one of its children.
LEMMA CallsAre ==
    ASSUME stack \in Seq(Frames), stack # <<>>, NEW p,
           NEW calls, calls = [stack EXCEPT ![Len(stack)].todo = @ \ {p}]
    PROVE  CallsWithout(p, calls)
<1>1. PICK n \in Nat \ {0} : n = Len(stack)
    BY WholeOf
<1>2. stack \in [1 .. n -> Frames] /\ stack[n] \in Frames
    BY <1>1, LenProperties
<1>3. Last(stack) = stack[n]
    BY <1>1 DEF Last
<1>4. PICK frame : frame = [stack[n] EXCEPT !.todo = @ \ {p}]
    OBVIOUS
<1>5. frame \in Frames /\ frame.relative_path = stack[n].relative_path
      /\ frame.todo = stack[n].todo \ {p}
    BY <1>2, <1>4 DEF Frames
<1>6. calls = [stack EXCEPT ![n] = frame]
    BY <1>1, <1>4
<1>7. calls \in [1 .. n -> Frames] /\ calls[n] = frame /\ \A s \in 1 .. n : s # n => calls[s] = stack[s]
    <2>1. PICK f \in [1 .. n -> Frames], r \in Frames : f = stack /\ r = frame
        BY <1>2, <1>5
    <2>2. n \in 1 .. n
        OBVIOUS
    <2>3. [f EXCEPT ![n] = r] \in [1 .. n -> Frames] /\ [f EXCEPT ![n] = r][n] = r
          /\ \A s \in 1 .. n : s # n => [f EXCEPT ![n] = r][s] = f[s]
        BY <2>2
    <2> QED
        BY <2>1, <2>3, <1>6
<1>8. calls \in Seq(Frames) /\ Len(calls) = n
    BY <1>7
<1>9. ASSUME NEW s \in 1 .. n
      PROVE  /\ calls[s].relative_path = stack[s].relative_path
             /\ calls[s].todo \subseteq stack[s].todo
             /\ \A c \in stack[s].todo : c \in calls[s].todo \/ (s = n /\ c = p)
    <2>1. CASE s = n
        BY <2>1, <1>5, <1>7
    <2>2. CASE s # n
        BY <2>2, <1>7
    <2> QED
        BY <2>1, <2>2
<1>10. p \notin calls[n].todo
    BY <1>5, <1>7
<1> QED
    BY <1>1, <1>2, <1>3, <1>8, <1>9, <1>10 DEF CallsWithout

\* The child that is next, and how a way leads to it.
LEMMA ChildIs ==
    ASSUME tree \in Trees, visited \in Seq(Entries), stack \in Seq(Frames), Visits, Calls,
           pc = "pack", NEW p \in Last(stack).todo,
           NEW path, path = Append(Last(stack).relative_path, Last(p))
    PROVE  /\ stack # <<>> /\ visited # <<>>
           /\ p \in DOMAIN tree
           /\ path \in Seq(Names) /\ Len(path) \in Nat \ {0}
           /\ Leads(path, Target(p))
           /\ Kind(p) \notin {"special", "missing"} =>
                  Target(p) \in DOMAIN tree /\ tree[Target(p)].kind = Kind(p)
<1>1. stack # <<>> /\ visited # <<>>
    BY DEF Calls, Visits
<1>2. PICK n \in Nat \ {0} : n = Len(stack)
    BY <1>1, WholeOf
<1>3. n \in 1 .. Len(stack) /\ Last(stack) = stack[n]
    BY <1>2 DEF Last
<1>4. PICK i \in 1 .. Len(visited) :
          /\ visited[i].path = stack[n].relative_path
          /\ NodeKind(i) = "directory"
          /\ stack[n].todo \subseteq Children(visited[i].node)
    BY <1>3 DEF Calls
<1>5. visited[i].path \in Seq(Names) /\ visited[i].node \in DOMAIN tree
    <2>1. visited[i] \in Entries
        BY ElementOfSeq
    <2> QED
        BY <2>1 DEF Entries
<1>6. Leads(visited[i].path, visited[i].node) /\ Len(visited[i].path) \in 1 .. PATH_MAX_LEN
    BY DEF Visits
<1>7. PICK prefix \in Seq(Names), dir \in DOMAIN tree :
          /\ prefix = visited[i].path /\ dir = visited[i].node /\ prefix = Last(stack).relative_path
          /\ tree[dir].kind = "directory" /\ Leads(prefix, dir)
    BY <1>3, <1>4, <1>5, <1>6 DEF NodeKind
<1>8. prefix # <<>> /\ Len(prefix) \in Nat
    <2>1. Len(prefix) # 0 /\ Len(prefix) \in Nat
        BY <1>6, <1>7, LenProperties
    <2> QED
        BY <2>1
<1>9. p \in Children(dir)
    BY <1>3, <1>4, <1>7
<1>10. /\ Append(prefix, Last(p)) \in Seq(Names)
       /\ Len(Append(prefix, Last(p))) = Len(prefix) + 1
       /\ Leads(Append(prefix, Last(p)), Target(p))
    BY <1>7, <1>8, <1>9, LeadsToChild
<1>11. path \in Seq(Names) /\ Len(path) \in Nat \ {0} /\ Leads(path, Target(p))
    BY <1>7, <1>8, <1>10
<1>12. p \in DOMAIN tree
    BY <1>9 DEF Children
<1>13. Kind(p) \notin {"special", "missing"} =>
           Target(p) \in DOMAIN tree /\ tree[Target(p)].kind = Kind(p)
    BY DEF Kind
<1> QED
    BY <1>1, <1>11, <1>12, <1>13

\* The child is dealt with.
LEMMA ChildDone ==
    ASSUME tree' = tree, NEW p, NEW calls, CallsWithout(p, calls),
           \A s \in 1 .. Len(calls) : s \in 1 .. Len(stack') /\ stack'[s] = calls[s],
           NEW path, path = Append(Last(stack).relative_path, Last(p)),
           NEW target, target = Target(p),
           Kind(p) \in {"special", "missing"} \/ VisitedAs(path, target)'
    PROVE  PendingGoesOn
<1> SUFFICES ASSUME NEW q, NEW c, Pending(q, c)
             PROVE  \/ Pending(q, c)'
                    \/ Kind(c) \in {"special", "missing"}
                    \/ VisitedAs(Append(q, Last(c)), Target(c))'
    BY DEF PendingGoesOn
<1>1. PICK s \in 1 .. Len(stack) : stack[s].relative_path = q /\ c \in stack[s].todo
    BY DEF Pending
<1>2. /\ Len(calls) = Len(stack) /\ Last(stack) = stack[Len(stack)]
      /\ calls[s].relative_path = stack[s].relative_path
      /\ c \in calls[s].todo \/ (s = Len(stack) /\ c = p)
    BY <1>1 DEF CallsWithout
<1>3. s \in 1 .. Len(stack') /\ stack'[s] = calls[s]
    BY <1>2
<1>4. CASE c \in calls[s].todo
    BY <1>1, <1>2, <1>3, <1>4 DEF Pending
<1>5. CASE s = Len(stack) /\ c = p
    <2>1. PICK longer, end : longer = Append(q, Last(c)) /\ end = Target(c)
        OBVIOUS
    <2>2. longer = path /\ end = target
        BY <2>1, <1>1, <1>2, <1>5
    <2>3. Kind(c) \in {"special", "missing"} \/ VisitedAs(longer, end)'
        BY <2>2, <1>5
    <2>4. Target(c)' = end
        BY <2>1, SameTree
    <2> QED
        BY <2>1, <2>3, <2>4
<1> QED
    BY <1>2, <1>4, <1>5

WalkInv == Visits /\ Calls /\ NoneForgotten

\* A step that leaves entries and calls alone.
LEMMA SameWalk ==
    ASSUME WalkInv, tree' = tree, visited' = visited, stack' = stack,
           pc # "pack_failed", pc' # "create", pc = "create" => pc' = "pack_failed",
           pc' \in {"pack", "compress"} => pc \in {"pack", "compress"},
           pc \in {"pack", "compress"} => pc' \in {"pack", "compress", "pack_failed"}
    PROVE  WalkInv'
<1>1. Visits /\ Calls /\ NoneForgotten
    BY DEF WalkInv
<1>2. Visits'
    BY <1>1, SameVisits
<1>3. EntriesKept
    BY DEF EntriesKept
<1>4. CallsGoOn
    BY DEF CallsGoOn
<1>5. PendingGoesOn
    BY DEF PendingGoesOn, Pending
<1>6. Calls'
    <2>1. pc' \in {"pack", "compress"} => stack' # <<>>
        BY <1>1 DEF Calls
    <2>2. pc' \notin {"create", "pack", "compress", "pack_failed"} => stack' = <<>>
        BY <1>1 DEF Calls
    <2> QED
        BY <2>1, <2>2, <1>1, <1>3, <1>4, CallsKept
<1>7. NoneForgotten'
    BY <1>1, <1>3, <1>5, NoneForgottenKept
<1> QED
    BY <1>2, <1>6, <1>7 DEF WalkInv

\* An entry that was just appended has been visited, as have all before it.
LEMMA VisitedNow ==
    ASSUME visited \in Seq(Entries), NEW e \in Entries, visited' = Append(visited, e)
    PROVE  /\ EntriesKept
           /\ \A path, node : path = e.path /\ node = e.node => VisitedAs(path, node)'
           /\ \A i \in 1 .. Len(visited') : i \in 1 .. Len(visited) \/ visited'[i] = e
           /\ \E i \in 1 .. Len(visited') : visited'[i] = e
<1>1. PICK n \in Nat : n = Len(visited)
    BY LenProperties
<1>2. /\ Len(visited') = n + 1 /\ visited'[n + 1] = e
      /\ \A i \in 1 .. n : visited'[i] = visited[i]
    BY <1>1, AppendProperties
<1>3. n + 1 \in 1 .. Len(visited') /\ \A i \in 1 .. n : i \in 1 .. Len(visited')
    BY <1>2
<1>4. EntriesKept
    BY <1>1, <1>2, <1>3 DEF EntriesKept
<1>5. \A i \in 1 .. Len(visited') : i \in 1 .. Len(visited) \/ visited'[i] = e
    <2>1. \A i \in 1 .. n + 1 : i \in 1 .. n \/ i = n + 1
        OBVIOUS
    <2> QED
        BY <2>1, <1>1, <1>2
<1>6. \A path, node : path = e.path /\ node = e.node => VisitedAs(path, node)'
    BY <1>2, <1>3 DEF VisitedAs
<1> QED
    BY <1>2, <1>3, <1>4, <1>5, <1>6

\* A directory is entered.
LEMMA DirectoryVisited ==
    ASSUME WalkInv, tree \in Trees, tree' = tree, visited \in Seq(Entries),
           pc \in {"create", "pack"}, pc' = "pack",
           NEW e \in Entries, visited' = Append(visited, e),
           Leads(e.path, e.node), Len(e.path) \in 1 .. PATH_MAX_LEN,
           tree[e.node].kind = "directory",
           visited = <<>> => e.path = <<ROOT>> /\ e.node = <<ROOT>>,
           NEW calls \in Seq(Frames),
           \A s \in 1 .. Len(calls) : \E r \in 1 .. Len(stack) :
               /\ calls[s].relative_path = stack[r].relative_path
               /\ calls[s].todo \subseteq stack[r].todo,
           stack' = Append(calls, [relative_path |-> e.path, todo |-> Children(e.node)]),
           PendingGoesOn
    PROVE  WalkInv' /\ stack' \in Seq(Frames)
<1>1. Visits /\ Calls /\ NoneForgotten
    BY DEF WalkInv
<1>2. Visits'
    BY <1>1, MoreVisits
<1>3. PICK frame \in Frames :
          /\ frame = [relative_path |-> e.path, todo |-> Children(e.node)]
          /\ frame.relative_path = e.path /\ frame.todo = Children(e.node)
    <2>1. PICK path \in Seq(Names), todo \in SUBSET DOMAIN tree : path = e.path /\ todo = Children(e.node)
        BY DEF Entries, Children
    <2>2. [relative_path |-> path, todo |-> todo] \in Frames
        BY DEF Frames
    <2> QED
        BY <2>1, <2>2
<1>4. PICK n \in Nat : n = Len(calls)
    BY LenProperties
<1>5. /\ stack' \in Seq(Frames) /\ Len(stack') = n + 1 /\ stack'[n + 1] = frame
      /\ \A s \in 1 .. n : stack'[s] = calls[s]
    BY <1>3, <1>4, AppendProperties
<1>6. EntriesKept
    BY VisitedNow
<1>7. PICK i \in 1 .. Len(visited') : visited'[i] = e
    BY VisitedNow
<1>8. CallsGoOn
    <2>1. ASSUME NEW s \in 1 .. Len(stack')
          PROVE  \/ \E r \in 1 .. Len(stack) :
                        /\ stack'[s].relative_path = stack[r].relative_path
                        /\ stack'[s].todo \subseteq stack[r].todo
                 \/ \E j \in 1 .. Len(visited') :
                        /\ visited'[j].path = stack'[s].relative_path
                        /\ tree[visited'[j].node].kind = "directory"
                        /\ stack'[s].todo \subseteq Children(visited'[j].node)
        <3>1. CASE s = n + 1
            <4>1. stack'[s] = frame
                BY <3>1, <1>5
            <4>2. /\ visited'[i].path = stack'[s].relative_path
                  /\ tree[visited'[i].node].kind = "directory"
                  /\ stack'[s].todo \subseteq Children(visited'[i].node)
                BY <4>1, <1>3, <1>7
            <4> QED
                BY <4>2, Zenon
        <3>2. CASE s \in 1 .. n
            <4>1. stack'[s] = calls[s] /\ s \in 1 .. Len(calls)
                BY <3>2, <1>4, <1>5
            <4>2. PICK r \in 1 .. Len(stack) :
                      /\ calls[s].relative_path = stack[r].relative_path
                      /\ calls[s].todo \subseteq stack[r].todo
                BY <4>1
            <4> QED
                BY <4>1, <4>2, Zenon
        <3>3. s = n + 1 \/ s \in 1 .. n
            BY <1>5
        <3> QED
            BY <3>1, <3>2, <3>3, Zenon
    <2> QED
        BY <2>1 DEF CallsGoOn
<1>9. Calls'
    <2>1. stack' # <<>>
        BY <1>5
    <2> QED
        BY <2>1, <1>1, <1>6, <1>8, CallsKept
<1>10. NoneForgotten'
    <2>1. ASSUME NEW c \in Children(e.node), NEW path, path = e.path PROVE Pending(path, c)'
        <3>1. n + 1 \in 1 .. Len(stack')
            BY <1>5
        <3> QED
            BY <2>1, <3>1, <1>3, <1>5 DEF Pending
    <2>2. ASSUME NEW j \in 1 .. Len(visited')
          PROVE  \/ j \in 1 .. Len(visited)
                 \/ \A c \in Children(visited'[j].node) : Pending(visited[j].path, c)'
        <3>1. CASE visited'[j] = e
            <4>1. PICK path : path = e.path
                OBVIOUS
            <4>2. \A c \in Children(e.node) : Pending(path, c)'
                BY <2>1, <4>1
            <4> QED
                BY <3>1, <4>1, <4>2
        <3> QED
            BY <3>1, VisitedNow
    <2> QED
        BY <2>2, <1>1, <1>6, NoneForgottenKept
<1> QED
    BY <1>2, <1>5, <1>9, <1>10 DEF WalkInv

\* A file is added.
LEMMA FileVisited ==
    ASSUME WalkInv, tree \in Trees, tree' = tree, visited \in Seq(Entries),
           pc = "pack", NEW e \in Entries, visited' = Append(visited, e), visited # <<>>,
           Leads(e.path, e.node), Len(e.path) \in 1 .. PATH_MAX_LEN,
           tree[e.node].kind \in {"file", "unreadable"},
           pc' = IF tree[e.node].kind = "unreadable" THEN "pack_failed" ELSE "compress",
           stack' # <<>>,
           \A s \in 1 .. Len(stack') : \E r \in 1 .. Len(stack) :
               /\ stack'[s].relative_path = stack[r].relative_path
               /\ stack'[s].todo \subseteq stack[r].todo,
           PendingGoesOn
    PROVE  WalkInv'
<1>1. Visits /\ Calls /\ NoneForgotten
    BY DEF WalkInv
<1>2. Visits'
    BY <1>1, MoreVisits
<1>3. EntriesKept
    BY VisitedNow
<1>4. CallsGoOn
    BY DEF CallsGoOn
<1>5. Calls'
    BY <1>1, <1>3, <1>4, CallsKept
<1>6. NoneForgotten'
    <2>1. \A j \in 1 .. Len(visited') :
              j \in 1 .. Len(visited) \/ tree[visited'[j].node].kind # "directory"
        <3>1. ASSUME NEW j \in 1 .. Len(visited')
              PROVE  j \in 1 .. Len(visited) \/ tree[visited'[j].node].kind # "directory"
            <4>1. CASE visited'[j] = e
                BY <4>1
            <4> QED
                BY <4>1, VisitedNow
        <3> QED
            BY <3>1
    <2> QED
        BY <2>1, <1>1, <1>3, NoneForgottenKept
<1> QED
    BY <1>2, <1>5, <1>6 DEF WalkInv
=============================================================================
