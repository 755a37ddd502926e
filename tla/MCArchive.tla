----------------------------- MODULE MCArchive -----------------------------
(* Instances of Archive for TLC. *)
EXTENDS Archive, TLC

CONSTANT FileSizes  \* sizes of the file at the top of the directory

Entry(kind, size, to) == [kind |-> kind, size |-> size, to |-> to]
Directory == Entry("directory", 0, <<>>)
File(n) == Entry("file", n, <<>>)

\* At the top a file of any size, or something that is not packed like one.
TopEntries ==
    {<<ROOT, "a">> :> e : e \in {File(n) : n \in FileSizes} \cup
        {Entry("unreadable", 0, <<>>), Entry("special", 0, <<>>)}}

\* Next to it a directory: empty, with a file, or with a link to the file or
\* back to the top; or one with a file, and a link to it.
SubDirectories ==
    {<<ROOT, "d">> :> Directory} \cup
    {(<<ROOT, "d">> :> Directory) @@ (<<ROOT, "d", "b">> :> e) :
        e \in {File(1), File(4), Entry("link", 0, <<ROOT, "a">>),
               Entry("link", 0, <<ROOT>>)}} \cup
    {(<<ROOT, "d">> :> Directory) @@ (<<ROOT, "d", "b">> :> File(1))
        @@ (<<ROOT, "l">> :> Entry("link", 0, <<ROOT, "d">>))}

SmallTrees ==
    {(<<ROOT>> :> Directory) @@ t : t \in TopEntries \cup SubDirectories} \cup
    {(<<ROOT>> :> Directory) @@ t @@ d : t \in TopEntries, d \in SubDirectories}
=============================================================================
