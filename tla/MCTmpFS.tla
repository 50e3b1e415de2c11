------------------------------ MODULE MCTmpFS ------------------------------
(***************************************************************************)
(* A ramFS filled from an archive with a directory, files of one and a     *)
(* half, two and half a tar block, two of them with the same name, and     *)
(* three requests.  Pages have three cells and a directory entry two, so   *)
(* that entries cross pages; one of two direct blocks is soon full and the *)
(* page of pointers is used.                                               *)
(***************************************************************************)
EXTENDS TmpFS

CONSTANTS a, b, c

\* The files of the archive in order; content <<>> stands for a directory.
FilesOfArchive ==
    << [path |-> <<"">>,          content |-> <<>>],
       [path |-> <<"etc", "">>,   content |-> <<>>],
       [path |-> <<"etc", "os">>, content |-> <<a, b, c>>],
       [path |-> <<"os">>,        content |-> <<b, c, a, a>>],
       [path |-> <<"etc", "os">>, content |-> <<c>>],
       [path |-> <<"up">>,        content |-> <<b, a>>] >>

\* A header, then the content in blocks of two cells, the last one filled up.
TarOf(f) ==
    << [path |-> f.path, size |-> Len(f.content), cells |-> <<>>] >> \o
    [k \in 1 .. (Len(f.content) + 1) \div 2 |->
       [path |-> <<"data">>, size |-> 0,
        cells |-> [i \in 1 .. 2 |-> IF 2 * (k - 1) + i <= Len(f.content)
                                    THEN f.content[2 * (k - 1) + i] ELSE Junk]]]

MCArchive == FlattenSeq([i \in DOMAIN FilesOfArchive |-> TarOf(FilesOfArchive[i])])

VARIABLE tree   \* Found, so that the contract need not work it out again and again
mcvars == <<vars, tree>>

At(slashes, names) == [slashes |-> slashes, names |-> names]
MCWritten ==
    {At(1, <<"os">>), At(1, <<"etc">>), At(1, <<"etc", "os">>), At(1, <<"gone">>), At(0, <<"up">>)}
MCOpened ==
    MCWritten \cup {At(1, <<"up">>), At(2, <<"up">>), At(1, <<"os", "up">>),
                    At(1, <<"etc", "">>), At(1, <<"etc", "up">>)}
MCContent == {<<a>>, <<b, c, a, b>>}
\* Where an inode is expected, a is that of /up and no other cell is one.
MCAsInode == {<<a, 6>>}

MCInit == Init /\ tree = Found
MCNext == Next /\ tree' = Found'
MCSpec == MCInit /\ [][MCNext]_mcvars

(***************************************************************************)
(* The tree is a file store, whatever was asked before: a name is never    *)
(* lost to a later one, bytes come back from the block and the place they  *)
(* were put, and no write reaches another file.  A write to a directory,   *)
(* which the daemon carries out like any other (tmpfs.cpp:154), takes the  *)
(* names below it and no others, until somebody transfers bytes under one  *)
(* of those: FileStore says what is left.  Where the daemon would follow a *)
(* pointer out of a page that was never cleared (vmm_malloc in             *)
(* write_to_node) the model stops, and nothing is said.                    *)
(***************************************************************************)
Store == INSTANCE FileStore WITH
    Content <- Stored,
    files   <- [p \in {q \in Path : tree[q] # {}} |-> CHOOSE f \in tree[p] : TRUE],
    spoiled <- vfs_err_ # "none"
ImplementsFileStore == Store!Spec

(***************************************************************************)
(* When the daemon starts to serve, every file of the archive is found     *)
(* under its name with its whole content, unless an earlier one has the    *)
(* name, and there is no file that the archive does not hold: initrd finds *)
(* each header behind the data of the file before it, whether that fills   *)
(* its blocks or not.  The root stands in the place of the first header.   *)
(***************************************************************************)
TheArchiveIsComplete ==
    (Mounted /\ AtTheEnd /\ requests = 0) =>
        /\ Len(nodes) = Len(FilesOfArchive)
        /\ \A i \in DOMAIN FilesOfArchive :
             LET f == FilesOfArchive[i]
             IN  \/ f.content = <<>>
                 \/ \E j \in 1 .. i - 1 : FilesOfArchive[j].path = f.path
                 \/ \E n \in stat(f.path) : ReadCells(nodes[n], 0, nodes[n].size) = f.content
=============================================================================
