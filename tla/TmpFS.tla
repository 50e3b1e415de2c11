------------------------------- MODULE TmpFS -------------------------------
(***************************************************************************)
(* ramFS, the file system of the VFS daemon (tmpfs.cpp), with the mount    *)
(* table that leads to it (vfs.cpp): nodes in an array list, each with     *)
(* twelve direct blocks and one block of pointers to further ones;         *)
(* directories are files of directory entries.  It is filled from the tar  *)
(* archive GRUB loads (initrd) and then answers open, pwrite and pread.    *)
(*                                                                         *)
(* Offsets count cells.  Unit cells stand for the 512 bytes of a tar       *)
(* block, BlockSize for PAGE_SIZE, DirentSize for sizeof(dirent_t) (it     *)
(* need not divide BlockSize), Direct for 12 and Entries for the pointers  *)
(* of a page.  A path is its leading slashes and the names between the     *)
(* others; the name "" stands between two slashes or after the last.       *)
(* Nothing keeps a caller from writing to a directory like to a file; what *)
(* is then in the place of its names and inodes is what was written.       *)
(***************************************************************************)
EXTENDS Naturals, Sequences, SequencesExt, FiniteSetsExt

CONSTANTS Archive,     \* the tar blocks: [path, size, cells], headers and data alike
          Unit, BlockSize, Direct, Entries, DirentSize,
          Junk,        \* what a page holds before it is written; it is no name
          AsInode,     \* <<cell, inode>>: the inode a cell of Content is, where one is expected
          Opened,      \* paths asked for in open
          Written,     \* paths asked for in pwrite and pread
          Content, Offset, Count,
          MaxRequests  \* bound: requests answered

VARIABLES mount_points, \* mount paths: "/" or nothing yet
          nodes,        \* my_nodes: [flags, size, indirect, blocks], inode i at i + 1
          at,           \* the tar block initrd looks at
          vfs_err_, answer,
          requests,     \* how many were answered
          faulted,      \* the daemon followed a pointer nobody wrote
          torn          \* history: the directories that were written to, see Hit

vars == <<mount_points, nodes, at, vfs_err_, answer, requests, faulted, torn>>

Root == 1
FS_FILE == "file"
FS_DIRECTORY == "directory"
NoAnswer == [op |-> "none"]

\* malloc and memset: no size and no block; "absent" is once_indirect_block = NULL.
NewNode(flags) == [flags |-> flags, size |-> 0, indirect |-> "absent", blocks |-> <<>>]
EmptyBlock == [c \in 0 .. BlockSize - 1 |-> Junk]

(***************************************************************************)
(* Reading and writing a node.                                             *)
(***************************************************************************)
\* The highest block either function agrees to touch: PAGE_SIZE/sizeof(char*)+10.
LastBlock == Direct + Entries - 2

Touched(off, n) == {o \div BlockSize : o \in off .. off + n - 1}

\* Whether a transfer follows a pointer of an indirect block that was never cleared.
GoesAstray(node, off, n) ==
    node.indirect = "dirty" /\ \E b \in Touched(off, n) : b \in Direct .. LastBlock

\* How many cells read_from_node copies: it stops at the first block that is not there.
ReadCount(node, off, n) ==
    LET holes == Touched(off, n) \ DOMAIN node.blocks
    IN  IF holes = {} THEN n ELSE Max({off, Min(holes) * BlockSize}) - off

Cell(node, o) == node.blocks[o \div BlockSize][o % BlockSize]

ReadCells(node, off, n) == [i \in 1 .. ReadCount(node, off, n) |-> Cell(node, off + i - 1)]

\* The size a transfer leaves, a read as much as a write.
Grown(node, off, n) == Max({node.size, off + n})

WriteCount(off, n) == Min({n, Max({off, (LastBlock + 1) * BlockSize}) - off})

\* The page of pointers comes from vmm_malloc and is used as it comes.
NewIndirect(node, off, w) ==
    IF node.indirect = "absent" /\ \E b \in Touched(off, w) : b >= Direct
    THEN {"clear", "dirty"} ELSE {node.indirect}

\* Slip: the copy starts at the beginning of every block.
CopiedToTheStart(node, data, off, w) ==
    LET touched == Touched(off, w)
    IN  [b \in DOMAIN node.blocks \cup touched |->
          LET old == IF b \in DOMAIN node.blocks THEN node.blocks[b] ELSE EmptyBlock
          IN  IF b \notin touched THEN old
              ELSE [c \in 0 .. BlockSize - 1 |-> IF c < w THEN data[c + 1] ELSE old[c]]]

\* The blocks after w cells of data are written at off; missing ones are added.
Copied(node, data, off, w) ==
    [b \in DOMAIN node.blocks \cup Touched(off, w) |->
        LET old == IF b \in DOMAIN node.blocks THEN node.blocks[b] ELSE EmptyBlock
        IN  [c \in 0 .. BlockSize - 1 |->
               LET o == b * BlockSize + c
               IN  IF o \in off .. off + w - 1 THEN data[o - off + 1] ELSE old[c]]]

\* What write_to_node may make of a node: the outcome depends on the page of pointers.
write_to_node(node, data, off) ==
    LET w == WriteCount(off, Len(data))
    IN  {[node EXCEPT !.size = Grown(node, off, Len(data)),
                      !.indirect = page,
                      !.blocks = Copied(node, data, off, w)] : page \in NewIndirect(node, off, w)}

(***************************************************************************)
(* Directories.                                                            *)
(***************************************************************************)
\* The inode, and behind it the name.
Dirent(name, ino) == << <<ino>> >> \o [k \in 1 .. DirentSize - 1 |-> <<name, k>>]

\* The entry goes where the directory ends.
create_hardlink(dir, name, ino) ==
    CHOOSE d \in write_to_node(dir, Dirent(name, ino), dir.size) : TRUE

\* The node the first entry of that name leads to, if there is one.  What is read short, or
\* holds something else than a name, is like no name; an inode may be anything.
get_fromdir(dir, name) ==
    LET listed == {i \in 0 .. nodes[dir].size : i * DirentSize < nodes[dir].size}
        named  == {i \in listed :
                     /\ ReadCount(nodes[dir], i * DirentSize, DirentSize) = DirentSize
                     /\ \A k \in 1 .. DirentSize - 1 :
                            Cell(nodes[dir], i * DirentSize + k) = <<name, k>>}
        inodes == {Cell(nodes[dir], i * DirentSize) : i \in {j \in named : \A k \in named : j <= k}}
    IN  {n \in DOMAIN nodes : \E ino \in inodes : ino = <<n>> \/ <<ino, n>> \in AsInode}

\* The directory that the path's last name is looked up in, if the way there exists.
resolve_path(path) ==
    LET dir[i \in 0 .. Len(path) - 1] ==
          IF i = 0 THEN {Root}
          ELSE UNION {{n \in get_fromdir(d, path[i]) : nodes[n].flags = FS_DIRECTORY} : d \in dir[i - 1]}
    IN  dir[Len(path) - 1]

stat(path) == UNION {get_fromdir(d, Last(path)) : d \in resolve_path(path)}

ErrorOf(path) == IF resolve_path(path) = {} THEN "ENOTDIR" ELSE vfs_err_

(***************************************************************************)
(* The mount table.  strn_cmp_n only moves along the path, so that with a  *)
(* mount path of "/" it counts the slashes the path begins with.           *)
(***************************************************************************)
strn_cmp_n(path, mount_path) == IF mount_path = "/" THEN path.slashes ELSE 0

get_mp(path) == {m \in DOMAIN mount_points : strn_cmp_n(path, mount_points[m]) > 0}

(***************************************************************************)
(* Filling the tree.                                                       *)
(***************************************************************************)
Init ==
    /\ mount_points = <<>> /\ nodes = <<>> /\ at = 1
    /\ vfs_err_ = "none" /\ answer = NoAnswer /\ requests = 0 /\ faulted = FALSE
    /\ torn = {}

\* VFS::init mounts a ramFS on "/" and has it read the archive.
mount ==
    /\ mount_points = <<>>
    /\ mount_points' = <<"/">>
    /\ nodes' = <<NewNode(FS_DIRECTORY)>>
    /\ UNCHANGED <<at, vfs_err_, answer, requests, faulted, torn>>

\* The nodes after a node with that content was made; there is no test for an equal name.
create(path, flags, made) ==
    \E dir \in resolve_path(path) :
        nodes' = [Append(nodes, [made EXCEPT !.flags = flags])
                   EXCEPT ![dir] = create_hardlink(@, Last(path), Len(nodes) + 1)]

\* A directory's name ends in a slash, which is cut off.
mkdir(path) ==
    LET name == IF Last(path) = "" THEN Front(path) ELSE path
    IN  /\ vfs_err_' = ErrorOf(name)
        /\ IF resolve_path(name) = {} THEN UNCHANGED nodes
           ELSE create(name, FS_DIRECTORY, NewNode(FS_DIRECTORY))

\* Slip: the rest of a block that a file does not fill is not skipped.
WholeBlocksOnly(size) == size \div Unit + 1

BlocksOf(size) == size \div Unit + 1 + (IF size % Unit = 0 THEN 0 ELSE 1)

Mounted == mount_points # <<>>
AtTheEnd == at > Len(Archive)

\* The data behind the header at i.
ContentOf(i) ==
    [k \in 1 .. Archive[i].size |-> Archive[i + 1 + (k - 1) \div Unit].cells[((k - 1) % Unit) + 1]]

\* One turn of initrd: nothing of size 0 is a file, and "./" itself is passed over.  A file
\* in a directory that is not there is written through the null pointer create returned.
initrd ==
    /\ Mounted /\ ~ AtTheEnd /\ ~ faulted
    /\ LET header == Archive[at]
       IN  /\ CASE header.path = <<"">> -> UNCHANGED <<nodes, vfs_err_>>
                [] header.path # <<"">> /\ header.size = 0 -> mkdir(header.path)
                [] OTHER ->
                     /\ vfs_err_' = ErrorOf(header.path)
                     /\ IF resolve_path(header.path) = {} THEN UNCHANGED nodes
                        ELSE \E made \in write_to_node(NewNode(FS_FILE), ContentOf(at), 0) :
                               create(header.path, FS_FILE, made)
           /\ faulted' = (header.size > 0 /\ header.path # <<"">> /\ resolve_path(header.path) = {})
           /\ at' = at + BlocksOf(header.size)
    /\ UNCHANGED <<mount_points, answer, requests, torn>>

(***************************************************************************)
(* Requests of the daemon: VFS::open, VFS::pwrite, VFS::pread, FS::* and   *)
(* what they call in ramFS.                                                *)
(***************************************************************************)
Serving ==
    /\ Mounted /\ AtTheEnd /\ ~ faulted
    /\ requests < MaxRequests /\ requests' = requests + 1
    /\ UNCHANGED <<mount_points, at>>

open(path) ==
    /\ Serving /\ get_mp(path) # {}
    /\ LET found == stat(path.names) # {}
       IN  /\ vfs_err_' = ErrorOf(path.names)
           /\ answer' = [op    |-> "open",
                         found |-> found,
                         err   |-> IF ~ found /\ vfs_err_' = "none" THEN "EAGAIN" ELSE vfs_err_']
    /\ UNCHANGED <<nodes, faulted, torn>>

\* A transfer to a path that leads nowhere moves no byte.
Refused(path) ==
    /\ Serving
    /\ get_mp(path) # {} /\ stat(path.names) = {}
    /\ vfs_err_' = ErrorOf(path.names)
    /\ answer' = [op |-> "refused"]
    /\ UNCHANGED <<nodes, faulted, torn>>

\* Without a slash in front no mount is asked; answer carries what an earlier open left.
NoMount(path) ==
    /\ Serving /\ get_mp(path) = {}
    /\ answer' = [op |-> "nowhere"]
    /\ UNCHANGED <<nodes, vfs_err_, faulted, torn>>

Transfers(path) == Serving /\ get_mp(path) # {} /\ stat(path.names) # {} /\ UNCHANGED vfs_err_

\* A path is as it was made unless it leads through a directory that was written to.
Sound(path) == \A dir \in torn : ~ IsStrictPrefix(dir, path)

\* Which directories are torn after a transfer to the node: a path that is not sound may lead
\* anywhere, so that after a transfer to it nothing is.
Hit(path, directory) ==
    IF ~ Sound(path) THEN {<<>>} ELSE IF directory THEN torn \cup {path} ELSE torn

\* Neither of the two asks whether the node is a directory.
pwrite(path, data, off) ==
    /\ Transfers(path)
    /\ \E node \in stat(path.names) :
           IF GoesAstray(nodes[node], off, Len(data))
           THEN faulted' = TRUE /\ UNCHANGED <<nodes, answer, torn>>
           ELSE \E after \in write_to_node(nodes[node], data, off) :
                  /\ faulted' = GoesAstray(after, off, Len(data))
                  /\ nodes' = IF faulted' THEN nodes ELSE [nodes EXCEPT ![node] = after]
                  /\ answer' = IF faulted' THEN answer
                               ELSE [op |-> "write", count |-> WriteCount(off, Len(data))]
                  /\ torn' = IF faulted' THEN torn
                             ELSE Hit(path.names, nodes[node].flags = FS_DIRECTORY)

pread(path, n, off) ==
    /\ Transfers(path)
    /\ \E node \in stat(path.names) :
           IF GoesAstray(nodes[node], off, n)
           THEN faulted' = TRUE /\ UNCHANGED <<nodes, answer, torn>>
           ELSE /\ nodes' = [nodes EXCEPT ![node].size = Grown(nodes[node], off, n)]
                /\ answer' = [op |-> "read", data |-> ReadCells(nodes[node], off, n)]
                /\ torn' = Hit(path.names, FALSE)
                /\ UNCHANGED faulted

\* There is nothing left to do.
Rest ==
    /\ faulted \/ requests = MaxRequests
    /\ UNCHANGED vars

Next ==
    \/ mount \/ initrd \/ Rest
    \/ \E p \in Opened : open(p)
    \/ \E p \in Written, data \in Content, off \in Offset : pwrite(p, data, off)
    \/ \E p \in Written, n \in Count, off \in Offset : pread(p, n, off)
    \/ \E p \in Written : Refused(p)
    \/ \E p \in Opened \cup Written : NoMount(p)

Spec == Init /\ [][Next]_vars

(***************************************************************************)
(* The file store that the nodes stand for: see module FileStore.          *)
(***************************************************************************)
Path == {p.names : p \in Opened \cup Written}

BytesOf(node) ==
    LET o == {b * BlockSize + c : b \in DOMAIN node.blocks, c \in 0 .. BlockSize - 1}
    IN  [i \in {j \in o : Cell(node, j) # Junk} |-> Cell(node, i)]

FileOf(node) ==
    IF node.flags = FS_DIRECTORY THEN [dir |-> TRUE, size |-> 0, bytes |-> <<>>]
    ELSE [dir |-> FALSE, size |-> node.size, bytes |-> BytesOf(node)]

\* What is found under a path: one file, or none.
Found == [p \in Path |-> IF Mounted /\ Sound(p) THEN {FileOf(nodes[n]) : n \in stat(p)} ELSE {}]

Stored == Content \cup {ContentOf(i) : i \in DOMAIN Archive}
=============================================================================
