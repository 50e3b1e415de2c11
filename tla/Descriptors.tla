---------------------------- MODULE Descriptors ----------------------------
(***************************************************************************)
(* The open files of a program, src/src/usr/hlib/hlib_vfs.c: ids, an array *)
(* list of struct fs_idds, the index in which is the file descriptor.  Its *)
(* chain is the chunks of module AList, made by the template of            *)
(* src/src/usr/hlib/OO/AList.h.  A program has one thread, so a call is    *)
(* one step.  What the daemon does is the subject of FileOpen; here it     *)
(* finds the file or does not.                                             *)
(***************************************************************************)
EXTENDS AList

CONSTANTS
    FsIdds,         \* the blocks malloc may return: addresses greater than 1
    File,           \* the files the daemon finds
    NoFile

FD_FREED == 1
ASSUME IddsAssumption == FsIdds \cup {FD_FREED} \subseteq Entry /\ FD_FREED \notin FsIdds
ASSUME NoFileAssumption == NoFile \notin File

VARIABLES
    file_header,    \* of each block: the file, or NoFile when it is not allocated
    in_stat,        \* hlib_stat has opened its file
    faulted,        \* FD_FREED was used as a pointer
    handed,         \* history: what the caller was promised, descriptor -> file
    statted         \* history: hlib_stat has been used

idsVars == <<chunks, file_header, in_stat, faulted, handed, statted>>

IdsInit ==
    /\ ListInit
    /\ file_header = [b \in FsIdds |-> NoFile]
    /\ in_stat = FALSE /\ faulted = FALSE /\ statted = FALSE
    /\ handed = [fd \in {} |-> NoFile]

(* The comparison is unsigned: a negative descriptor is too large. *)
IsOpen(fd) == fd >= 0 /\ fd < EntryN(chunks) /\ alist_get_by_index(chunks, fd) # FD_FREED

(* hlib_open, when the daemon finds the file: malloc returns any block     *)
(* that is not in use.  When it does not, the block is freed at once and   *)
(* -1 returned: nothing changes.                                           *)
Found(file, new_id) ==
    /\ file_header[new_id] = NoFile
    /\ file_header' = [file_header EXCEPT ![new_id] = file]
    /\ alist_add(new_id)

Quiet == ~in_stat /\ ~faulted

HandedOut(fd, file) ==
    handed' = [d \in DOMAIN handed \cup {fd} |-> IF d = fd THEN file ELSE handed[d]]

hlib_open(file) ==
    \E new_id \in FsIdds :
        /\ Quiet
        /\ Found(file, new_id)
        /\ HandedOut(alist_get_index(chunks', new_id), file)
        /\ UNCHANGED <<in_stat, faulted, statted>>

(* The block goes, its place stays taken for ever.  A descriptor that is   *)
(* not open is refused.  Slip: the entry is removed from the list.         *)
IdFreed(fd) == file_header' = [file_header EXCEPT ![alist_get_by_index(chunks, fd)] = NoFile]
Forget(fd) == handed' = [d \in DOMAIN handed \ {fd} |-> handed[d]]

CloseRemoves(fd) ==
    /\ Quiet /\ IsOpen(fd)
    /\ alist_remove_entry(alist_get_by_index(chunks, fd))
    /\ IdFreed(fd) /\ Forget(fd)
    /\ UNCHANGED <<in_stat, faulted, statted>>

hlib_close(fd) ==
    /\ Quiet /\ IsOpen(fd)
    /\ alist_set(fd, FD_FREED)
    /\ IdFreed(fd) /\ Forget(fd)
    /\ UNCHANGED <<in_stat, faulted, statted>>

(* hlib_stat opens the file, but fd is the outcome of the comparison with  *)
(* 0 (hlib_vfs.c:144), and that is 0: the descriptor it reads and closes   *)
(* is the first one.  If that one is closed, FD_FREED is used as a pointer.*)
hlib_stat(file) ==
    /\ Quiet
    /\ \E new_id \in FsIdds : Found(file, new_id)
    /\ in_stat' = TRUE /\ statted' = TRUE
    /\ UNCHANGED <<faulted, handed>>

StatCloses ==
    /\ in_stat /\ in_stat' = FALSE
    /\ IF IsOpen(0)
       THEN alist_set(0, FD_FREED) /\ IdFreed(0) /\ UNCHANGED faulted
       ELSE faulted' = TRUE /\ UNCHANGED <<chunks, file_header>>
    /\ UNCHANGED <<handed, statted>>

IdsNext ==
    \/ \E file \in File : hlib_open(file) \/ hlib_stat(file)
    \/ \E fd \in 0 .. EntryN(chunks) - 1 : hlib_close(fd)
    \/ StatCloses

IdsSpec == IdsInit /\ [][IdsNext]_idsVars

-----------------------------------------------------------------------------
(* However files are opened and closed, and blocks used again, each number *)
(* that hlib_open returned leads to the file it was returned for until it  *)
(* is closed, and never to another one: but for the first, which hlib_stat *)
(* closes (hlib_vfs.c:144).  And every block in use is in the list, once.  *)
DescriptorsNameTheirFiles ==
    /\ \A fd \in DOMAIN handed :
          \/ fd = 0 /\ statted
          \/ IsOpen(fd) /\ file_header[alist_get_by_index(chunks, fd)] = handed[fd]
    /\ \A b \in FsIdds :
          Cardinality({s \in Occupied(Row) : Row[s] = b})
              = (IF file_header[b] = NoFile THEN 0 ELSE 1)
=============================================================================
