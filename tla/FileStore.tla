----------------------------- MODULE FileStore -----------------------------
(***************************************************************************)
(* What the VFS daemon may expect of a file system: a tree of directories  *)
(* and files addressed by path.  A name, once made, always leads to the    *)
(* same file, a file gives back the bytes that were written to it, and a   *)
(* request touches no file but the one it names.  Who writes to a          *)
(* directory loses the names below it, and whoever then asks for one of    *)
(* those may get any answer; nothing else suffers until bytes are moved    *)
(* under such a name.                                                      *)
(*                                                                         *)
(* Three habits of ramFS are part of the contract, because callers see     *)
(* them: a second file of the same name is unreachable, reading beyond the *)
(* end makes a file longer, and once one path has led through something    *)
(* that is no directory every later answer to an open carries that error.  *)
(***************************************************************************)
EXTENDS Naturals, Sequences, SequencesExt, FiniteSetsExt

CONSTANTS Path, Content, Offset, Count, Junk

VARIABLES files,    \* path -> [dir, size, bytes]; bytes are the offsets ever written
          spoiled,  \* whether a path has led through something that is no directory
          torn,     \* the directories that were written to; the root: nothing is left
          answer    \* the last answer given to the daemon

vars == <<files, spoiled, torn, answer>>

Sound(p) == \A dir \in torn : ~ IsStrictPrefix(dir, p)
IsDir(p) == p = <<>> \/ (p \in DOMAIN files /\ files[p].dir)
Parent(p) == SubSeq(p, 1, Len(p) - 1)
NoAnswer == [op |-> "none"]

Init == files = <<>> /\ spoiled = FALSE /\ torn = {} /\ answer = NoAnswer

\* A file or a directory is made in a directory; the first of a name is the one kept.
Make(p, dir, content) ==
    /\ IsDir(Parent(p))
    /\ UNCHANGED <<spoiled, torn, answer>>
    /\ LET new == [dir   |-> dir,
                   size  |-> Len(content),
                   bytes |-> [o \in 0 .. Len(content) - 1 |-> content[o + 1]]]
       IN files' = [q \in DOMAIN files \cup {p} |-> IF q \in DOMAIN files THEN files[q] ELSE new]

Open(p) ==
    /\ Sound(p)
    /\ spoiled' = (spoiled \/ ~ IsDir(Parent(p)))
    /\ answer' = [op    |-> "open",
                  found |-> p \in DOMAIN files,
                  err   |-> IF spoiled' THEN "ENOTDIR"
                            ELSE IF p \in DOMAIN files THEN "none" ELSE "EAGAIN"]
    /\ UNCHANGED <<files, torn>>

\* A write stores a part of what it was given, all of it if the file has room.
Write(p, data, off) ==
    /\ p \in DOMAIN files /\ ~ files[p].dir
    /\ \E n \in 0 .. Len(data) :
        /\ answer' = [op |-> "write", count |-> n]
        /\ files' = [files EXCEPT
                      ![p].size = Max({@, off + Len(data)}),
                      ![p].bytes = [o \in DOMAIN @ \cup off .. off + n - 1 |->
                                      IF o \in off .. off + n - 1 THEN data[o - off + 1] ELSE @[o]]]
    /\ UNCHANGED <<spoiled, torn>>

\* A read gives what was written, and all of it if every byte of the range was.
Read(p, n, off) ==
    /\ p \in DOMAIN files /\ ~ files[p].dir
    /\ \E m \in 0 .. n :
        /\ m < n => ~ (off .. off + n - 1 \subseteq DOMAIN files[p].bytes)
        /\ answer' = [op |-> "read",
                      data |-> [i \in 1 .. m |-> IF off + i - 1 \in DOMAIN files[p].bytes
                                                 THEN files[p].bytes[off + i - 1] ELSE Junk]]
    /\ files' = [files EXCEPT ![p].size = Max({@, off + n})]
    /\ UNCHANGED <<spoiled, torn>>

\* Reading a directory gives entries, about which nothing is said here.
List(p) ==
    /\ p \in DOMAIN files /\ files[p].dir
    /\ answer'.op = "read"
    /\ UNCHANGED <<files, spoiled, torn>>

\* Whoever writes to a directory loses what lies below it, and that only.
Tear(p) ==
    /\ p \in DOMAIN files /\ files[p].dir
    /\ answer'.op = "write"
    /\ torn' = torn \cup {p}
    /\ files' = [q \in {r \in DOMAIN files : ~ IsStrictPrefix(p, r)} |-> files[q]]
    /\ UNCHANGED spoiled

\* An open, or a transfer that is refused, under a name that was lost.
Grope(p) ==
    /\ ~ Sound(p)
    /\ answer'.op \in {"open", "refused"}
    /\ spoiled' \in {spoiled, TRUE}
    /\ UNCHANGED <<files, torn>>

\* A transfer that is not refused under such a name may reach any file.
Wreck(p) ==
    /\ ~ Sound(p)
    /\ answer'.op \in {"read", "write"}
    /\ torn' = {<<>>} /\ files' = <<>>
    /\ UNCHANGED spoiled

\* A request for a path that leads nowhere; the daemon never asks twice.
Refuse(p) ==
    /\ Sound(p) /\ p \notin DOMAIN files
    /\ answer' = [op |-> "refused"]
    /\ spoiled' = (spoiled \/ ~ IsDir(Parent(p)))
    /\ UNCHANGED <<files, torn>>

\* A path outside every mount.
RefuseAll == answer' = [op |-> "nowhere"] /\ UNCHANGED <<files, spoiled, torn>>

Next ==
    \/ RefuseAll
    \/ \E p \in Path, dir \in BOOLEAN, content \in Content : Make(p, dir, content)
    \/ \E p \in Path : Open(p) \/ Refuse(p) \/ List(p) \/ Tear(p) \/ Grope(p) \/ Wreck(p)
    \/ \E p \in Path, data \in Content, off \in Offset : Write(p, data, off)
    \/ \E p \in Path, n \in Count, off \in Offset : Read(p, n, off)

Spec == Init /\ [][Next]_vars
=============================================================================
