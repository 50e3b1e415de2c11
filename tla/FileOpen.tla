------------------------------ MODULE FileOpen ------------------------------
(***************************************************************************)
(* The two programs of the system at work: the VFS daemon                  *)
(* (src/src/usr/Daemons/VFS/vfs.cpp, VFS::loop), thread 1, and a client    *)
(* written like src/src/usr/VFS_unit_test/tst.c, thread 2, which sleeps    *)
(* until the daemon wakes it up and then opens files with hlib_open        *)
(* (src/src/usr/hlib/hlib_vfs.c).  Each system call is one step, in the    *)
(* terms of modules Threads, Semaphore and MsgQueue: message queues are    *)
(* sequences, a message is received only by a call that asks for its size, *)
(* and the three sizes in use (VFS_msg, the path, the reply) differ.       *)
(***************************************************************************)
EXTENDS Integers, Sequences

CONSTANTS
    NOpen,          \* the client opens up to so many files, one after the other
    FileSize,       \* of the file, in units of what is read
    NCalls,         \* bound: further calls for one file
    ByteAfterPath,  \* may the byte behind the path's buffer be non-zero?
    FileExists,     \* may the file exist, may it be missing?
    StackGarbage    \* what my_header.read_count may hold: it is never set

(* The booleans are the outcomes of a test, and a file of some length is   *)
(* opened at least once.                                                   *)
ASSUME FileOpenAssumption ==
    /\ NOpen \in Nat \ {0} /\ FileSize \in Nat /\ NCalls \in Nat
    /\ ByteAfterPath \subseteq BOOLEAN /\ FileExists \subseteq BOOLEAN
    /\ StackGarbage \subseteq Int

VFS == 1
Client == 2

Sem == {"my_sem", "read_sem", "write_sem"}

VARIABLES
    status,         \* per thread: NONE, ACTIVE, BLCKD
    queue,          \* the message queues, the one with id i at i + 1
    semvals,         \* the values of the client's semaphores
    vpc, cpc,       \* where the daemon and the client are
    id,             \* the daemon's queue
    my_queue,       \* the client's queue
    file,           \* the shared memory of the file: none, named, mapped, loaded
    read_count,     \* a field of its header
    opens,          \* files opened so far
    file_pointer,   \* of the client's descriptor, or FD_FREED
    calls,          \* made for this descriptor so far
    err_ocurred,    \* an exception stopped the machine
    dropped         \* history: the daemon dropped a request

kernel == <<status, queue, semvals, err_ocurred>>
daemon == <<vpc, id, file, dropped>>
descriptor == <<file_pointer, calls>>
client == <<cpc, my_queue, opens, descriptor>>
vars == <<kernel, daemon, client, read_count>>

NoQueue == -1
FD_FREED == -1

Init ==
    /\ status = [t \in {VFS, Client} |-> IF t = VFS THEN "ACTIVE" ELSE "NONE"]
    /\ queue = << >>
    /\ semvals = [s \in Sem |-> 0]
    /\ vpc = "msgget" /\ cpc = "main"
    /\ id = NoQueue /\ my_queue = NoQueue
    /\ file = "none" /\ read_count = 0
    /\ opens = 0
    /\ file_pointer = FD_FREED /\ calls = 0
    /\ err_ocurred = FALSE
    /\ dropped = FALSE

-----------------------------------------------------------------------------
(* The system calls. *)

(* After an exception every processor halts at its next interrupt. *)
Runs(t) == status[t] = "ACTIVE" /\ ~err_ocurred

Msgget == Append(queue, << >>)

Holds(q, message) == queue[q + 1] # << >> /\ Head(queue[q + 1]) = message

(* A queue that does not exist takes nothing. *)
Sent(q, message) ==
    IF q + 1 \in DOMAIN queue THEN [queue EXCEPT ![q + 1] = Append(@, message)] ELSE queue

Received(q) == [queue EXCEPT ![q + 1] = Tail(@)]

(* semop: whoever leaves the value negative sleeps, and a value that was   *)
(* negative has a sleeper, which is then the client.                       *)
Semop(t, s, op) ==
    /\ semvals' = [semvals EXCEPT ![s] = @ + op]
    /\ status' = IF semvals[s] + op < 0 THEN [status EXCEPT ![t] = "BLCKD"]
                 ELSE IF semvals[s] < 0 THEN [status EXCEPT ![Client] = "ACTIVE"]
                 ELSE status

-----------------------------------------------------------------------------
(* init creates the client's thread after the daemon's, which may run      *)
(* already on another processor.                                           *)
CreateClient ==
    /\ status[Client] = "NONE" /\ ~err_ocurred
    /\ status' = [status EXCEPT ![Client] = "ACTIVE"]
    /\ UNCHANGED <<queue, semvals, err_ocurred, daemon, client, read_count>>

(* VFS::loop *)
VMsgget ==
    /\ vpc = "msgget" /\ Runs(VFS)
    /\ id' = Len(queue)
    /\ queue' = Msgget
    /\ vpc' = "wakeup"
    /\ UNCHANGED <<status, semvals, err_ocurred, file, dropped, client, read_count>>

(* hlib_wakeup(2): nothing happens if there is no such thread yet, and     *)
(* nothing remains of a wakeup of a thread that is awake.                  *)
VWakeup ==
    /\ vpc = "wakeup" /\ Runs(VFS)
    /\ status' = [status EXCEPT ![Client] = IF @ = "NONE" THEN @ ELSE "ACTIVE"]
    /\ vpc' = "receive"
    /\ UNCHANGED <<queue, semvals, err_ocurred, id, file, dropped, client, read_count>>

(* while(1) if(hlib_msgrcv(...)): polls until there is a request. *)
VReceive ==
    /\ vpc = "receive" /\ Runs(VFS)
    /\ Holds(id, "request")
    /\ queue' = Received(id)
    /\ vpc' = "path"
    /\ UNCHANGED <<status, semvals, err_ocurred, id, file, dropped, client, read_count>>

(* The path comes from the queue the request names, the client's.  While   *)
(* none comes, the daemon tries again, up to ten times from an             *)
(* uninitialised count.                                                    *)
VPath ==
    /\ vpc = "path" /\ Runs(VFS)
    /\ \/ Holds(my_queue, "path") /\ queue' = Received(my_queue)
       \/ ~Holds(my_queue, "path") /\ UNCHANGED queue
    /\ vpc' = "check"
    /\ UNCHANGED <<status, semvals, err_ocurred, id, file, dropped, client, read_count>>

(* if(path[buf.pathlen]): pathlen counts the terminator, so this is the    *)
(* byte behind the buffer, whatever malloc left there.                     *)
VCheck ==
    /\ vpc = "check" /\ Runs(VFS)
    /\ \E garbage \in ByteAfterPath :
         /\ dropped' = (dropped \/ garbage)
         /\ vpc' = IF garbage THEN "receive" ELSE "open"
    /\ UNCHANGED <<kernel, id, file, client, read_count>>

(* VFS_OPEN.  The path of an open file is never stored, so the search in   *)
(* open_files finds nothing.  A file that exists gets a shared memory; for  *)
(* one that does not, the else belongs to the inner if, and a counter behind a NULL *)
(* pointer is incremented.                                                 *)
VOpen ==
    /\ vpc = "open" /\ Runs(VFS)
    /\ \E exists \in FileExists :
         /\ err_ocurred' = ~exists
         /\ file' = IF exists THEN "named" ELSE file
         /\ vpc' = IF exists THEN "shmat" ELSE "exception"
    /\ UNCHANGED <<status, queue, semvals, id, dropped, client, read_count>>

VShmat ==
    /\ vpc = "shmat" /\ Runs(VFS)
    /\ file' = "mapped"
    /\ vpc' = "load"
    /\ UNCHANGED <<kernel, id, dropped, client, read_count>>

(* The header, a copy of a local variable of which only three fields are   *)
(* set, and, with pread, the contents.                                     *)
VLoad ==
    /\ vpc = "load" /\ Runs(VFS)
    /\ file' = "loaded"
    /\ read_count' \in StackGarbage
    /\ vpc' = "reply"
    /\ UNCHANGED <<kernel, id, dropped, client>>

VReply ==
    /\ vpc = "reply" /\ Runs(VFS)
    /\ queue' = Sent(my_queue, "reply")
    /\ vpc' = "up"
    /\ UNCHANGED <<status, semvals, err_ocurred, id, file, dropped, client, read_count>>

(* hlib_semup(buf.sync_sem), and then while(1).  Slip: the semaphore is    *)
(* forgotten.                                                              *)
VForget ==
    /\ vpc = "up" /\ Runs(VFS)
    /\ vpc' = "forever"
    /\ UNCHANGED <<kernel, id, file, dropped, client, read_count>>
VUp ==
    /\ vpc = "up" /\ Runs(VFS)
    /\ Semop(VFS, "my_sem", 1)
    /\ vpc' = "forever"
    /\ UNCHANGED <<queue, err_ocurred, id, file, dropped, client, read_count>>

-----------------------------------------------------------------------------
(* The client: main, and the functions of hlib it calls. *)

CAt(from, to) == cpc = from /\ Runs(Client) /\ cpc' = to

(* new Sem(): a semaphore of its own. *)
CSemget(s, from, to) ==
    /\ CAt(from, to)
    /\ semvals' = [semvals EXCEPT ![s] = 0]
    /\ UNCHANGED <<status, queue, err_ocurred, daemon, my_queue, opens, descriptor, read_count>>

CSemop(s, op, from, to) ==
    /\ CAt(from, to)
    /\ Semop(Client, s, op)
    /\ UNCHANGED <<queue, err_ocurred, daemon, my_queue, opens, descriptor, read_count>>

CMsgsnd(q, message, from, to) ==
    /\ CAt(from, to)
    /\ queue' = Sent(q, message)
    /\ UNCHANGED <<status, semvals, err_ocurred, daemon, my_queue, opens, descriptor, read_count>>

CMsgrcv(q, message, from, to) ==
    /\ CAt(from, to)
    /\ Holds(q, message)
    /\ queue' = Received(q)
    /\ UNCHANGED <<status, semvals, err_ocurred, daemon, my_queue, opens, descriptor, read_count>>

CLocal(from, to) == CAt(from, to) /\ UNCHANGED <<kernel, daemon, my_queue, opens, descriptor, read_count>>

(* main: SYSCALL(SYS_SLEEP). *)
CSleep ==
    /\ CAt("main", "init_ipc")
    /\ status' = [status EXCEPT ![Client] = "BLCKD"]
    /\ UNCHANGED <<queue, semvals, err_ocurred, daemon, my_queue, opens, descriptor, read_count>>

(* init_ipc: the client's queue and the semaphore it waits with. *)
CMsgget ==
    /\ CAt("init_ipc", "new_sem")
    /\ my_queue' = Len(queue)
    /\ queue' = Msgget
    /\ UNCHANGED <<status, semvals, err_ocurred, daemon, opens, descriptor, read_count>>

init_ipc == CMsgget \/ CSemget("my_sem", "new_sem", "open")

(* hlib_open: the path goes to the client's own queue, the request to      *)
(* queue 0, and then the client waits for the daemon.  Slip: up instead of *)
(* down.                                                                   *)
CSendPath == CMsgsnd(my_queue, "path", "send_path", "send_request")

CUp == CSemop("my_sem", 1, "down", "get_reply")
CDown == CSemop("my_sem", -1, "down", "get_reply")

CGetReply == CMsgrcv(my_queue, "reply", "get_reply", "shmat")

CShmat ==
    /\ CAt("shmat", "opened")
    /\ opens' = opens + 1
    /\ file_pointer' = 0 /\ calls' = 0
    /\ UNCHANGED <<kernel, daemon, my_queue, read_count>>

hlib_open ==
    \/ CSemget("read_sem", "open", "new_write_sem")
    \/ CSemget("write_sem", "new_write_sem", "up_read_sem")
    \/ CSemop("read_sem", 1, "up_read_sem", "up_write_sem")
    \/ CSemop("write_sem", 1, "up_write_sem", "send_path")
    \/ CSendPath
    \/ CMsgsnd(0, "request", "send_request", "down")
    \/ CDown \/ CGetReply \/ CShmat

(* The readers, which hlib_read and hlib_lseek are: write_sem is down while *)
(* read_count of them are at work, and read_sem while one changes the      *)
(* count.  Slip: the first reader does not take write_sem.                 *)
CFirstReaderPasses == CLocal("first_reader", "add_reader")
CFirstReader ==
    \/ read_count = 0 /\ CSemop("write_sem", -1, "first_reader", "add_reader")
    \/ read_count # 0 /\ CLocal("first_reader", "add_reader")

CLastReader ==
    \/ read_count = 0 /\ CSemop("write_sem", 1, "last_reader", "leave")
    \/ read_count # 0 /\ CLocal("last_reader", "leave")

CCountReader(by, from, to) ==
    /\ CAt(from, to)
    /\ read_count' = read_count + by
    /\ UNCHANGED <<kernel, daemon, my_queue, opens, descriptor>>

(* A closed descriptor is refused. *)
CHECK_FD == file_pointer # FD_FREED
CBadDescriptor == ~CHECK_FD /\ CLocal("opened", "done")

CMove(to) ==
    /\ CAt("copy", "copied")
    /\ file_pointer' = to
    /\ UNCHANGED <<kernel, daemon, my_queue, opens, calls, read_count>>

CReader ==
    \/ CHECK_FD /\ CSemop("read_sem", -1, "opened", "first_reader")
    \/ CFirstReader
    \/ CCountReader(1, "add_reader", "enter")
    \/ CSemop("read_sem", 1, "enter", "copy")
    \/ CSemop("read_sem", -1, "copied", "remove_reader")
    \/ CCountReader(-1, "remove_reader", "last_reader")
    \/ CLastReader
    \/ CSemop("read_sem", 1, "leave", "done")

(* The test for the end of the file never cuts a read short: it asks       *)
(* whether an unsigned number is below zero.                               *)
hlib_read ==
    \E nbyte \in 1 .. FileSize : CMove(file_pointer + nbyte)

(* SEEK_SET, SEEK_CUR, SEEK_END, and anything else. *)
hlib_lseek ==
    \E offset \in 0 .. FileSize :
        \E to \in {offset, file_pointer + offset, FileSize - offset, file_pointer} : CMove(to)

(* hlib_write copies to the beginning of the file and leaves the pointer.  *)
hlib_write ==
    \/ CHECK_FD /\ CSemop("write_sem", -1, "opened", "write")
    \/ CLocal("write", "written")
    \/ CSemop("write_sem", 1, "written", "done")

hlib_close ==
    /\ CHECK_FD
    /\ CAt("opened", "done")
    /\ file_pointer' = FD_FREED
    /\ UNCHANGED <<kernel, daemon, my_queue, opens, calls, read_count>>

(* Another call for this file. *)
CCallAgain ==
    /\ CAt("done", "opened")
    /\ calls < NCalls /\ calls' = calls + 1
    /\ UNCHANGED <<kernel, daemon, my_queue, opens, file_pointer, read_count>>

(* Another file, or SYSCALL(11), which is SYS_EXIT: tst.c opens one file.  *)
COpenAgain == opens < NOpen /\ CLocal("done", "open")

CExit ==
    /\ CAt("done", "exit")
    /\ status' = [status EXCEPT ![Client] = "FREED"]
    /\ UNCHANGED <<queue, semvals, err_ocurred, daemon, my_queue, opens, descriptor, read_count>>

-----------------------------------------------------------------------------
VFSNext == VMsgget \/ VWakeup \/ VReceive \/ VPath \/ VCheck \/ VOpen \/ VShmat \/ VLoad
              \/ VReply \/ VUp

ClientNext == CSleep \/ init_ipc \/ hlib_open \/ CBadDescriptor \/ CReader \/ hlib_read \/ hlib_lseek
                 \/ hlib_write \/ hlib_close \/ CCallAgain \/ COpenAgain \/ CExit

Next == CreateClient \/ VFSNext \/ ClientNext

Spec == Init /\ [][Next]_vars

(* Two threads, each of which gets its turn while it is active, as module  *)
(* Scheduler shows.                                                        *)
FairSpec == Spec /\ WF_vars(CreateClient) /\ WF_vars(VFSNext) /\ WF_vars(ClientNext)

-----------------------------------------------------------------------------
TypeOK ==
    /\ status \in [{VFS, Client} -> {"NONE", "ACTIVE", "BLCKD", "FREED"}]
    /\ queue \in Seq(Seq({"request", "path", "reply"})) /\ Len(queue) <= 2
    /\ semvals \in [Sem -> {-1, 0, 1}]
    /\ vpc \in {"msgget", "wakeup", "receive", "path", "check", "open", "exception",
                "shmat", "load", "reply", "up", "forever"}
    /\ cpc \in {"main", "init_ipc", "new_sem", "open", "new_write_sem", "up_read_sem",
                "up_write_sem", "send_path", "send_request", "down", "get_reply", "shmat",
                "opened", "write", "written", "first_reader", "add_reader", "enter", "copy", "copied",
                "remove_reader", "last_reader", "leave", "done", "exit"}
    /\ id \in {NoQueue, 0, 1} /\ my_queue \in {NoQueue, 0, 1}
    /\ file \in {"none", "named", "mapped", "loaded"} /\ read_count \in Int
    /\ opens \in 0..NOpen
    /\ file_pointer \in Nat \cup {FD_FREED} /\ calls \in 0..NCalls
    /\ err_ocurred \in BOOLEAN /\ dropped \in BOOLEAN

(* hlib_open sends its request to queue 0 without asking whose it is: that *)
(* is the daemon's, because the client's sleep keeps it from creating its  *)
(* own queue first.                                                        *)
RequestsReachTheDaemon == cpc \in {"send_path", "send_request"} => id = 0 /\ my_queue # 0

(* A daemon that has a request finds the path in the client's queue at its *)
(* first try: neither the retries nor their uninitialised count matter.    *)
PathIsThere == vpc = "path" => Holds(my_queue, "path")

(* Paths, requests and replies share two queues, but a client that is past *)
(* its semaphore finds the reply, and not its own path, at the head.       *)
ReplyIsThere == cpc = "get_reply" /\ Runs(Client) => Holds(my_queue, "reply")

(* The file a client reads or writes is complete: it does not map the memory before  *)
(* the daemon has filled it.                                               *)
FileIsComplete == cpc \in {"copy", "write"} => file = "loaded"

(* Reading, seeking and writing leave the two semaphores of the file as hlib_open has made   *)
(* them, whatever the count of readers starts with.                        *)
SemaphoresAreGivenBack ==
    cpc \in {"opened", "done", "exit"} => semvals["read_sem"] = 1 /\ semvals["write_sem"] = 1

(* hlib_write needs write_sem, so nobody writes to a file while its only   *)
(* reader copies it, provided that the count of readers says there is one. *)
ReadersKeepWritersOut ==
    cpc = "copy" /\ read_count = 1 => semvals["write_sem"] <= 0

(* The four above: what either side waits for, or takes for granted, is    *)
(* there when it asks for it.                                              *)
WhatIsAskedForIsThere ==
    RequestsReachTheDaemon /\ PathIsThere /\ ReplyIsThere /\ FileIsComplete

(* The semaphores of a file keep readers and writers apart, and are given  *)
(* back for the next.                                                      *)
ReadersAndWritersAreApart == SemaphoresAreGivenBack /\ ReadersKeepWritersOut

(* A client that has been woken up has its first file opened, unless the   *)
(* daemon drops the request or crashes on it.                              *)
FirstOpenIsAnswered ==
    cpc = "init_ipc" /\ status[Client] = "ACTIVE"
        ~> opens >= 1 \/ dropped \/ err_ocurred

-----------------------------------------------------------------------------
(* What the client and the daemon are written for, and what the code does  *)
(* not always do.                                                          *)

(* tst.c gets the file it prints. *)
TheTestOpensItsFile == <>(opens = 1)

(* Once it is awake: hlib_open returns. *)
OpenReturns == cpc = "open" ~> cpc = "opened"
=============================================================================
