--------------------------- MODULE FileOpenProofs ---------------------------
(***************************************************************************)
(* Proofs about the daemon and its client, for any number of files and of  *)
(* calls, any garbage in the header, and whatever the memory behind the    *)
(* path holds.  The properties speak of single moments of a dialogue, so   *)
(* the inductive invariant describes the whole of it: what the two queues, *)
(* the client's status and its semaphore are, given where both sides are.  *)
(***************************************************************************)
EXTENDS FileOpen, TLAPS

-----------------------------------------------------------------------------
(* The inductive invariant, by the parts of a program's life. *)

Starting == {"main", "init_ipc"}
Calling == {"new_sem", "open", "new_write_sem", "up_read_sem", "up_write_sem", "send_path",
            "send_request"}
Waiting == {"down", "get_reply"}
Reading == {"first_reader", "add_reader", "enter", "copy", "copied", "remove_reader",
            "last_reader", "leave"}
AtTheFile == Reading \cup {"opened", "write", "written", "done", "exit"}

QueuesHold(requests, messages) == queue = <<requests, messages>>

(* The daemon never sleeps, its queue is the first one, and only the       *)
(* exception in VFS_OPEN stops the machine.                                *)
DaemonRuns ==
    /\ status[VFS] = "ACTIVE"
    /\ id = IF vpc = "msgget" THEN NoQueue ELSE 0
    /\ err_ocurred <=> vpc = "exception"

(* Before it is woken up the client has nothing. *)
ClientStarts ==
    cpc \in Starting =>
        /\ vpc \in {"msgget", "wakeup", "receive"} /\ ~dropped
        /\ queue = IF vpc = "msgget" THEN << >> ELSE << << >> >>
        /\ my_queue = NoQueue /\ opens = 0 /\ file_pointer = FD_FREED
        /\ semvals = [s \in Sem |-> 0]
        /\ cpc = "main" => status[Client] \in {"NONE", "ACTIVE"}
        /\ cpc = "init_ipc" =>
               status[Client] = "BLCKD" \/ (status[Client] = "ACTIVE" /\ vpc = "receive")

(* From then on it has the second queue, and opens one file. *)
ClientGoesOn ==
    cpc \notin Starting =>
        /\ vpc \notin {"msgget", "wakeup"}
        /\ my_queue = 1
        /\ opens \in {0, 1}
        /\ cpc \in {"new_sem", "shmat"} => opens = 0
        /\ cpc \in AtTheFile => opens = 1
        /\ cpc \in Reading => file_pointer # FD_FREED

(* hlib_open up to its request, the first time. *)
FirstCalls ==
    cpc \in Calling /\ opens = 0 =>
        /\ vpc = "receive" /\ ~dropped
        /\ status[Client] = "ACTIVE"
        /\ semvals["my_sem"] = 0
        /\ QueuesHold(<< >>, IF cpc = "send_request" THEN <<"path">> ELSE << >>)

(* What is in the queues says where the daemon is with the request. *)
FirstWaits ==
    cpc \in Waiting /\ opens = 0 =>
        /\ semvals["my_sem"] = (IF vpc = "forever" THEN 1 ELSE 0)
                              - (IF cpc = "get_reply" THEN 1 ELSE 0)
        /\ status[Client] = IF semvals["my_sem"] < 0 THEN "BLCKD" ELSE "ACTIVE"
        /\ CASE vpc = "receive" /\ ~dropped -> QueuesHold(<<"request">>, <<"path">>)
             [] vpc = "path"                -> QueuesHold(<< >>, <<"path">>)
             [] vpc \in {"up", "forever"}   -> QueuesHold(<< >>, <<"reply">>)
             [] OTHER                       -> QueuesHold(<< >>, << >>)
        /\ vpc \in {"reply", "up", "forever"} => file = "loaded"

(* Once it is answered the daemon is in its while(1), and a further        *)
(* request stays where it is.                                              *)
Later ==
    opens = 1 \/ cpc = "shmat" =>
        /\ vpc = "forever" /\ file = "loaded"
        /\ semvals["my_sem"] = IF cpc = "get_reply" THEN -1 ELSE 0
        /\ status[Client] = CASE cpc = "get_reply" -> "BLCKD"
                              [] cpc = "exit"      -> "FREED"
                              [] OTHER             -> "ACTIVE"
        /\ CASE cpc = "send_request"   -> QueuesHold(<< >>, <<"path">>)
             [] cpc \in Waiting        -> QueuesHold(<<"request">>, <<"path">>)
             [] OTHER                  -> QueuesHold(<< >>, << >>)

(* write_sem is down while one writes or the count has gone up from zero;  *)
(* the count itself changes under read_sem.                                *)
SemaphoresOfTheFile ==
    LET r == semvals["read_sem"]
        w == semvals["write_sem"] IN
    /\ cpc \in {"new_write_sem", "up_read_sem"} => r = 0
    /\ cpc \in {"up_read_sem", "up_write_sem"} => w = 0
    /\ cpc = "up_write_sem" => r = 1
    /\ cpc \in {"send_path", "send_request", "shmat", "opened", "done", "exit"} \cup Waiting =>
           r = 1 /\ w = 1
    /\ cpc \in {"write", "written"} => r = 1 /\ w = 0
    /\ cpc \in {"enter", "add_reader", "first_reader", "remove_reader", "last_reader", "leave"} =>
           r = 0
    /\ cpc \in {"copy", "copied"} => r = 1
    /\ cpc \in {"first_reader", "leave"} => w = 1
    /\ cpc \in {"add_reader", "last_reader"} => w = IF read_count = 0 THEN 0 ELSE 1
    /\ cpc \in {"enter", "copy", "copied", "remove_reader"} => w = IF read_count = 1 THEN 0 ELSE 1

IInv ==
    TypeOK /\ DaemonRuns /\ ClientStarts /\ ClientGoesOn /\ FirstCalls /\ FirstWaits /\ Later
        /\ SemaphoresOfTheFile

-----------------------------------------------------------------------------
(* What the queues hold is a pair of short sequences. *)
LEMMA PairIsAppended == ASSUME NEW a, NEW c PROVE Append(<<a>>, c) = <<a, c>>
<1> DEFINE s == Append(<<a>>, c)
           t == <<a, c>>
<1>1. <<a>> \in Seq({a, c}) /\ Len(<<a>>) = 1 /\ <<a>>[1] = a
  OBVIOUS
<1>2. s \in Seq({a, c}) /\ Len(s) = 2 /\ s[1] = a /\ s[2] = c
  BY <1>1
<1>3. t \in Seq({a, c}) /\ Len(t) = 2 /\ t[1] = a /\ t[2] = c
  OBVIOUS
<1> HIDE DEF s, t
<1>4. /\ s = [i \in 1 .. 2 |-> s[i]] /\ t = [i \in 1 .. 2 |-> t[i]]
      /\ \A i \in 1 .. 2 : s[i] = t[i]
  BY <1>2, <1>3
<1>5. s = t
  BY <1>4
<1>6. QED
  BY <1>5 DEF s, t

(* The queues as sending and receiving change them. *)
LEMMA QueueFacts ==
    ASSUME NEW a, NEW b, NEW c
    PROVE  /\ [<<a, b>> EXCEPT ![1] = c] = <<c, b>>
           /\ [<<a, b>> EXCEPT ![2] = c] = <<a, c>>
           /\ Append(<< >>, c) = <<c>> /\ Append(<<a>>, c) = <<a, c>>
           /\ Head(<<c>>) = c /\ Tail(<<c>>) = << >> /\ <<c>> # << >>
           /\ Len(<<a, b>>) = 2 /\ Len(<<a>>) = 1 /\ Len(<< >>) = 0
           /\ DOMAIN <<a, b>> = {1, 2} /\ DOMAIN <<a>> = {1} /\ DOMAIN << >> = {}
           /\ <<a, b>>[1] = a /\ <<a, b>>[2] = b
BY PairIsAppended

(* One or two queues of at most one message each. *)
LEMMA MessagesAreTyped ==
    ASSUME NEW S, NEW m \in S
    PROVE  /\ << >> \in Seq(S) /\ <<m>> \in Seq(S)
           /\ \A a, b \in Seq(S) : <<a, b>> \in Seq(Seq(S)) /\ <<a>> \in Seq(Seq(S))
           /\ << >> \in Seq(Seq(S))
OBVIOUS

(* The invariant holds at the beginning. *)
LEMMA InitHolds == ASSUME Init PROVE IInv
<1> USE DEF Init, NoQueue, FD_FREED, Sem, VFS, Client
<1>1. TypeOK
  <2>1. queue \in Seq(Seq({"request", "path", "reply"})) /\ Len(queue) <= 2
    BY QueueFacts
  <2>2. status \in [{VFS, Client} -> {"NONE", "ACTIVE", "BLCKD", "FREED"}]
    OBVIOUS
  <2>3. semvals \in [Sem -> {-1, 0, 1}]
    OBVIOUS
  <2>4. opens \in 0 .. NOpen /\ calls \in 0 .. NCalls
    BY FileOpenAssumption
  <2>5. file_pointer \in Nat \cup {FD_FREED} /\ read_count \in Int
    OBVIOUS
  <2>6. err_ocurred \in BOOLEAN /\ dropped \in BOOLEAN
    OBVIOUS
  <2> HIDE DEF Sem, VFS, Client
  <2>7. QED
    BY <2>1, <2>2, <2>3, <2>4, <2>5, <2>6 DEF TypeOK
<1>2. DaemonRuns /\ ClientStarts
  BY DEF DaemonRuns, ClientStarts, Starting
<1>3. ClientGoesOn /\ FirstCalls /\ FirstWaits /\ Later /\ SemaphoresOfTheFile
  BY DEF ClientGoesOn, FirstCalls, FirstWaits, Later, SemaphoresOfTheFile, Starting, Calling,
         Waiting, Reading, AtTheFile
<1>4. QED
  BY <1>1, <1>2, <1>3 DEF IInv

(* Each step of the daemon keeps it, ... *)
LEMMA DaemonKeeps ==
    ASSUME IInv, CreateClient \/ VFSNext
    PROVE  IInv'
<1> USE IInv, QueueFacts
    DEF IInv, TypeOK, DaemonRuns, ClientStarts, ClientGoesOn, FirstCalls, FirstWaits, Later,
        SemaphoresOfTheFile, QueuesHold, Starting, Calling, Waiting, Reading, AtTheFile,
        NoQueue, FD_FREED, Sem, VFS, Client, Runs, kernel, daemon, descriptor, client,
        Holds, Sent, Received, Msgget, Semop
<1>1. CASE CreateClient
  <2>1. TypeOK'
    BY <1>1 DEF CreateClient
  <2>2. DaemonRuns' /\ ClientStarts' /\ ClientGoesOn'
    BY <1>1 DEF CreateClient
  <2>3. FirstCalls' /\ FirstWaits' /\ Later'
    BY <1>1 DEF CreateClient
  <2>4. SemaphoresOfTheFile'
    BY <1>1 DEF CreateClient
  <2>5. QED
    BY <2>1, <2>2, <2>3, <2>4
<1>2. CASE VMsgget
  <2>0. queue = << >> /\ queue' = << << >> >>
    <3>1. cpc \in Starting /\ queue = << >>
      BY <1>2 DEF VMsgget
    <3>2. QED
      BY <1>2, <3>1 DEF VMsgget
  <2>1. TypeOK'
    BY <1>2 DEF VMsgget
  <2>2. DaemonRuns'
    BY <1>2, <2>0 DEF VMsgget
  <2>3. ClientStarts'
    BY <1>2, <2>0 DEF VMsgget
  <2>4. ClientGoesOn'
    BY <1>2 DEF VMsgget
  <2>5. FirstCalls'
    BY <1>2 DEF VMsgget
  <2>6. FirstWaits'
    BY <1>2 DEF VMsgget
  <2>7. Later'
    BY <1>2 DEF VMsgget
  <2>8. SemaphoresOfTheFile'
    BY <1>2 DEF VMsgget
  <2>9. QED
    BY <2>1, <2>2, <2>3, <2>4, <2>5, <2>6, <2>7, <2>8
<1>3. CASE VWakeup
  <2>1. TypeOK'
    BY <1>3 DEF VWakeup
  <2>2. DaemonRuns' /\ ClientStarts' /\ ClientGoesOn'
    BY <1>3 DEF VWakeup
  <2>3. FirstCalls' /\ FirstWaits' /\ Later'
    BY <1>3 DEF VWakeup
  <2>4. SemaphoresOfTheFile'
    BY <1>3 DEF VWakeup
  <2>5. QED
    BY <2>1, <2>2, <2>3, <2>4
<1>4. CASE VReceive
  <2>1. TypeOK'
    BY <1>4 DEF VReceive
  <2>2. DaemonRuns' /\ ClientStarts' /\ ClientGoesOn'
    BY <1>4 DEF VReceive
  <2>3. FirstCalls' /\ FirstWaits' /\ Later'
    <3>1. FirstCalls'
      BY <1>4 DEF VReceive
    <3>2. FirstWaits'
      BY <1>4 DEF VReceive
    <3>3. Later'
      BY <1>4 DEF VReceive
    <3>4. QED
      BY <3>1, <3>2, <3>3
  <2>4. SemaphoresOfTheFile'
    BY <1>4 DEF VReceive
  <2>5. QED
    BY <2>1, <2>2, <2>3, <2>4
<1>5. CASE VPath
  <2>0. queue' = << << >>, << >> >>
    <3>1. queue = << << >>, <<"path">> >> /\ my_queue = 1
      BY <1>5 DEF VPath
    <3>2. queue' = [queue EXCEPT ![2] = Tail(queue[2])]
      BY <1>5, <3>1 DEF VPath
    <3>3. QED
      BY <3>1, <3>2
  <2>1. TypeOK'
    BY <1>5, <2>0 DEF VPath
  <2>2. DaemonRuns'
    BY <1>5 DEF VPath
  <2>3. ClientStarts'
    BY <1>5 DEF VPath
  <2>4. ClientGoesOn'
    BY <1>5 DEF VPath
  <2>5. FirstCalls'
    BY <1>5 DEF VPath
  <2>6. FirstWaits'
    BY <1>5, <2>0 DEF VPath
  <2>7. Later'
    BY <1>5 DEF VPath
  <2>8. SemaphoresOfTheFile'
    BY <1>5 DEF VPath
  <2>9. QED
    BY <2>1, <2>2, <2>3, <2>4, <2>5, <2>6, <2>7, <2>8
<1>6. CASE VCheck
  <2>1. TypeOK'
    BY <1>6 DEF VCheck
  <2>2. DaemonRuns' /\ ClientStarts' /\ ClientGoesOn'
    BY <1>6 DEF VCheck
  <2>3. FirstCalls' /\ FirstWaits' /\ Later'
    BY <1>6 DEF VCheck
  <2>4. SemaphoresOfTheFile'
    BY <1>6 DEF VCheck
  <2>5. QED
    BY <2>1, <2>2, <2>3, <2>4
<1>7. CASE VOpen
  <2>1. TypeOK'
    BY <1>7 DEF VOpen
  <2>2. DaemonRuns' /\ ClientStarts' /\ ClientGoesOn'
    BY <1>7 DEF VOpen
  <2>3. FirstCalls' /\ FirstWaits' /\ Later'
    BY <1>7 DEF VOpen
  <2>4. SemaphoresOfTheFile'
    BY <1>7 DEF VOpen
  <2>5. QED
    BY <2>1, <2>2, <2>3, <2>4
<1>8. CASE VShmat
  <2>1. TypeOK'
    BY <1>8 DEF VShmat
  <2>2. DaemonRuns' /\ ClientStarts' /\ ClientGoesOn'
    BY <1>8 DEF VShmat
  <2>3. FirstCalls' /\ FirstWaits' /\ Later'
    BY <1>8 DEF VShmat
  <2>4. SemaphoresOfTheFile'
    BY <1>8 DEF VShmat
  <2>5. QED
    BY <2>1, <2>2, <2>3, <2>4
<1>9. CASE VLoad
  <2>1. TypeOK'
    BY FileOpenAssumption, <1>9 DEF VLoad
  <2>2. DaemonRuns' /\ ClientStarts' /\ ClientGoesOn'
    BY <1>9 DEF VLoad
  <2>3. FirstCalls' /\ FirstWaits' /\ Later'
    BY <1>9 DEF VLoad
  <2>4. SemaphoresOfTheFile'
    BY <1>9 DEF VLoad
  <2>5. QED
    BY <2>1, <2>2, <2>3, <2>4
<1>10. CASE VReply
  <2>0. queue' = << << >>, <<"reply">> >>
    <3>1. queue = << << >>, << >> >> /\ my_queue = 1
      BY <1>10 DEF VReply
    <3>2. queue' = [queue EXCEPT ![2] = Append(queue[2], "reply")]
      BY <1>10, <3>1 DEF VReply
    <3>3. QED
      BY <3>1, <3>2
  <2>1. TypeOK'
    <3>1. queue' \in Seq(Seq({"request", "path", "reply"})) /\ Len(queue') <= 2
      BY <2>0, MessagesAreTyped
    <3>2. QED
      BY <1>10, <2>0, <3>1 DEF VReply
  <2>2. DaemonRuns'
    BY <1>10 DEF VReply
  <2>3. ClientStarts'
    BY <1>10 DEF VReply
  <2>4. ClientGoesOn'
    BY <1>10 DEF VReply
  <2>5. FirstCalls'
    BY <1>10 DEF VReply
  <2>6. FirstWaits'
    BY <1>10, <2>0 DEF VReply
  <2>7. Later'
    BY <1>10 DEF VReply
  <2>8. SemaphoresOfTheFile'
    BY <1>10 DEF VReply
  <2>9. QED
    BY <2>1, <2>2, <2>3, <2>4, <2>5, <2>6, <2>7, <2>8
<1>11. CASE VUp
  <2>1. TypeOK'
    BY <1>11 DEF VUp
  <2>2. DaemonRuns' /\ ClientStarts' /\ ClientGoesOn'
    BY <1>11 DEF VUp
  <2>3. FirstCalls' /\ FirstWaits' /\ Later'
    BY <1>11 DEF VUp
  <2>4. SemaphoresOfTheFile'
    BY <1>11 DEF VUp
  <2>5. QED
    BY <2>1, <2>2, <2>3, <2>4
<1>12. QED
  BY <1>1, <1>2, <1>3, <1>4, <1>5, <1>6, <1>7, <1>8, <1>9, <1>10, <1>11 DEF VFSNext

(* ... each step of the client up to the end of hlib_open, ... *)
LEMMA OpeningKeeps ==
    ASSUME IInv, CSleep \/ init_ipc \/ hlib_open
    PROVE  IInv'
<1> USE IInv, QueueFacts
    DEF IInv, TypeOK, DaemonRuns, ClientStarts, ClientGoesOn, FirstCalls, FirstWaits, Later,
        SemaphoresOfTheFile, QueuesHold, Starting, Calling, Waiting, Reading, AtTheFile,
        NoQueue, FD_FREED, Sem, VFS, Client, Runs, kernel, daemon, descriptor, client,
        Holds, Sent, Received, Msgget, Semop, CAt
<1>1. CASE CSleep
  <2>1. TypeOK'
    BY <1>1 DEF CSleep
  <2>2. DaemonRuns' /\ ClientStarts' /\ ClientGoesOn'
    BY <1>1 DEF CSleep
  <2>3. FirstCalls' /\ FirstWaits' /\ Later'
    BY <1>1 DEF CSleep
  <2>4. SemaphoresOfTheFile'
    BY <1>1 DEF CSleep
  <2>5. QED
    BY <2>1, <2>2, <2>3, <2>4
<1>2. CASE CMsgget
  <2>1. queue = << << >> >>
    BY <1>2 DEF CMsgget
  <2>2. queue' = Append(queue, << >>)
    BY <1>2, <2>1 DEF CMsgget
  <2>3. queue' = << << >>, << >> >>
    BY <2>1, <2>2
  <2>4. TypeOK'
    <3>1. queue' \in Seq(Seq({"request", "path", "reply"})) /\ Len(queue') <= 2
      BY <2>3, MessagesAreTyped
    <3>2. QED
      BY <1>2, <2>1, <3>1 DEF CMsgget
  <2>5. DaemonRuns' /\ ClientStarts' /\ ClientGoesOn' /\ SemaphoresOfTheFile'
    BY <1>2, <2>1 DEF CMsgget
  <2>6. FirstCalls' /\ FirstWaits' /\ Later'
    BY <1>2, <2>1, <2>3 DEF CMsgget
  <2>7. QED
    BY <2>4, <2>5, <2>6
<1>3. CASE CSemget("my_sem", "new_sem", "open")
  <2>1. TypeOK'
    BY <1>3 DEF CSemget
  <2>2. DaemonRuns' /\ ClientStarts' /\ ClientGoesOn'
    BY <1>3 DEF CSemget
  <2>3. FirstCalls' /\ FirstWaits' /\ Later'
    BY <1>3 DEF CSemget
  <2>4. SemaphoresOfTheFile'
    BY <1>3 DEF CSemget
  <2>5. QED
    BY <2>1, <2>2, <2>3, <2>4
<1>4. CASE CSemget("read_sem", "open", "new_write_sem")
  <2>1. TypeOK'
    BY <1>4 DEF CSemget
  <2>2. DaemonRuns' /\ ClientStarts' /\ ClientGoesOn'
    BY <1>4 DEF CSemget
  <2>3. FirstCalls' /\ FirstWaits' /\ Later'
    BY <1>4 DEF CSemget
  <2>4. SemaphoresOfTheFile'
    BY <1>4 DEF CSemget
  <2>5. QED
    BY <2>1, <2>2, <2>3, <2>4
<1>5. CASE CSemget("write_sem", "new_write_sem", "up_read_sem")
  <2>1. TypeOK'
    BY <1>5 DEF CSemget
  <2>2. DaemonRuns' /\ ClientStarts' /\ ClientGoesOn'
    BY <1>5 DEF CSemget
  <2>3. FirstCalls' /\ FirstWaits' /\ Later'
    BY <1>5 DEF CSemget
  <2>4. SemaphoresOfTheFile'
    BY <1>5 DEF CSemget
  <2>5. QED
    BY <2>1, <2>2, <2>3, <2>4
<1>6. CASE CSemop("read_sem", 1, "up_read_sem", "up_write_sem")
  <2>1. TypeOK'
    BY <1>6 DEF CSemop
  <2>2. DaemonRuns' /\ ClientStarts' /\ ClientGoesOn'
    BY <1>6 DEF CSemop
  <2>3. FirstCalls' /\ FirstWaits' /\ Later'
    BY <1>6 DEF CSemop
  <2>4. SemaphoresOfTheFile'
    BY <1>6 DEF CSemop
  <2>5. QED
    BY <2>1, <2>2, <2>3, <2>4
<1>7. CASE CSemop("write_sem", 1, "up_write_sem", "send_path")
  <2>1. TypeOK'
    BY <1>7 DEF CSemop
  <2>2. DaemonRuns' /\ ClientStarts' /\ ClientGoesOn'
    BY <1>7 DEF CSemop
  <2>3. FirstCalls' /\ FirstWaits' /\ Later'
    BY <1>7 DEF CSemop
  <2>4. SemaphoresOfTheFile'
    BY <1>7 DEF CSemop
  <2>5. QED
    BY <2>1, <2>2, <2>3, <2>4
<1>8. CASE CSendPath
  <2>1. queue = << << >>, << >> >> /\ my_queue = 1
    BY <1>8 DEF CSendPath, CMsgsnd
  <2>2. queue' = [queue EXCEPT ![2] = Append(queue[2], "path")]
    BY <1>8, <2>1 DEF CSendPath, CMsgsnd
  <2>3. queue' = << << >>, <<"path">> >>
    BY <2>1, <2>2
  <2>4. TypeOK'
    <3>1. queue' \in Seq(Seq({"request", "path", "reply"})) /\ Len(queue') <= 2
      BY <2>3, MessagesAreTyped
    <3>2. QED
      BY <1>8, <2>1, <3>1 DEF CSendPath, CMsgsnd
  <2>5. DaemonRuns' /\ ClientStarts' /\ ClientGoesOn' /\ SemaphoresOfTheFile'
    BY <1>8, <2>1 DEF CSendPath, CMsgsnd
  <2>6. FirstCalls' /\ FirstWaits' /\ Later'
    BY <1>8, <2>1, <2>3 DEF CSendPath, CMsgsnd
  <2>7. QED
    BY <2>4, <2>5, <2>6
<1>9. CASE CMsgsnd(0, "request", "send_request", "down")
  <2>1. queue = << << >>, <<"path">> >> /\ my_queue = 1
    BY <1>9 DEF CMsgsnd
  <2>2. queue' = [queue EXCEPT ![1] = Append(queue[1], "request")]
    BY <1>9, <2>1 DEF CMsgsnd
  <2>3. queue' = << <<"request">>, <<"path">> >>
    BY <2>1, <2>2
  <2>4. TypeOK'
    <3>1. queue' \in Seq(Seq({"request", "path", "reply"})) /\ Len(queue') <= 2
      BY <2>3, MessagesAreTyped
    <3>2. QED
      BY <1>9, <2>1, <3>1 DEF CMsgsnd
  <2>5. DaemonRuns' /\ ClientStarts' /\ ClientGoesOn' /\ SemaphoresOfTheFile'
    BY <1>9, <2>1 DEF CMsgsnd
  <2>6. FirstCalls' /\ FirstWaits' /\ Later'
    BY <1>9, <2>1, <2>3 DEF CMsgsnd
  <2>7. QED
    BY <2>4, <2>5, <2>6
<1>10. CASE CDown
  <2>a. /\ cpc = "down" /\ cpc' = "get_reply" /\ semvals["my_sem"] \in {0, 1}
        /\ semvals' = [semvals EXCEPT !["my_sem"] = @ - 1]
        /\ status' = IF semvals["my_sem"] = 0 THEN [status EXCEPT ![Client] = "BLCKD"] ELSE status
        /\ UNCHANGED <<queue, err_ocurred, daemon, my_queue, opens, descriptor, read_count>>
    <3>1. /\ cpc = "down" /\ cpc' = "get_reply"
          /\ UNCHANGED <<queue, err_ocurred, daemon, my_queue, opens, descriptor, read_count>>
      BY <1>10 DEF CDown, CSemop
    <3>2. semvals["my_sem"] \in {0, 1}
      <4>1. CASE opens = 0
        BY <3>1, <4>1
      <4>2. CASE opens # 0
        BY <3>1, <4>2
      <4>3. QED
        BY <4>1, <4>2
    <3>3. /\ semvals' = [semvals EXCEPT !["my_sem"] = @ - 1]
          /\ status' = IF semvals["my_sem"] = 0 THEN [status EXCEPT ![Client] = "BLCKD"]
                       ELSE status
      <4>1. semvals' = [semvals EXCEPT !["my_sem"] = @ - 1]
        BY <1>10 DEF CDown, CSemop
      <4>2. CASE semvals["my_sem"] = 0
        BY <1>10, <4>2 DEF CDown, CSemop
      <4>3. CASE semvals["my_sem"] = 1
        BY <1>10, <4>1, <4>3 DEF CDown, CSemop
      <4>4. QED
        BY <3>2, <4>1, <4>2, <4>3
    <3>4. QED
      BY <3>1, <3>2, <3>3
  <2>1. TypeOK'
    BY <2>a
  <2>2. DaemonRuns' /\ ClientStarts' /\ ClientGoesOn'
    BY <2>a
  <2>3. FirstCalls'
    BY <2>a
  <2>4. FirstWaits'
    <3>1. SUFFICES ASSUME opens = 0
                   PROVE  FirstWaits'
      BY <2>a
    <3>2. FirstWaits
      OBVIOUS
    <3>3. TypeOK /\ cpc \in Waiting /\ cpc' \in Waiting
      BY <2>a
    <3>4. QED
      <4> HIDE DEF IInv, Later, SemaphoresOfTheFile, ClientStarts, FirstCalls
      <4>1. QED
        BY <2>a, <3>1, <3>2, <3>3
  <2>5. Later'
    BY <2>a
  <2>6. SemaphoresOfTheFile'
    BY <2>a
  <2>7. QED
    BY <2>1, <2>2, <2>3, <2>4, <2>5, <2>6
<1>11. CASE CGetReply
  <2>1. queue = << << >>, <<"reply">> >> /\ my_queue = 1 /\ vpc = "forever"
    BY <1>11 DEF CGetReply, CMsgrcv
  <2>2. queue' = [queue EXCEPT ![2] = Tail(queue[2])]
    BY <1>11, <2>1 DEF CGetReply, CMsgrcv
  <2>3. queue' = << << >>, << >> >>
    BY <2>1, <2>2
  <2>4. TypeOK'
    <3>1. queue' \in Seq(Seq({"request", "path", "reply"})) /\ Len(queue') <= 2
      BY <2>3, MessagesAreTyped
    <3>2. QED
      BY <1>11, <2>1, <3>1 DEF CGetReply, CMsgrcv
  <2>5. DaemonRuns' /\ ClientStarts' /\ ClientGoesOn' /\ SemaphoresOfTheFile'
    BY <1>11, <2>1 DEF CGetReply, CMsgrcv
  <2>6. FirstCalls' /\ FirstWaits' /\ Later'
    BY <1>11, <2>1, <2>3 DEF CGetReply, CMsgrcv
  <2>7. QED
    BY <2>4, <2>5, <2>6
<1>12. CASE CShmat
  <2>1. TypeOK'
    BY FileOpenAssumption, <1>12 DEF CShmat
  <2>2. DaemonRuns' /\ ClientStarts' /\ ClientGoesOn'
    BY <1>12 DEF CShmat
  <2>3. FirstCalls' /\ FirstWaits' /\ Later'
    BY <1>12 DEF CShmat
  <2>4. SemaphoresOfTheFile'
    BY <1>12 DEF CShmat
  <2>5. QED
    BY <2>1, <2>2, <2>3, <2>4
<1>13. QED
  BY <1>1, <1>2, <1>3, <1>4, <1>5, <1>6, <1>7, <1>8, <1>9, <1>10, <1>11, <1>12
     DEF init_ipc, hlib_open

(* hlib_lseek does not leave the file to the left. *)
LEMMA SeekStaysInside ==
    ASSUME file_pointer \in Nat, hlib_lseek
    PROVE  \E to \in Nat : CMove(to)
<1>1. PICK offset \in 0 .. FileSize :
          \E to \in {offset, file_pointer + offset, FileSize - offset, file_pointer} : CMove(to)
  BY DEF hlib_lseek
<1>2. {offset, file_pointer + offset, FileSize - offset, file_pointer} \subseteq Nat
  BY FileOpenAssumption
<1>3. QED
  BY <1>1, <1>2

(* ... and each of its steps at the file. *)
LEMMA UsingKeeps ==
    ASSUME IInv,
           \/ CBadDescriptor \/ CReader \/ hlib_read \/ hlib_lseek \/ hlib_write \/ hlib_close
           \/ CCallAgain \/ COpenAgain \/ CExit
    PROVE  IInv'
<1> USE IInv, QueueFacts
    DEF IInv, TypeOK, DaemonRuns, ClientStarts, ClientGoesOn, FirstCalls, FirstWaits, Later,
        SemaphoresOfTheFile, QueuesHold, Starting, Calling, Waiting, Reading, AtTheFile,
        NoQueue, FD_FREED, Sem, VFS, Client, Runs, kernel, daemon, descriptor, client,
        Holds, Sent, Received, Msgget, Semop, CAt
<1>1. CASE CBadDescriptor
  <2>1. TypeOK'
    BY <1>1 DEF CBadDescriptor, CHECK_FD, CLocal
  <2>2. DaemonRuns' /\ ClientStarts' /\ ClientGoesOn'
    BY <1>1 DEF CBadDescriptor, CHECK_FD, CLocal
  <2>3. FirstCalls' /\ FirstWaits' /\ Later'
    BY <1>1 DEF CBadDescriptor, CHECK_FD, CLocal
  <2>4. SemaphoresOfTheFile'
    BY <1>1 DEF CBadDescriptor, CHECK_FD, CLocal
  <2>5. QED
    BY <2>1, <2>2, <2>3, <2>4
<1>2. CASE CHECK_FD /\ CSemop("read_sem", -1, "opened", "first_reader")
  <2>1. TypeOK'
    BY <1>2 DEF CHECK_FD, CSemop
  <2>2. DaemonRuns' /\ ClientStarts' /\ ClientGoesOn'
    BY <1>2 DEF CHECK_FD, CSemop
  <2>3. FirstCalls' /\ FirstWaits' /\ Later'
    BY <1>2 DEF CHECK_FD, CSemop
  <2>4. SemaphoresOfTheFile'
    BY <1>2 DEF CHECK_FD, CSemop
  <2>5. QED
    BY <2>1, <2>2, <2>3, <2>4
<1>3. CASE CFirstReader
  <2>1. CASE read_count = 0
    <3>1. TypeOK'
      BY <1>3, <2>1 DEF CFirstReader, CSemop, CLocal
    <3>2. DaemonRuns' /\ ClientStarts' /\ ClientGoesOn'
      BY <1>3, <2>1 DEF CFirstReader, CSemop, CLocal
    <3>3. FirstCalls' /\ FirstWaits' /\ Later'
      BY <1>3, <2>1 DEF CFirstReader, CSemop, CLocal
    <3>4. SemaphoresOfTheFile'
      BY <1>3, <2>1 DEF CFirstReader, CSemop, CLocal
    <3>5. QED
      BY <3>1, <3>2, <3>3, <3>4
  <2>2. CASE read_count # 0
    <3>1. TypeOK'
      BY <1>3, <2>2 DEF CFirstReader, CSemop, CLocal
    <3>2. DaemonRuns' /\ ClientStarts' /\ ClientGoesOn'
      BY <1>3, <2>2 DEF CFirstReader, CSemop, CLocal
    <3>3. FirstCalls' /\ FirstWaits' /\ Later'
      BY <1>3, <2>2 DEF CFirstReader, CSemop, CLocal
    <3>4. SemaphoresOfTheFile'
      BY <1>3, <2>2 DEF CFirstReader, CSemop, CLocal
    <3>5. QED
      BY <3>1, <3>2, <3>3, <3>4
  <2>3. QED
    BY <2>1, <2>2
<1>4. CASE CCountReader(1, "add_reader", "enter")
  <2>1. TypeOK'
    BY <1>4 DEF CCountReader
  <2>2. DaemonRuns' /\ ClientStarts' /\ ClientGoesOn'
    BY <1>4 DEF CCountReader
  <2>3. FirstCalls' /\ FirstWaits' /\ Later'
    BY <1>4 DEF CCountReader
  <2>4. SemaphoresOfTheFile'
    BY <1>4 DEF CCountReader
  <2>5. QED
    BY <2>1, <2>2, <2>3, <2>4
<1>5. CASE CSemop("read_sem", 1, "enter", "copy")
  <2>1. TypeOK'
    BY <1>5 DEF CSemop
  <2>2. DaemonRuns' /\ ClientStarts' /\ ClientGoesOn'
    BY <1>5 DEF CSemop
  <2>3. FirstCalls' /\ FirstWaits' /\ Later'
    BY <1>5 DEF CSemop
  <2>4. SemaphoresOfTheFile'
    BY <1>5 DEF CSemop
  <2>5. QED
    BY <2>1, <2>2, <2>3, <2>4
<1>6. CASE CSemop("read_sem", -1, "copied", "remove_reader")
  <2>1. TypeOK'
    BY <1>6 DEF CSemop
  <2>2. DaemonRuns' /\ ClientStarts' /\ ClientGoesOn'
    BY <1>6 DEF CSemop
  <2>3. FirstCalls' /\ FirstWaits' /\ Later'
    BY <1>6 DEF CSemop
  <2>4. SemaphoresOfTheFile'
    BY <1>6 DEF CSemop
  <2>5. QED
    BY <2>1, <2>2, <2>3, <2>4
<1>7. CASE CCountReader(-1, "remove_reader", "last_reader")
  <2>1. TypeOK'
    BY <1>7 DEF CCountReader
  <2>2. DaemonRuns' /\ ClientStarts' /\ ClientGoesOn'
    BY <1>7 DEF CCountReader
  <2>3. FirstCalls' /\ FirstWaits' /\ Later'
    BY <1>7 DEF CCountReader
  <2>4. SemaphoresOfTheFile'
    BY <1>7 DEF CCountReader
  <2>5. QED
    BY <2>1, <2>2, <2>3, <2>4
<1>8. CASE CLastReader
  <2>1. CASE read_count = 0
    <3>1. TypeOK'
      BY <1>8, <2>1 DEF CLastReader, CSemop, CLocal
    <3>2. DaemonRuns' /\ ClientStarts' /\ ClientGoesOn'
      BY <1>8, <2>1 DEF CLastReader, CSemop, CLocal
    <3>3. FirstCalls' /\ FirstWaits' /\ Later'
      BY <1>8, <2>1 DEF CLastReader, CSemop, CLocal
    <3>4. SemaphoresOfTheFile'
      BY <1>8, <2>1 DEF CLastReader, CSemop, CLocal
    <3>5. QED
      BY <3>1, <3>2, <3>3, <3>4
  <2>2. CASE read_count # 0
    <3>1. /\ cpc = "last_reader" /\ cpc' = "leave" /\ semvals["write_sem"] = 1
          /\ UNCHANGED <<kernel, daemon, my_queue, opens, descriptor, read_count>>
      BY <1>8, <2>2 DEF CLastReader, CSemop, CLocal
    <3>2. TypeOK'
      BY <3>1
    <3>3. ClientStarts' /\ ClientGoesOn' /\ FirstCalls' /\ FirstWaits'
      BY <3>1
    <3>4. DaemonRuns' /\ Later'
      BY <3>1
    <3>5. SemaphoresOfTheFile'
      BY <2>2, <3>1
    <3>6. QED
      BY <3>2, <3>3, <3>4, <3>5
  <2>3. QED
    BY <2>1, <2>2
<1>9. CASE CSemop("read_sem", 1, "leave", "done")
  <2>1. TypeOK'
    BY <1>9 DEF CSemop
  <2>2. DaemonRuns' /\ ClientStarts' /\ ClientGoesOn'
    BY <1>9 DEF CSemop
  <2>3. FirstCalls' /\ FirstWaits' /\ Later'
    BY <1>9 DEF CSemop
  <2>4. SemaphoresOfTheFile'
    BY <1>9 DEF CSemop
  <2>5. QED
    BY <2>1, <2>2, <2>3, <2>4
<1>10. CASE hlib_read
  <2>1. TypeOK'
    BY <1>10 DEF hlib_read, CMove
  <2>2. DaemonRuns' /\ ClientStarts' /\ ClientGoesOn'
    BY <1>10 DEF hlib_read, CMove
  <2>3. FirstCalls' /\ FirstWaits' /\ Later'
    BY <1>10 DEF hlib_read, CMove
  <2>4. SemaphoresOfTheFile'
    BY <1>10 DEF hlib_read, CMove
  <2>5. QED
    BY <2>1, <2>2, <2>3, <2>4
<1>11. CASE hlib_lseek
  <2>b. cpc = "copy"
    BY <1>11 DEF hlib_lseek, CMove
  <2>c. file_pointer \in Nat
    BY <2>b
  <2>a. PICK to \in Nat : CMove(to)
    BY <1>11, <2>c, SeekStaysInside
  <2>1. TypeOK'
    BY <2>a DEF CMove
  <2>2. DaemonRuns' /\ ClientStarts' /\ ClientGoesOn'
    <3>1. DaemonRuns'
      BY <2>a DEF CMove
    <3>2. ClientStarts'
      BY <2>a DEF CMove
    <3>3. ClientGoesOn'
      BY <2>a DEF CMove
    <3>4. QED
      BY <3>1, <3>2, <3>3
  <2>3. FirstCalls' /\ FirstWaits' /\ Later'
    BY <2>a DEF CMove
  <2>4. SemaphoresOfTheFile'
    BY <2>a DEF CMove
  <2>5. QED
    BY <2>1, <2>2, <2>3, <2>4
<1>12. CASE CHECK_FD /\ CSemop("write_sem", -1, "opened", "write")
  <2>1. TypeOK'
    BY <1>12 DEF CHECK_FD, CSemop
  <2>2. DaemonRuns' /\ ClientStarts' /\ ClientGoesOn'
    BY <1>12 DEF CHECK_FD, CSemop
  <2>3. FirstCalls' /\ FirstWaits' /\ Later'
    BY <1>12 DEF CHECK_FD, CSemop
  <2>4. SemaphoresOfTheFile'
    BY <1>12 DEF CHECK_FD, CSemop
  <2>5. QED
    BY <2>1, <2>2, <2>3, <2>4
<1>13. CASE CLocal("write", "written")
  <2>1. TypeOK'
    BY <1>13 DEF CLocal
  <2>2. DaemonRuns' /\ ClientStarts' /\ ClientGoesOn'
    BY <1>13 DEF CLocal
  <2>3. FirstCalls' /\ FirstWaits' /\ Later'
    BY <1>13 DEF CLocal
  <2>4. SemaphoresOfTheFile'
    BY <1>13 DEF CLocal
  <2>5. QED
    BY <2>1, <2>2, <2>3, <2>4
<1>14. CASE CSemop("write_sem", 1, "written", "done")
  <2>1. TypeOK'
    BY <1>14 DEF CSemop
  <2>2. DaemonRuns' /\ ClientStarts' /\ ClientGoesOn'
    BY <1>14 DEF CSemop
  <2>3. FirstCalls' /\ FirstWaits' /\ Later'
    BY <1>14 DEF CSemop
  <2>4. SemaphoresOfTheFile'
    BY <1>14 DEF CSemop
  <2>5. QED
    BY <2>1, <2>2, <2>3, <2>4
<1>15. CASE hlib_close
  <2>1. TypeOK'
    BY <1>15 DEF hlib_close
  <2>2. DaemonRuns' /\ ClientStarts' /\ ClientGoesOn'
    BY <1>15 DEF hlib_close
  <2>3. FirstCalls' /\ FirstWaits' /\ Later'
    BY <1>15 DEF hlib_close
  <2>4. SemaphoresOfTheFile'
    BY <1>15 DEF hlib_close
  <2>5. QED
    BY <2>1, <2>2, <2>3, <2>4
<1>16. CASE CCallAgain
  <2>1. TypeOK'
    BY FileOpenAssumption, <1>16 DEF CCallAgain
  <2>2. DaemonRuns' /\ ClientStarts' /\ ClientGoesOn'
    BY <1>16 DEF CCallAgain
  <2>3. FirstCalls' /\ FirstWaits' /\ Later'
    BY <1>16 DEF CCallAgain
  <2>4. SemaphoresOfTheFile'
    BY <1>16 DEF CCallAgain
  <2>5. QED
    BY <2>1, <2>2, <2>3, <2>4
<1>17. CASE COpenAgain
  <2>1. TypeOK'
    BY <1>17 DEF COpenAgain, CLocal
  <2>2. DaemonRuns' /\ ClientStarts' /\ ClientGoesOn'
    BY <1>17 DEF COpenAgain, CLocal
  <2>3. FirstCalls' /\ FirstWaits' /\ Later'
    BY <1>17 DEF COpenAgain, CLocal
  <2>4. SemaphoresOfTheFile'
    BY <1>17 DEF COpenAgain, CLocal
  <2>5. QED
    BY <2>1, <2>2, <2>3, <2>4
<1>18. CASE CExit
  <2>1. TypeOK'
    BY <1>18 DEF CExit
  <2>2. DaemonRuns' /\ ClientStarts' /\ ClientGoesOn'
    BY <1>18 DEF CExit
  <2>3. FirstCalls' /\ FirstWaits' /\ Later'
    BY <1>18 DEF CExit
  <2>4. SemaphoresOfTheFile'
    BY <1>18 DEF CExit
  <2>5. QED
    BY <2>1, <2>2, <2>3, <2>4
<1>19. QED
  BY <1>1, <1>2, <1>3, <1>4, <1>5, <1>6, <1>7, <1>8, <1>9, <1>10, <1>11, <1>12,
     <1>13, <1>14, <1>15, <1>16, <1>17, <1>18 DEF CReader, hlib_write

-----------------------------------------------------------------------------
(* The invariant holds in every behaviour. *)
LEMMA Invariant == Spec => []IInv
<1>1. Init => IInv
  BY InitHolds
<1>2. IInv /\ [Next]_vars => IInv'
  <2> SUFFICES ASSUME IInv, [Next]_vars
               PROVE  IInv'
    OBVIOUS
  <2>1. CASE CreateClient \/ VFSNext
    BY <2>1, DaemonKeeps
  <2>2. CASE CSleep \/ init_ipc \/ hlib_open
    BY <2>2, OpeningKeeps
  <2>3. CASE CBadDescriptor \/ CReader \/ hlib_read \/ hlib_lseek \/ hlib_write \/ hlib_close
                \/ CCallAgain \/ COpenAgain \/ CExit
    BY <2>3, UsingKeeps
  <2>4. CASE UNCHANGED vars
    BY <2>4 DEF IInv, TypeOK, DaemonRuns, ClientStarts, ClientGoesOn, FirstCalls, FirstWaits,
                Later, SemaphoresOfTheFile, QueuesHold, vars, kernel, daemon, client, descriptor
  <2>5. QED
    BY <2>1, <2>2, <2>3, <2>4 DEF Next, ClientNext
<1>3. QED
  BY <1>1, <1>2, PTL DEF Spec

(* Every variable has its type: a semaphore that one thread downs at a     *)
(* time stays between -1 and 1, and no more than two queues are made.      *)
THEOREM TypeCorrect == Spec => []TypeOK
<1>1. IInv => TypeOK
  BY DEF IInv
<1>2. QED
  BY <1>1, Invariant, PTL

(* hlib_open and VFS::loop never miss each other: the request reaches the  *)
(* daemon's queue, the path is in the client's before the request is in    *)
(* the daemon's, the reply in it before the semaphore goes up, and the     *)
(* file is loaded before that.  The request is sent behind the path, the   *)
(* semaphore comes behind the reply, and each queue has one reader at a    *)
(* time.                                                                   *)
THEOREM NothingIsAskedForInVain == Spec => []WhatIsAskedForIsThere
<1>1. IInv => WhatIsAskedForIsThere
  <2> SUFFICES ASSUME IInv PROVE WhatIsAskedForIsThere
    OBVIOUS
  <2> USE DEF IInv, TypeOK, Starting, Calling, Waiting, Reading, AtTheFile
  <2>1. RequestsReachTheDaemon
    BY DEF RequestsReachTheDaemon, ClientGoesOn, DaemonRuns
  <2>2. PathIsThere
    <3>1. SUFFICES ASSUME vpc = "path"
                   PROVE  Holds(my_queue, "path")
      BY DEF PathIsThere
    <3>2. cpc \in Waiting /\ opens = 0 /\ my_queue = 1
      BY <3>1 DEF ClientStarts, ClientGoesOn, FirstCalls, Later
    <3>3. queue = << << >>, <<"path">> >>
      BY <3>1, <3>2 DEF FirstWaits, QueuesHold
    <3>4. QED
      BY <3>2, <3>3, QueueFacts DEF Holds
  <2>3. ReplyIsThere
    <3>1. SUFFICES ASSUME cpc = "get_reply", status[Client] = "ACTIVE"
                   PROVE  Holds(my_queue, "reply")
      BY DEF ReplyIsThere, Runs
    <3>2. my_queue = 1 /\ opens = 0
      BY <3>1 DEF ClientGoesOn, Later
    <3>3. vpc = "forever"
      BY <3>1, <3>2 DEF FirstWaits
    <3>4. queue = << << >>, <<"reply">> >>
      BY <3>1, <3>2, <3>3 DEF FirstWaits, QueuesHold
    <3>5. QED
      BY <3>2, <3>4, QueueFacts DEF Holds
  <2>4. FileIsComplete
    BY DEF FileIsComplete, ClientGoesOn, Later
  <2>5. QED
    BY <2>1, <2>2, <2>3, <2>4 DEF WhatIsAskedForIsThere
<1>2. QED
  BY <1>1, Invariant, PTL

(* hlib_read, hlib_lseek and hlib_write leave the semaphores of a file as  *)
(* hlib_open made them, with any count of readers in the header that the   *)
(* daemon never set; and they hold write_sem while they read as the only   *)
(* counted reader.                                                         *)
THEOREM ReadersAndWritersKeepApart == Spec => []ReadersAndWritersAreApart
<1>1. IInv => ReadersAndWritersAreApart
  BY DEF IInv, TypeOK, SemaphoresOfTheFile, ReadersAndWritersAreApart, SemaphoresAreGivenBack,
         ReadersKeepWritersOut, Waiting
<1>2. QED
  BY <1>1, Invariant, PTL

(* The daemon serves one request: behind its reply stands a while(1)       *)
(* (vfs.cpp:163), so that hlib_open returns once and never again, however  *)
(* many files a program opens.                                             *)
THEOREM OnlyOneOpenReturns == Spec => [](opens <= 1)
<1>1. IInv => opens <= 1
  BY DEF IInv, ClientStarts, ClientGoesOn
<1>2. QED
  BY <1>1, Invariant, PTL
=============================================================================
