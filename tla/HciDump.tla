------------------------------ MODULE HciDump ------------------------------
(***************************************************************************)
(* The life cycle of the HCI dump module of hci_data_dump.c: start_up()   *)
(* and shut_down() run by the stack's module manager, display_hci_data()  *)
(* called by the threads that send commands and receive events, and the   *)
(* dump thread that dequeues each packet in hci_raw_data_ready() and      *)
(* decodes it (decoding itself is the subject of HciDecoder; here it is    *)
(* one step).                                                              *)
(*                                                                         *)
(* Every fixed_queue_new() yields a fresh queue, numbered by the start_up *)
(* call that made it; m_hci_dump_data_queue and m_hci_dump_thread hold    *)
(* such a number, or 0 for NULL.  Shared variables are read and written   *)
(* in single steps (sequentially consistent memory).                      *)
(***************************************************************************)
EXTENDS Naturals, Sequences, FiniteSets, SequencesExt

CONSTANTS
    Producers,     \* threads that call display_hci_data()
    MaxPackets,    \* packets the producers hand over in one behaviour
    MaxStarts,     \* start_up() calls in one behaviour
    ConfigEnabled  \* values MtkBtHciDump_enable may have in bt_stack.conf

ASSUME MaxPackets \in Nat /\ MaxStarts \in Nat /\ ConfigEnabled \subseteq BOOLEAN

Packets == 1..MaxPackets
Starts == 1..MaxStarts
NULL == 0

VARIABLES
    running,   \* b_is_hci_dump_running
    queuePtr,  \* m_hci_dump_data_queue
    threadPtr, \* m_hci_dump_thread
    queues,    \* queue number -> [live, items]: every queue ever created
    starts,    \* start_up() calls so far
    ctl,       \* module manager: "down", "up", or a step of shut_down()
    prod,      \* producer -> packet it is copying after the running check, or 0
    sent,      \* packets handed to display_hci_data() so far
    busy,      \* packet hci_raw_data_ready() is decoding, or 0
    decoded,   \* packets decoded and freed by the dump thread
    discarded, \* packets freed by fixed_queue_free() without being decoded
    fault,     \* "none", or how a producer touched a dead queue
    author,    \* packet -> the producer whose display_hci_data() made it
    shown      \* the packets hci_raw_data_ready() printed, in print order

vars == <<running, queuePtr, threadPtr, queues, starts, ctl, prod, sent,
          busy, decoded, discarded, fault, author, shown>>

Init ==
    /\ running = FALSE
    /\ queuePtr = NULL
    /\ threadPtr = NULL
    /\ queues = [s \in Starts |-> [live |-> FALSE, items |-> <<>>]]
    /\ starts = 0
    /\ ctl = "down"
    /\ prod = [p \in Producers |-> 0]
    /\ sent = 0
    /\ busy = 0
    /\ decoded = {}
    /\ discarded = {}
    /\ fault = "none"
    /\ author = <<>>
    /\ shown = <<>>

Alive == fault = "none"

\* Every packet the queues hold.
Queued == UNION {{queues[s].items[i] : i \in DOMAIN queues[s].items} : s \in Starts}

-----------------------------------------------------------------------------
(* start_up(): with the config key off, or when thread_new() fails, it    *)
(* returns FUTURE_FAIL and leaves no queue; otherwise the queue, the       *)
(* thread and the dequeue callback are set up before running is set.      *)
StartUp ==
    /\ Alive /\ ctl = "down" /\ starts < MaxStarts
    /\ \E enabled \in ConfigEnabled, threadMade \in BOOLEAN :
         LET s == starts + 1 IN
         /\ starts' = s
         /\ IF enabled /\ threadMade
            THEN /\ queues' = [queues EXCEPT ![s].live = TRUE]
                 /\ queuePtr' = s
                 /\ threadPtr' = s
                 /\ running' = TRUE
                 /\ ctl' = "up"
            ELSE UNCHANGED <<queues, queuePtr, threadPtr, running, ctl, author, shown>>
    /\ UNCHANGED <<prod, sent, busy, decoded, discarded, fault, author, shown>>

(* shut_down(), one step per statement that another thread can observe.   *)
ShutDownClearFlag ==
    /\ Alive /\ ctl = "up"
    /\ running' = FALSE
    /\ ctl' = "stopping"
    /\ UNCHANGED <<queuePtr, threadPtr, queues, starts, prod, sent, busy,
                   decoded, discarded, fault, author, shown>>

\* thread_stop() and thread_join(): the reactor leaves after the callback
\* it is running, and the join returns once it has.
\* Mutant of ShutDownJoin: the thread is stopped but neither joined nor
\* cleared.
ShutDownJoinSkipped ==
    /\ Alive /\ ctl = "stopping"
    /\ ctl' = "joined"
    /\ UNCHANGED <<running, queuePtr, threadPtr, queues, starts, prod, sent, busy,
                   decoded, discarded, fault, author, shown>>

ShutDownJoin ==
    /\ Alive /\ ctl = "stopping"
    /\ busy = 0
    /\ threadPtr' = NULL
    /\ ctl' = "joined"
    /\ UNCHANGED <<running, queuePtr, queues, starts, prod, sent, busy,
                   decoded, discarded, fault, author, shown>>

\* fixed_queue_free(m_hci_dump_data_queue, osi_free): the queue and every
\* packet still in it are freed.
ShutDownFreeQueue ==
    /\ Alive /\ ctl = "joined"
    /\ LET s == queuePtr IN
       /\ queues' = [queues EXCEPT ![s] = [live |-> FALSE, items |-> <<>>]]
       /\ discarded' = discarded \cup {queues[s].items[i] : i \in DOMAIN queues[s].items}
    /\ ctl' = "freed"
    /\ UNCHANGED <<running, queuePtr, threadPtr, starts, prod, sent, busy,
                   decoded, fault, author, shown>>

ShutDownClearQueue ==
    /\ Alive /\ ctl = "freed"
    /\ queuePtr' = NULL
    /\ ctl' = "down"
    /\ UNCHANGED <<running, threadPtr, queues, starts, prod, sent, busy,
                   decoded, discarded, fault, author, shown>>

ShutDown == ShutDownClearFlag \/ ShutDownJoin \/ ShutDownFreeQueue \/ ShutDownClearQueue

-----------------------------------------------------------------------------
(* display_hci_data(): the running check, then (after copying the packet  *)
(* and formatting the time) fixed_queue_enqueue() on whatever             *)
(* m_hci_dump_data_queue holds by then.  A check that finds running false *)
(* returns and changes nothing.                                            *)
DisplayCheck(p) ==
    /\ Alive /\ prod[p] = 0 /\ sent < MaxPackets
    /\ running
    /\ sent' = sent + 1
    /\ prod' = [prod EXCEPT ![p] = sent + 1]
    /\ author' = author @@ (sent + 1 :> p)
    /\ UNCHANGED <<running, queuePtr, threadPtr, queues, starts, ctl, busy,
                   decoded, discarded, fault, shown>>

\* fixed_queue_enqueue() aborts on a NULL queue (CHECK(queue != NULL)); a
\* freed queue is used after free.
\* Mutant of DisplayEnqueue: no check that a packet is in hand, as when
\* display_hci_data() drops its packet == NULL test.
DisplayEnqueueUnchecked(p) ==
    /\ Alive
    /\ LET s == queuePtr IN
       CASE s = NULL ->
              /\ fault' = "null_queue"
              /\ UNCHANGED queues
         [] ~queues[s].live ->
              /\ fault' = "freed_queue"
              /\ UNCHANGED queues
         [] OTHER ->
              /\ queues' = [queues EXCEPT ![s].items = Append(@, prod[p])]
              /\ UNCHANGED fault
    /\ prod' = [prod EXCEPT ![p] = 0]
    /\ UNCHANGED <<running, queuePtr, threadPtr, starts, ctl, sent, busy,
                   decoded, discarded, author, shown>>

DisplayEnqueue(p) ==
    /\ Alive /\ prod[p] # 0
    /\ LET s == queuePtr IN
       CASE s = NULL ->
              /\ fault' = "null_queue"
              /\ UNCHANGED queues
         [] ~queues[s].live ->
              /\ fault' = "freed_queue"
              /\ UNCHANGED queues
         [] OTHER ->
              /\ queues' = [queues EXCEPT ![s].items = Append(@, prod[p])]
              /\ UNCHANGED fault
    /\ prod' = [prod EXCEPT ![p] = 0]
    /\ UNCHANGED <<running, queuePtr, threadPtr, starts, ctl, sent, busy,
                   decoded, discarded, author, shown>>

-----------------------------------------------------------------------------
(* The dump thread: the reactor calls hci_raw_data_ready() while its      *)
(* queue has a packet; the packet is decoded and then osi_free()d.        *)
\* Mutant of Dequeue: the head is read but left in the queue.
DequeuePeek ==
    /\ Alive /\ threadPtr # NULL /\ busy = 0
    /\ queues[threadPtr].items # <<>>
    /\ busy' = Head(queues[threadPtr].items)
    /\ UNCHANGED <<running, queuePtr, threadPtr, queues, starts, ctl, prod, sent,
                   decoded, discarded, fault, author, shown>>

\* Mutant of Dequeue: the callback fires only while two packets wait.
DequeueButLast ==
    /\ Alive /\ threadPtr # NULL /\ busy = 0
    /\ Len(queues[threadPtr].items) > 1
    /\ busy' = Head(queues[threadPtr].items)
    /\ queues' = [queues EXCEPT ![threadPtr].items = Tail(@)]
    /\ UNCHANGED <<running, queuePtr, threadPtr, starts, ctl, prod, sent,
                   decoded, discarded, fault, author, shown>>

\* Mutant of Dequeue: the newest packet is taken first, as a LIFO list
\* in place of fixed_queue would.
DequeueNewest ==
    /\ Alive /\ threadPtr # NULL /\ busy = 0
    /\ queues[threadPtr].items # <<>>
    /\ busy' = Last(queues[threadPtr].items)
    /\ queues' = [queues EXCEPT ![threadPtr].items = Front(@)]
    /\ UNCHANGED <<running, queuePtr, threadPtr, starts, ctl, prod, sent,
                   decoded, discarded, fault, author, shown>>

Dequeue ==
    /\ Alive /\ threadPtr # NULL /\ busy = 0
    /\ queues[threadPtr].items # <<>>
    /\ busy' = Head(queues[threadPtr].items)
    /\ queues' = [queues EXCEPT ![threadPtr].items = Tail(@)]
    /\ UNCHANGED <<running, queuePtr, threadPtr, starts, ctl, prod, sent,
                   decoded, discarded, fault, author, shown>>

DecodeAndFree ==
    /\ Alive /\ busy # 0
    /\ decoded' = decoded \cup {busy}
    /\ shown' = Append(shown, busy)
    /\ busy' = 0
    /\ UNCHANGED <<running, queuePtr, threadPtr, queues, starts, ctl, prod,
                   sent, discarded, fault, author>>

DumpThread == Dequeue \/ DecodeAndFree

Next ==
    \/ StartUp \/ ShutDown \/ DumpThread
    \/ \E p \in Producers : DisplayCheck(p) \/ DisplayEnqueue(p)

\* The dump thread runs whenever it has work; a shut_down() that has begun
\* runs to its end; a producer that passed the check goes on to enqueue.
\* Nothing obliges the stack to start, stop, or send packets.
Spec ==
    /\ Init /\ [][Next]_vars
    /\ WF_vars(DumpThread)
    /\ WF_vars(ShutDownJoin) /\ WF_vars(ShutDownFreeQueue) /\ WF_vars(ShutDownClearQueue)
    /\ \A p \in Producers : WF_vars(DisplayEnqueue(p))

-----------------------------------------------------------------------------
(* Properties.                                                             *)

TypeOK ==
    /\ running \in BOOLEAN
    /\ queuePtr \in {NULL} \cup Starts /\ threadPtr \in {NULL} \cup Starts
    /\ \A s \in Starts : queues[s].live \in BOOLEAN /\ queues[s].items \in Seq(Packets)
    /\ starts \in 0..MaxStarts
    /\ ctl \in {"down", "up", "stopping", "joined", "freed"}
    /\ prod \in [Producers -> {0} \cup Packets]
    /\ sent \in 0..MaxPackets /\ busy \in {0} \cup Packets
    /\ decoded \subseteq Packets /\ discarded \subseteq Packets
    /\ fault \in {"none", "null_queue", "freed_queue"}
    /\ author \in [1..sent -> Producers] /\ shown \in Seq(Packets)

\* The dump thread only exists while the queue it serves does, and that is
\* the queue display_hci_data() enqueues on: shut_down() joins the thread
\* before it frees the queue, and start_up() sets both.
DumpThreadServesLiveQueue ==
    threadPtr # NULL => threadPtr = queuePtr /\ queues[threadPtr].live

\* Every packet handed to display_hci_data() is in exactly one place: in a
\* producer's hands, in a queue, being decoded, decoded and freed, or
\* freed by fixed_queue_free(); none is lost or freed twice.
Holders(id) ==
    {h \in {"producer", "queue", "busy", "decoded", "discarded"} :
        CASE h = "producer"  -> \E p \in Producers : prod[p] = id
          [] h = "queue"     -> \E s \in Starts : \E i \in DOMAIN queues[s].items :
                                   queues[s].items[i] = id
          [] h = "busy"      -> busy = id
          [] h = "decoded"   -> id \in decoded
          [] h = "discarded" -> id \in discarded}

PacketsAccountedFor == Alive => \A id \in 1..sent : Cardinality(Holders(id)) = 1

\* The dump prints each thread's packets in the order that thread handed
\* them to display_hci_data(), across start_up()/shut_down() cycles too:
\* the queue is FIFO, one reactor callback runs at a time, and shut_down()
\* joins the old dump thread before a later start_up() makes a new one.
\* (Packets of different threads may print out of timestamp order; see
\* the README.)
PrintedInProducerOrder ==
    \A i, j \in 1..Len(shown) :
        i < j /\ author[shown[i]] = author[shown[j]] => shown[i] < shown[j]

\* A packet in the queue is eventually decoded, or freed by shut_down().
QueuedPacketsFinish ==
    \A id \in Packets : (id \in Queued) ~> (id \in decoded \cup discarded \/ ~Alive)

\* No display_hci_data() call enqueues on a NULL or freed queue.
NoDeadQueueUse == fault = "none"

=============================================================================
