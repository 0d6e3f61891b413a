--------------------------- MODULE FwLogLifecycle ---------------------------
(***************************************************************************)
(* The life cycle of the firmware logger of fw_logger.c: start_up() and    *)
(* shut_down() (run through init_fw_logger() and deinit_fw_logger()),      *)
(* filter_fw_log() and capture_fw_log() called on the HCI receive path    *)
(* for every event, and the fw log thread that dequeues each record in     *)
(* event_fw_log_data_ready() (what it writes is the subject of             *)
(* FwLogFiles; here it is one step).                                       *)
(*                                                                         *)
(* filter_fw_log() returning true tells its caller that the packet is the  *)
(* logger's: the caller no longer frees it.  owner tracks each such        *)
(* packet: "filter" while filter_fw_log() holds it, "queued" inside a      *)
(* fwlog_packet_t of the queue, "busy" while the handler writes it,        *)
(* "freed" once osi_free(log_data->packet) ran, "lost" when nothing will    *)
(* ever free it.  Queues are numbered by the start_up() that made them.   *)
(***************************************************************************)
EXTENDS Naturals, Sequences, FiniteSets

CONSTANTS
    Receivers,   \* threads that hand events to filter_fw_log()
    MaxPackets,  \* firmware log events in one behaviour
    MaxStarts    \* start_up() calls in one behaviour

ASSUME MaxPackets \in Nat /\ MaxStarts \in Nat

Packets == 1..MaxPackets
Starts == 1..MaxStarts
NULL == 0

VARIABLES
    running,   \* m_fw_logger_running
    queuePtr,  \* m_fw_log_data_queue
    thread,    \* the start_up() whose thread still runs its reactor, or NULL
    queues,    \* queue number -> [live, items]
    starts,    \* start_up() calls so far
    ctl,       \* "down", "up", or the step shut_down() has reached
    recv,      \* receiver -> [at, pkt]: where it is in filter_fw_log()
    sent,      \* firmware log events received so far
    busy,      \* packet event_fw_log_data_ready() is writing, or 0
    owner,     \* packet -> who holds it (see above)
    fault      \* "none", or how capture_fw_log() touched a dead queue

vars == <<running, queuePtr, thread, queues, starts, ctl, recv, sent, busy,
          owner, fault>>

Owners == {"none", "filter", "queued", "busy", "freed", "lost"}

Init ==
    /\ running = FALSE
    /\ queuePtr = NULL
    /\ thread = NULL
    /\ queues = [s \in Starts |-> [live |-> FALSE, items |-> <<>>]]
    /\ starts = 0
    /\ ctl = "down"
    /\ recv = [r \in Receivers |-> [at |-> "idle", pkt |-> 0]]
    /\ sent = 0
    /\ busy = 0
    /\ owner = [i \in Packets |-> "none"]
    /\ fault = "none"

Alive == fault = "none"

-----------------------------------------------------------------------------
(* start_up(): a new queue and thread; thread_new() failing frees the     *)
(* queue and returns FUTURE_FAIL with running still false.                 *)
\* Mutant of StartUp: fixed_queue_register_dequeue() is left out, so the
\* new thread's reactor never serves the queue.
StartUpNoRegister ==
    /\ Alive /\ ctl = "down" /\ ~running /\ starts < MaxStarts
    /\ \E threadMade \in BOOLEAN :
         LET s == starts + 1 IN
         /\ starts' = s
         /\ IF threadMade
            THEN /\ queues' = [queues EXCEPT ![s].live = TRUE]
                 /\ queuePtr' = s
                 /\ thread' = NULL
                 /\ running' = TRUE
                 /\ ctl' = "up"
            ELSE UNCHANGED <<queues, queuePtr, thread, running, ctl>>
    /\ UNCHANGED <<recv, sent, busy, owner, fault>>

StartUp ==
    /\ Alive /\ ctl = "down" /\ ~running /\ starts < MaxStarts
    /\ \E threadMade \in BOOLEAN :
         LET s == starts + 1 IN
         /\ starts' = s
         /\ IF threadMade
            THEN /\ queues' = [queues EXCEPT ![s].live = TRUE]
                 /\ queuePtr' = s
                 /\ thread' = s
                 /\ running' = TRUE
                 /\ ctl' = "up"
            ELSE UNCHANGED <<queues, queuePtr, thread, running, ctl>>
    /\ UNCHANGED <<recv, sent, busy, owner, fault>>

(* deinit_fw_logger() calls shut_down() when running is set; one step per *)
(* statement another thread can observe.                                   *)
ShutDownClearFlag ==
    /\ Alive /\ ctl = "up" /\ running
    /\ running' = FALSE
    /\ ctl' = "stopping"
    /\ UNCHANGED <<queuePtr, thread, queues, starts, recv, sent, busy, owner, fault>>

\* thread_stop() and thread_join() on m_thread: the reactor returns after
\* the callback it runs.  m_thread itself is not cleared.
ShutDownJoin ==
    /\ Alive /\ ctl = "stopping"
    /\ busy = 0
    /\ thread' = NULL
    /\ ctl' = "joined"
    /\ UNCHANGED <<running, queuePtr, queues, starts, recv, sent, busy, owner, fault>>

\* fixed_queue_free(m_fw_log_data_queue, osi_free): every fwlog_packet_t
\* still queued is freed, the BT_HDR it points to is not.
ShutDownFreeQueue ==
    /\ Alive /\ ctl = "joined"
    /\ LET s == queuePtr
           pending == {queues[s].items[i] : i \in DOMAIN queues[s].items}
       IN  /\ queues' = [queues EXCEPT ![s] = [live |-> FALSE, items |-> <<>>]]
           /\ owner' = [i \in Packets |-> IF i \in pending THEN "lost" ELSE owner[i]]
    /\ ctl' = "freed"
    /\ UNCHANGED <<running, queuePtr, thread, starts, recv, sent, busy, fault>>

\* m_fw_log_data_queue = NULL, then the log file is closed.
ShutDownClearQueue ==
    /\ Alive /\ ctl = "freed"
    /\ queuePtr' = NULL
    /\ ctl' = "down"
    /\ UNCHANGED <<running, thread, queues, starts, recv, sent, busy, owner, fault>>

ShutDown == ShutDownClearFlag \/ ShutDownJoin \/ ShutDownFreeQueue \/ ShutDownClearQueue

-----------------------------------------------------------------------------
(* filter_fw_log(): an event 0xFF with a non-zero length and subevent 0x50 *)
(* is taken when running is set (an event it does not take changes         *)
(* nothing).  capture_fw_log() then tests m_fw_log_data_queue and, after   *)
(* allocating the fwlog_packet_t and reading the clock, reads it again to  *)
(* enqueue.  Either way filter_fw_log() returns true.                      *)
FilterFwLog(r) ==
    /\ Alive /\ recv[r].at = "idle" /\ sent < MaxPackets
    /\ running
    /\ sent' = sent + 1
    /\ owner' = [owner EXCEPT ![sent + 1] = "filter"]
    /\ recv' = [recv EXCEPT ![r] = [at |-> "capture", pkt |-> sent + 1]]
    /\ UNCHANGED <<running, queuePtr, thread, queues, starts, ctl, busy, fault>>

CaptureCheck(r) ==
    /\ Alive /\ recv[r].at = "capture"
    /\ IF queuePtr # NULL
       THEN /\ recv' = [recv EXCEPT ![r].at = "enqueue"]
            /\ UNCHANGED owner
       ELSE /\ recv' = [recv EXCEPT ![r] = [at |-> "idle", pkt |-> 0]]
            /\ owner' = [owner EXCEPT ![recv[r].pkt] = "lost"]
    /\ UNCHANGED <<running, queuePtr, thread, queues, starts, ctl, sent, busy, fault>>

\* fixed_queue_enqueue() aborts on a NULL queue; a freed one is used after
\* free.
\* Mutant of CaptureEnqueue: enqueues whatever the receiver holds, even
\* no packet.
CaptureEnqueueUnguarded(r) ==
    /\ Alive
    /\ LET s == queuePtr
           i == recv[r].pkt
       IN  CASE s = NULL ->
                  /\ fault' = "null_queue"
                  /\ UNCHANGED <<queues, owner>>
             [] ~queues[s].live ->
                  /\ fault' = "freed_queue"
                  /\ UNCHANGED <<queues, owner>>
             [] OTHER ->
                  /\ queues' = [queues EXCEPT ![s].items = Append(@, i)]
                  /\ owner' = [owner EXCEPT ![i] = "queued"]
                  /\ UNCHANGED fault
    /\ recv' = [recv EXCEPT ![r] = [at |-> "idle", pkt |-> 0]]
    /\ UNCHANGED <<running, queuePtr, thread, starts, ctl, sent, busy>>

CaptureEnqueue(r) ==
    /\ Alive /\ recv[r].at = "enqueue"
    /\ LET s == queuePtr
           i == recv[r].pkt
       IN  CASE s = NULL ->
                  /\ fault' = "null_queue"
                  /\ UNCHANGED <<queues, owner>>
             [] ~queues[s].live ->
                  /\ fault' = "freed_queue"
                  /\ UNCHANGED <<queues, owner>>
             [] OTHER ->
                  /\ queues' = [queues EXCEPT ![s].items = Append(@, i)]
                  /\ owner' = [owner EXCEPT ![i] = "queued"]
                  /\ UNCHANGED fault
    /\ recv' = [recv EXCEPT ![r] = [at |-> "idle", pkt |-> 0]]
    /\ UNCHANGED <<running, queuePtr, thread, starts, ctl, sent, busy>>

Receive(r) == FilterFwLog(r) \/ CaptureCheck(r) \/ CaptureEnqueue(r)

-----------------------------------------------------------------------------
(* The fw log thread: the reactor runs event_fw_log_data_ready() while its *)
(* queue holds a record; the record is written, then the packet and its    *)
(* fwlog_packet_t are freed.                                               *)
\* Mutant of Dequeue: the head is read but left in the queue.
DequeuePeek ==
    /\ Alive /\ thread # NULL /\ busy = 0
    /\ queues[thread].items # <<>>
    /\ busy' = Head(queues[thread].items)
    /\ owner' = [owner EXCEPT ![Head(queues[thread].items)] = "busy"]
    /\ UNCHANGED <<running, queuePtr, thread, queues, starts, ctl, recv, sent, fault>>

Dequeue ==
    /\ Alive /\ thread # NULL /\ busy = 0
    /\ queues[thread].items # <<>>
    /\ busy' = Head(queues[thread].items)
    /\ owner' = [owner EXCEPT ![Head(queues[thread].items)] = "busy"]
    /\ queues' = [queues EXCEPT ![thread].items = Tail(@)]
    /\ UNCHANGED <<running, queuePtr, thread, starts, ctl, recv, sent, fault>>

WriteAndFree ==
    /\ Alive /\ busy # 0
    /\ owner' = [owner EXCEPT ![busy] = "freed"]
    /\ busy' = 0
    /\ UNCHANGED <<running, queuePtr, thread, queues, starts, ctl, recv, sent, fault>>

LogThread == Dequeue \/ WriteAndFree

Next ==
    \/ StartUp \/ ShutDown \/ LogThread
    \/ \E r \in Receivers : Receive(r)

\* The log thread runs whenever it has work; a shut_down() that has begun
\* runs to its end; a receiver inside filter_fw_log() finishes the call.
\* Nothing obliges the stack to start, stop, or receive events.
Spec ==
    /\ Init /\ [][Next]_vars
    /\ WF_vars(LogThread)
    /\ WF_vars(ShutDownJoin) /\ WF_vars(ShutDownFreeQueue) /\ WF_vars(ShutDownClearQueue)
    /\ \A r \in Receivers : WF_vars(CaptureCheck(r)) /\ WF_vars(CaptureEnqueue(r))

-----------------------------------------------------------------------------
(* Properties.                                                             *)

TypeOK ==
    /\ running \in BOOLEAN
    /\ queuePtr \in {NULL} \cup Starts /\ thread \in {NULL} \cup Starts
    /\ queues \in [Starts -> [live : BOOLEAN, items : Seq(Packets)]]
    /\ starts \in 0..MaxStarts /\ sent \in 0..MaxPackets
    /\ ctl \in {"down", "up", "stopping", "joined", "freed"}
    /\ recv \in [Receivers -> [at : {"idle", "capture", "enqueue"}, pkt : {0} \cup Packets]]
    /\ busy \in {0} \cup Packets
    /\ owner \in [Packets -> Owners]
    /\ fault \in {"none", "null_queue", "freed_queue"}

\* Each packet the logger took is where its owner says: in exactly one
\* queue slot while "queued", the one the handler writes while "busy".
QueueMatchesOwners ==
    Alive =>
      /\ \A i \in Packets : owner[i] = "queued" <=>
            \E s \in Starts : \E k \in DOMAIN queues[s].items : queues[s].items[k] = i
      /\ \A s \in Starts : \A k, m \in DOMAIN queues[s].items :
            queues[s].items[k] = queues[s].items[m] => k = m
      /\ \A i \in Packets : owner[i] = "busy" <=> i = busy

\* Every record capture_fw_log() enqueues leaves the queue: the fw log
\* thread of the start_up() that made the queue writes and frees it, or
\* shut_down() frees its fwlog_packet_t, also for a record enqueued after
\* the join and before fixed_queue_free(), and across a restart.
QueuedRecordsLeave ==
    \A i \in Packets :
        owner[i] = "queued" ~> (owner[i] \in {"freed", "lost"} \/ ~Alive)

\* Every packet filter_fw_log() claimed is freed in the end or still on
\* its way: shut_down() and a NULL queue never leave one behind.
NoPacketLost == \A i \in Packets : owner[i] # "lost"

\* capture_fw_log() never enqueues on a freed or NULL queue.
NoDeadQueueUse == fault = "none"

=============================================================================
