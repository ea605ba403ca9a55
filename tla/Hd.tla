---------------------------------- MODULE Hd ----------------------------------
(***************************************************************************)
(* The hard disk driver, kernel/hd.c: a task enters a request into a list   *)
(* sorted by position on the disk and waits for its buffer to be unlocked,  *)
(* the disk's interrupts carry the requests out one after the other.        *)
(*                                                                          *)
(* A task in the kernel keeps the processor until it sleeps, but the disk   *)
(* may interrupt it anywhere: the steps of a task here are the pieces of    *)
(* rw_abs_hd() and add_request() between which an interrupt matters.  An    *)
(* interrupt handler is one step: the disk does not finish another sector   *)
(* within the few instructions of a handler.                                *)
(*                                                                          *)
(* Each task reads and writes one block of its own through one buffer; both *)
(* go by the number of the task, which is also the block's position on the  *)
(* disk.  A block is two sectors.                                           *)
(***************************************************************************)
EXTENDS Naturals, FiniteSets, FiniteSetsExt, Sequences

CONSTANTS
  NrTasks,      \* how many tasks use the disk
  NR_REQUEST,   \* how many requests there may be
  MAX_ERRORS,   \* how many errors in a row are retried
  MaxFaults,    \* bound: how many times the disk fails
  FaultySector, \* bound: the sectors of a block, 0 or 1, where it fails
  Quiet,        \* bound: the places where it does not interrupt a task
  NULL

ASSUME HdAssumption ==
  /\ NrTasks \in Nat \ {0} /\ NR_REQUEST \in Nat \ {0}
  /\ MAX_ERRORS \in Nat /\ MaxFaults \in Nat
  /\ FaultySector \subseteq {0, 1}

VARIABLES
  current,      \* the task running in the driver, NULL: none is
  pc,           \* where in rw_abs_hd a task is
  slot,         \* its local variable req
  tmp,          \* the local variable tmp of add_request, or of its sleep_on
  asleep,       \* the tasks that are TASK_UNINTERRUPTIBLE
  request,      \* request[]
  this_request,
  sorting,
  do_hd,        \* the handler of the next interrupt
  wait_for_request,
  buffer,       \* the buffer heads and what is in the buffers
  disk,         \* what is on the disk
  drive,        \* the command the controller is carrying out
  faults        \* how often the disk failed

code == <<current, pc, slot, tmp, asleep, wait_for_request>>
queue == <<request, this_request, sorting>>
hardware == <<do_hd, drive, faults>>
vars == <<code, queue, hardware, buffer, disk>>

Task == 1 .. NrTasks
Slot == 1 .. NR_REQUEST

(* "user": not in rw_abs_hd; otherwise the line where the task goes on:      *)
(* "scan" 384, "full" 388, "link" inside sleep_on before it sets the state,  *)
(* "slept" after it, "add" 347, "first" 348, "second" 351, "append" 352,     *)
(* "search" 354, "sorted" 364, "restart" 371, "wait" 401, "io" asleep there. *)
PC == {"user", "scan", "full", "link", "slept", "add", "first", "second", "append",
       "search", "sorted", "restart", "wait", "io"}

\* A sector or half a buffer holds half 0 or half 1 of a block, or garbage.
Half == {0, 1}
Garbage == 2
Content == [Half -> Half \union {Garbage}]
Block == [h \in Half |-> h]

Request ==
  [used : BOOLEAN, cmd : {"READ", "WRITE"}, nsector : 0 .. 2,
   bh : Task \union {NULL}, errors : 0 .. MAX_ERRORS, next : Slot \union {NULL}]

\* What a free slot holds does not matter, but for next: it may still be followed.
Empty(next) ==
  [used |-> FALSE, cmd |-> "READ", nsector |-> 0, bh |-> NULL, errors |-> 0, next |-> next]

\* left: sectors still to go, at: the next of them, data: what was sent for it.
Command ==
  [op : {"READ", "WRITE", "SPECIFY"}, bh : Task \union {NULL}, left : 0 .. 2,
   at : Half, data : Half \union {Garbage}]

ASSUME NullAssumption == NULL \notin Nat \union Command \union {"read_intr", "write_intr", "do_request"}

Specify == [op |-> "SPECIFY", bh |-> NULL, left |-> 0, at |-> 0, data |-> Garbage]

TypeOK ==
  /\ current \in Task \union {NULL}
  /\ pc \in [Task -> PC]
  /\ slot \in [Task -> Slot \union {NULL}]
  /\ tmp \in [Task -> Slot \union Task \union {NULL}]
  /\ asleep \subseteq Task
  /\ request \in [Slot -> Request]
  /\ this_request \in Slot \union {NULL}
  /\ sorting \in BOOLEAN
  /\ do_hd \in {NULL, "read_intr", "write_intr", "do_request"}
  /\ wait_for_request \in Task \union {NULL}
  /\ buffer \in [Task -> [lock : BOOLEAN, uptodate : BOOLEAN, data : Content]]
  /\ disk \in [Task -> Content]
  /\ drive \in Command \union {NULL}
  /\ faults \in 0 .. MaxFaults

Init ==
  /\ current = NULL
  /\ pc = [t \in Task |-> "user"]
  /\ slot = [t \in Task |-> NULL]
  /\ tmp = [t \in Task |-> NULL]
  /\ asleep = {}
  /\ request = [s \in Slot |-> Empty(NULL)]
  /\ this_request = NULL
  /\ sorting = FALSE
  /\ do_hd = NULL
  /\ wait_for_request = NULL
  /\ buffer = [t \in Task |-> [lock |-> FALSE, uptodate |-> FALSE,
                               data |-> [h \in Half |-> Garbage]]]
  /\ disk = [t \in Task |-> Block]
  /\ drive = NULL
  /\ faults = 0
-----------------------------------------------------------------------------
(* do_request() for the request r at the head of the list R, entered when    *)
(* the controller has nothing to do.  A write sends the first sector; when   *)
(* the controller does not ask for it in time it is reset.                   *)
Reset == do_hd' = "do_request" /\ drive' = Specify

\* Mutant: the second sector overwrites the first.
HalfOfFirst(r) == 0

\* The offset 512*(nsector&1) into the buffer.
HalfOf(r) == r.nsector % 2

Start(r) ==
  [op |-> r.cmd, bh |-> r.bh, left |-> r.nsector, at |-> 0,
   data |-> IF r.cmd = "WRITE" THEN buffer[r.bh].data[HalfOf(r)] ELSE Garbage]

DoRequest(s, R) ==
  \/ /\ sorting
     /\ drive' = NULL
     /\ UNCHANGED <<do_hd, faults>>
  \/ /\ ~sorting /\ s = NULL
     /\ do_hd' = NULL /\ drive' = NULL
     /\ UNCHANGED faults
  \/ /\ ~sorting /\ s # NULL
     /\ do_hd' = IF R[s].cmd = "WRITE" THEN "write_intr" ELSE "read_intr"
     /\ drive' = Start(R[s])
     /\ UNCHANGED faults
  \/ /\ ~sorting /\ s # NULL
     /\ R[s].cmd = "WRITE" /\ faults < MaxFaults
     /\ faults' = faults + 1
     /\ Reset
-----------------------------------------------------------------------------
(* Interrupts.                                                               *)
MayInterrupt == \A t \in Task : current = t => pc[t] \notin Quiet

First == request[this_request]

\* Mutant: this_request=this_request->next is missing.
FinishStays(b) ==
  /\ buffer' = [buffer EXCEPT ![First.bh] = b]
  /\ asleep' = asleep \ {First.bh, wait_for_request}
  /\ wait_for_request' = NULL
  /\ UNCHANGED this_request

\* Mutant: unlock_buffer without its wake_up.
FinishSilently(b) ==
  /\ buffer' = [buffer EXCEPT ![First.bh] = b]
  /\ asleep' = asleep \ {wait_for_request}
  /\ wait_for_request' = NULL
  /\ this_request' = First.next

\* A request is over: its slot and its buffer are free, who waits is woken.
Finish(b) ==
  /\ buffer' = [buffer EXCEPT ![First.bh] = b]
  /\ asleep' = asleep \ {First.bh, wait_for_request}
  /\ wait_for_request' = NULL
  /\ this_request' = First.next

Transferred(d) == [buffer[First.bh] EXCEPT !.data = d]
Done(b) == [b EXCEPT !.lock = FALSE, !.uptodate = TRUE]

\* The handler returns after the first sector; errors is e now.
MoreToCome(e, b) ==
  /\ request' = [request EXCEPT ![this_request] = [First EXCEPT !.nsector = @ - 1, !.errors = e]]
  /\ buffer' = [buffer EXCEPT ![First.bh] = b]
  /\ drive' = [drive EXCEPT !.left = @ - 1, !.at = 1, !.data = buffer[First.bh].data[1]]
  /\ UNCHANGED <<this_request, asleep, wait_for_request, do_hd, faults>>

LastOne(b) ==
  /\ Finish(Done(b))
  /\ request' = [request EXCEPT ![this_request] = Empty(@.next)]
  /\ DoRequest(this_request', request')

ReadIntr ==
  LET b == Transferred([buffer[First.bh].data EXCEPT ![HalfOf(First)] = disk[drive.bh][drive.at]])
  IN  /\ do_hd = "read_intr"
      /\ IF First.nsector > 1 THEN MoreToCome(0, b) ELSE LastOne(b)
      /\ UNCHANGED disk

WriteIntr ==
  /\ do_hd = "write_intr"
  /\ disk' = [disk EXCEPT ![drive.bh][drive.at] = drive.data]
  /\ IF First.nsector > 1 THEN MoreToCome(First.errors, buffer[First.bh])
                         ELSE LastOne(buffer[First.bh])

GivesUp == First.errors >= MAX_ERRORS

\* bad_rw_intr(): the sector failed; reset and try again, or give up.
BadRwIntr ==
  LET R == [request EXCEPT ![this_request].errors = @ + 1] IN
  /\ do_hd \in {"read_intr", "write_intr"}
  /\ drive.at \in FaultySector /\ faults < MaxFaults
  /\ faults' = faults + 1
  /\ IF GivesUp
     THEN /\ Finish([buffer[First.bh] EXCEPT !.lock = FALSE, !.uptodate = FALSE])
          /\ request' = [R EXCEPT ![this_request] = Empty(@.next)]
     ELSE request' = R /\ UNCHANGED <<buffer, asleep, wait_for_request, this_request>>
  /\ Reset
  /\ UNCHANGED disk

\* After a reset.
ResetIntr ==
  /\ do_hd = "do_request"
  /\ DoRequest(this_request, request)
  /\ UNCHANGED <<buffer, asleep, wait_for_request, this_request, request, disk>>

HdInterrupt ==
  /\ drive # NULL
  /\ MayInterrupt
  /\ ReadIntr \/ WriteIntr \/ BadRwIntr \/ ResetIntr
  /\ UNCHANGED <<current, pc, slot, tmp, sorting>>
-----------------------------------------------------------------------------
(* rw_abs_hd(): lock the buffer, find a free request.                        *)
At(t, p) == current = t /\ pc[t] = p
Goto(t, p) == pc' = [pc EXCEPT ![t] = p]

RwAbsHd(t, rw) ==
  /\ current = NULL
  /\ pc[t] = "user"
  /\ current' = t
  /\ Goto(t, "scan")
  /\ buffer' = [buffer EXCEPT ![t] =
       [lock |-> TRUE, uptodate |-> rw = "WRITE",
        data |-> IF rw = "WRITE" THEN Block ELSE [h \in Half |-> Garbage]]]
  /\ tmp' = [tmp EXCEPT ![t] = NULL]
  /\ UNCHANGED <<slot, asleep, wait_for_request, queue, hardware, disk>>

Unused == {s \in Slot : ~request[s].used}

ScanFull(t) ==
  /\ At(t, "scan")
  /\ Unused = {}
  /\ Goto(t, "full")
  /\ UNCHANGED <<current, slot, tmp, asleep, wait_for_request, queue, hardware, buffer, disk>>

\* buffer.uptodate tells a write from a read here.
ScanFound(t) ==
  /\ At(t, "scan")
  /\ \E s \in Unused :
       /\ \A r \in Unused : s <= r
       /\ slot' = [slot EXCEPT ![t] = s]
       /\ request' = [request EXCEPT ![s] =
            [used |-> TRUE, cmd |-> IF buffer[t].uptodate THEN "WRITE" ELSE "READ",
             nsector |-> 2, bh |-> t, errors |-> 0, next |-> NULL]]
  /\ Goto(t, "add")
  /\ UNCHANGED <<current, tmp, asleep, wait_for_request, this_request, sorting, hardware,
                 buffer, disk>>

\* Mutant: sleep_on does not link the task into the queue.
SlotLinkUnlinked(t) ==
  /\ At(t, "full")
  /\ tmp' = [tmp EXCEPT ![t] = wait_for_request]
  /\ Goto(t, "link")
  /\ UNCHANGED <<current, slot, asleep, wait_for_request, queue, hardware, buffer, disk>>

(* sleep_on(&wait_for_request), without cli.  An interrupt between its lines *)
(* 122 and 123 only wakes twice (WaitQueue.tla), one after them matters.     *)
SlotLink(t) ==
  /\ At(t, "full")
  /\ tmp' = [tmp EXCEPT ![t] = wait_for_request]
  /\ wait_for_request' = t
  /\ Goto(t, "link")
  /\ UNCHANGED <<current, slot, asleep, queue, hardware, buffer, disk>>

SlotSleep(t) ==
  /\ At(t, "link")
  /\ asleep' = asleep \union {t}
  /\ current' = NULL
  /\ Goto(t, "slept")
  /\ UNCHANGED <<slot, tmp, wait_for_request, queue, hardware, buffer, disk>>

SlotWoken(t) ==
  /\ current = NULL
  /\ pc[t] = "slept" /\ t \notin asleep
  /\ current' = t
  /\ asleep' = asleep \ {tmp[t]}
  /\ tmp' = [tmp EXCEPT ![t] = NULL]
  /\ Goto(t, "scan")
  /\ UNCHANGED <<slot, wait_for_request, queue, hardware, buffer, disk>>
-----------------------------------------------------------------------------
(* add_request(), with sorting set.                                          *)
SortBegin(t) ==
  /\ At(t, "add")
  /\ sorting' = TRUE
  /\ Goto(t, "first")
  /\ UNCHANGED <<current, slot, tmp, asleep, wait_for_request, request, this_request,
                 hardware, buffer, disk>>

AddFirst(t) ==
  /\ At(t, "first")
  /\ tmp' = [tmp EXCEPT ![t] = this_request]
  /\ IF this_request = NULL
     THEN this_request' = slot[t] /\ Goto(t, "sorted")
     ELSE UNCHANGED this_request /\ Goto(t, "second")
  /\ UNCHANGED <<current, slot, asleep, wait_for_request, request, sorting, hardware,
                 buffer, disk>>

AddSecond(t) ==
  /\ At(t, "second")
  /\ IF request[tmp[t]].next = NULL
     THEN Goto(t, "append") /\ UNCHANGED tmp
     ELSE Goto(t, "search") /\ tmp' = [tmp EXCEPT ![t] = request[tmp[t]].next]
  /\ UNCHANGED <<current, slot, asleep, wait_for_request, queue, hardware, buffer, disk>>

Append2(t) ==
  /\ At(t, "append")
  /\ request' = [request EXCEPT ![tmp[t]].next = slot[t]]
  /\ Goto(t, "sorted")
  /\ UNCHANGED <<current, slot, tmp, asleep, wait_for_request, this_request, sorting,
                 hardware, buffer, disk>>

Following == [r \in Slot \union {NULL} |-> IF r = NULL THEN NULL ELSE request[r].next]

WalkFrom(s) == LET from[n \in 0 .. NR_REQUEST] == IF n = 0 THEN s ELSE Following[from[n - 1]] IN from

\* The list that starts with slot s, as a sequence.
List(s) ==
  LET walk == WalkFrom(s)
      len  == Min({n \in 0 .. NR_REQUEST : n = NR_REQUEST \/ walk[n] = NULL})
  IN  [i \in 1 .. len |-> walk[i - 1]]

InOrder(r, s) == request[r].bh < request[s].bh

\* Mutant: requests go between two others only, or to the end.
FitsBetween(L, i, r) == i < Len(L) => InOrder(L[i], r) /\ InOrder(r, L[i + 1])

\* The first entry of the list L after which r fits, or the last.
Fits(L, i, r) ==
  i < Len(L) =>
    /\ InOrder(L[i], r) \/ ~InOrder(L[i], L[i + 1])
    /\ InOrder(r, L[i + 1])

\* Mutant: req->next=tmp->next is missing.
InsertShort(t) ==
  LET L == List(tmp[t]) IN
  /\ At(t, "search")
  /\ \E i \in 1 .. Len(L) :
       /\ Fits(L, i, slot[t]) /\ \A j \in 1 .. i - 1 : ~Fits(L, j, slot[t])
       /\ request' = [request EXCEPT ![L[i]].next = slot[t]]
  /\ Goto(t, "sorted")
  /\ UNCHANGED <<current, slot, tmp, asleep, wait_for_request, this_request, sorting,
                 hardware, buffer, disk>>

(* Interrupts change nothing in the list from its second entry on.           *)
Insert(t) ==
  LET L == List(tmp[t]) IN
  /\ At(t, "search")
  /\ \E i \in 1 .. Len(L) :
       /\ Fits(L, i, slot[t]) /\ \A j \in 1 .. i - 1 : ~Fits(L, j, slot[t])
       /\ request' = [request EXCEPT ![slot[t]].next = request[L[i]].next,
                                     ![L[i]].next = slot[t]]
  /\ Goto(t, "sorted")
  /\ UNCHANGED <<current, slot, tmp, asleep, wait_for_request, this_request, sorting,
                 hardware, buffer, disk>>

SortEnd(t) ==
  /\ At(t, "sorted")
  /\ sorting' = FALSE
  /\ Goto(t, "restart")
  /\ UNCHANGED <<current, slot, tmp, asleep, wait_for_request, request, this_request,
                 hardware, buffer, disk>>

Restart(t) ==
  /\ At(t, "restart")
  /\ IF do_hd = NULL THEN DoRequest(this_request, request) ELSE UNCHANGED hardware
  /\ Goto(t, "wait")
  /\ UNCHANGED <<current, slot, tmp, asleep, wait_for_request, queue, buffer, disk>>

(* wait_on_buffer(), between cli and sti.                                    *)
WaitOnBuffer(t) ==
  /\ At(t, "wait") \/ (current = NULL /\ pc[t] = "io" /\ t \notin asleep)
  /\ IF buffer[t].lock
     THEN asleep' = asleep \union {t} /\ Goto(t, "io")
     ELSE UNCHANGED asleep /\ Goto(t, "user")
  /\ current' = NULL
  /\ slot' = [slot EXCEPT ![t] = NULL]
  /\ tmp' = [tmp EXCEPT ![t] = NULL]
  /\ UNCHANGED <<wait_for_request, queue, hardware, buffer, disk>>
-----------------------------------------------------------------------------
AddRequest(t) ==
  SortBegin(t) \/ AddFirst(t) \/ AddSecond(t) \/ Append2(t) \/ Insert(t) \/ SortEnd(t)
  \/ Restart(t)

Run(t) ==
  \/ ScanFull(t) \/ ScanFound(t) \/ SlotLink(t) \/ SlotSleep(t) \/ SlotWoken(t)
  \/ AddRequest(t) \/ WaitOnBuffer(t)

Next ==
  \/ \E t \in Task : Run(t) \/ \E rw \in {"READ", "WRITE"} : RwAbsHd(t, rw)
  \/ HdInterrupt

Spec == Init /\ [][Next]_vars

(* Fairness: the disk answers every command, and a task that can run does.   *)
(* A task that was woken competes with the others for the processor, so its  *)
(* turn comes only if schedule() is fair.                                    *)
Fairness == WF_vars(HdInterrupt) /\ \A t \in Task : SF_vars(Run(t))

FairSpec == Spec /\ Fairness
-----------------------------------------------------------------------------
(* An interrupt finds the handler of the command it answers, and the request *)
(* it is about still at the head of the list: no "Unexpected HD interrupt",  *)
(* no null this_request (hd.c:183-202, 240-278).                             *)
HandlerReady ==
  drive # NULL =>
    \/ drive.op = "SPECIFY" /\ do_hd = "do_request"
    \/ /\ do_hd = IF drive.op = "READ" THEN "read_intr" ELSE "write_intr"
       /\ this_request # NULL
       /\ First.used /\ First.bh = drive.bh /\ First.nsector = drive.left

(* A buffer is locked for exactly one request while it has one: nobody gets  *)
(* it half read, and none is unlocked twice (hd.c:84-97, 382, 401).          *)
OneRequestPerLock ==
  \A s \in Slot : request[s].used =>
    /\ buffer[request[s].bh].lock
    /\ \A r \in Slot \ {s} : request[r].used => request[r].bh # request[s].bh

(* The driver always knows what it is doing, and for whom: the two above.    *)
RequestsWhole == HandlerReady /\ OneRequestPerLock

(* The list holds every request that was added, once, and no free one        *)
(* (hd.c:340-346).                                                           *)
Adding == {slot[t] : t \in {u \in Task : pc[u] \in {"add", "first", "second", "append", "search"}}}
Members(L) == {L[i] : i \in DOMAIN L}

QueueIntact ==
  LET L == List(this_request) IN
  /\ Cardinality(Members(L)) = Len(L)
  /\ \A s \in Slot \ Adding : request[s].used <=> s \in Members(L)

(* When no task is adding a request, a list that is not empty has the disk   *)
(* at work (hd.c:299-327, 365-372).                                          *)
QueueServed ==
  this_request # NULL /\ (\A t \in Task : pc[t] \notin {"first", "second", "append", "search", "sorted", "restart"})
    => drive # NULL

(* What a caller gets as up to date is its block, both halves in their       *)
(* places, and what is on the disk is too, retries included                  *)
(* (hd.c:245-327; fs/buffer.c:207-209).                                      *)
BlockWhole ==
  \A t \in Task :
    ~buffer[t].lock => /\ buffer[t].uptodate => buffer[t].data = Block
                       /\ disk[t] = Block

(* The disk works through its list, and no step leaves the driver's tables   *)
(* or a block broken (hd.c:84-100, 299-372).                                 *)
Serving == TypeOK /\ QueueServed /\ BlockWhole

(* Behind its first entry the list is at most two upward sweeps over the     *)
(* disk, however insertions and completions alternate (hd.c:354-361).        *)
TwoSweeps ==
  LET L == List(this_request) IN
  Cardinality({i \in 2 .. Len(L) - 1 : ~InOrder(L[i], L[i + 1])}) <= 1

(* Who sleeps for a request is found by the next wake_up, directly or along  *)
(* the tmp pointers (hd.c:388, fs/buffer.c:4-6).                             *)
SlotWaiterReached ==
  \A t \in asleep : pc[t] = "slept" =>
    \/ wait_for_request = t
    \/ \E u \in Task \ {t} : pc[u] \in {"link", "slept"} /\ tmp[u] = t

(* A call of rw_abs_hd that has found a request slot returns; when all are   *)
(* taken, others may take each one that falls free first (hd.c:384-402).     *)
CallReturns == \A t \in Task : pc[t] = "add" ~> pc[t] = "user"
=============================================================================
