------------------------------- MODULE HdProofs -------------------------------
(***************************************************************************)
(* Proofs about Hd.tla, for any numbers of tasks, of requests, of errors   *)
(* and of retries.  Quiet stays open as far as a theorem holds without it: *)
(* each says where the disk must not interrupt.                            *)
(***************************************************************************)
EXTENDS Hd, InductionLemmas, SequenceTheorems

(* The requests in use: hd is not -1 (hd.c:384-386).                       *)
Used == {s \in Slot : request[s].used}

(* The controller carries out nothing for a request: it has no command, or *)
(* the one of a reset (hd.c:220-238).                                      *)
Idle == drive = NULL \/ drive.op = "SPECIFY"

(* Where a task has a request that is not in the list yet (hd.c:347-361).  *)
Linking == {"add", "first", "second", "append", "search"}

(* Where a task does not run in the driver (hd.c:388, 401).                *)
Away == {"user", "slept", "io"}

(* Where a task is in the driver tells that it is the running one, that    *)
(* sorting is set, that its buffer is locked, and that it has no request   *)
(* yet (hd.c:347, 364, 382-387).                                           *)
PlacesOf(t) ==
  /\ pc[t] \notin Away => current = t
  /\ pc[t] \in {"first", "second", "append", "search", "sorted"} => sorting
  /\ pc[t] \in {"scan", "full", "link", "slept"} => buffer[t].lock
  /\ pc[t] \in {"user", "scan", "full", "link", "slept"} => \A s \in Used : request[s].bh # t

(* The request a task is adding is in use, new, and in no list             *)
(* (hd.c:391-399).                                                         *)
AddedOf(t) ==
  pc[t] \in Linking =>
    /\ slot[t] \in Used /\ request[slot[t]].bh = t /\ request[slot[t]].next = NULL
    /\ slot[t] # this_request /\ request[slot[t]].nsector = 2
    /\ \A r \in Used : request[r].next # slot[t]

(* What tmp of add_request is worth while interrupts go on: the head of    *)
(* the list, or the head that was, finished meanwhile; in the search, its  *)
(* second entry, or the head once the disk is still (hd.c:348-361).        *)
EnteredOf(t) ==
  /\ pc[t] = "second" =>
       /\ tmp[t] \in Slot /\ slot[t] # tmp[t]
       /\ \/ this_request = tmp[t]
          \/ (tmp[t] \notin Used /\ this_request = request[tmp[t]].next /\ Idle)
  /\ pc[t] = "append" =>
       /\ tmp[t] \in Slot /\ slot[t] # tmp[t] /\ request[tmp[t]].next = NULL
       /\ this_request = tmp[t] \/ (tmp[t] \notin Used /\ this_request = NULL)
  /\ pc[t] = "search" =>
       /\ tmp[t] \in Used /\ slot[t] # tmp[t]
       /\ \/ (this_request # NULL /\ this_request # tmp[t] /\ request[this_request].next = tmp[t])
          \/ (this_request = tmp[t] /\ Idle)

(* The same of every task.                                                 *)
Places == \A t \in Task : PlacesOf(t)
Added == \A t \in Task : AddedOf(t)
Entered == \A t \in Task : EnteredOf(t)

(* The list: its head is in use, from a request in use one gets to one in  *)
(* use, never to the head, and never to the same from two (hd.c:340-363).  *)
Chain ==
  /\ this_request # NULL => this_request \in Used
  /\ \A s \in Used : request[s].next # NULL =>
       request[s].next \in Used /\ request[s].next # this_request
  /\ \A r, s \in Used : request[r].next = request[s].next /\ request[r].next # NULL => r = s

(* Each request in use is for a buffer that is locked, and for one of its  *)
(* own, and has sectors to go (hd.c:382, 392, 397).                        *)
Locks ==
  /\ \A s \in Used : /\ request[s].bh \in Task /\ buffer[request[s].bh].lock
                     /\ request[s].nsector # 0
  /\ \A r, s \in Used : request[r].bh = request[s].bh => r = s

(* The handler of the next interrupt is that of the command the controller *)
(* carries out (hd.c:199-202, 299-327).                                    *)
Drive ==
  /\ HandlerReady
  /\ do_hd = NULL => drive = NULL
  /\ drive # NULL /\ drive.op = "SPECIFY" => do_hd = "do_request"

(* The inductive invariant that needs nothing of Quiet: interrupts may     *)
(* come anywhere.                                                          *)
Inv == TypeOK /\ Places /\ Added /\ Entered /\ Chain /\ Locks /\ Drive

(* NULL is no task and no slot.                                            *)
LEMMA Numbers ==
  /\ NULL \notin Task /\ NULL \notin Slot /\ Task \subseteq Nat /\ Slot \subseteq Nat
  /\ NR_REQUEST \in Nat \ {0}
BY HdAssumption, NullAssumption DEF Task, Slot

(* What do_request() leaves behind: no command while sorting is set or     *)
(* when the list is empty, else the command of the head or that of a reset *)
(* (hd.c:299-327).                                                         *)
LEMMA DoRequestFacts ==
  ASSUME TypeOK, NEW s \in Slot \union {NULL}, NEW R \in [Slot -> Request], DoRequest(s, R),
         s # NULL => R[s].bh \in Task /\ R[s].nsector # 0
  PROVE  /\ drive' \in Command \union {NULL} /\ faults' \in 0 .. MaxFaults
         /\ do_hd' \in {NULL, "read_intr", "write_intr", "do_request"}
         /\ \/ drive' = NULL /\ sorting /\ do_hd' = do_hd
            \/ drive' = NULL /\ ~sorting /\ s = NULL /\ do_hd' = NULL
            \/ drive'.op = "SPECIFY" /\ drive' # NULL /\ do_hd' = "do_request" /\ ~sorting
            \/ /\ ~sorting /\ s # NULL /\ drive' # NULL
               /\ drive'.op = R[s].cmd /\ drive'.bh = R[s].bh /\ drive'.left = R[s].nsector
               /\ do_hd' = IF R[s].cmd = "WRITE" THEN "write_intr" ELSE "read_intr"
<1> USE DEF TypeOK
<1>1. Specify \in Command /\ Specify.op = "SPECIFY"
  BY Numbers DEF Specify, Command, Half, Garbage
<1>2. s # NULL /\ drive' = Start(R[s]) =>
        /\ drive' \in Command /\ drive'.op = R[s].cmd /\ drive'.bh = R[s].bh
        /\ drive'.left = R[s].nsector
  <2>1. SUFFICES ASSUME s # NULL PROVE
          /\ Start(R[s]) \in Command /\ Start(R[s]).op = R[s].cmd /\ Start(R[s]).bh = R[s].bh
          /\ Start(R[s]).left = R[s].nsector
    OBVIOUS
  <2>2. R[s] \in Request /\ R[s].bh \in Task /\ R[s].nsector \in {1, 2}
    BY <2>1 DEF Request
  <2>3. HalfOf(R[s]) \in Half
    BY <2>2 DEF HalfOf, Half
  <2>4. (IF R[s].cmd = "WRITE" THEN buffer[R[s].bh].data[HalfOf(R[s])] ELSE Garbage) \in Half \union {Garbage}
    BY <2>2, <2>3 DEF Content
  <2> QED
    BY <2>2, <2>4 DEF Start, Command, Half, Request
<1>3. NULL \notin Command
  BY NullAssumption
<1>4. drive' = NULL \/ drive' = Specify \/ (s # NULL /\ drive' = Start(R[s]))
  BY DEF DoRequest, Reset
<1>5. faults' \in 0 .. MaxFaults
  BY HdAssumption DEF DoRequest, Reset
<1>6. /\ do_hd' \in {NULL, "read_intr", "write_intr", "do_request"}
      /\ \/ drive' = NULL /\ sorting /\ do_hd' = do_hd
         \/ drive' = NULL /\ ~sorting /\ s = NULL /\ do_hd' = NULL
         \/ drive' = Specify /\ do_hd' = "do_request" /\ ~sorting
         \/ /\ ~sorting /\ s # NULL /\ drive' = Start(R[s])
            /\ do_hd' = IF R[s].cmd = "WRITE" THEN "write_intr" ELSE "read_intr"
  BY DEF DoRequest, Reset
<1> HIDE DEF TypeOK
<1> QED
  BY <1>1, <1>2, <1>3, <1>4, <1>5, <1>6

(* The values of a buffer head with its data.                              *)
BufferHead == [lock : BOOLEAN, uptodate : BOOLEAN, data : Content]

(* An interrupt that finishes no request leaves the list, the locks and    *)
(* those asleep alone (hd.c:259-270, 280-289).                             *)
Keeps ==
  /\ UNCHANGED <<this_request, asleep, wait_for_request>>
  /\ \A s \in Slot : /\ request'[s].used = request[s].used /\ request'[s].bh = request[s].bh
                     /\ request'[s].next = request[s].next /\ request'[s].cmd = request[s].cmd
                     /\ request[s].nsector # 0 => request'[s].nsector # 0
                     /\ s # this_request \/ Idle => request'[s].nsector = request[s].nsector
  /\ \A t \in Task : buffer'[t].lock = buffer[t].lock
  /\ Idle /\ sorting => Idle'

(* An interrupt that finishes the head of the list frees its slot and its  *)
(* buffer and goes on to the next (hd.c:249-255, 271-277, 290-296).        *)
Finishes ==
  /\ ~Idle /\ this_request \in Used /\ this_request' = request[this_request].next
  /\ \A s \in Slot : request'[s] = IF s = this_request THEN Empty(request[s].next) ELSE request[s]
  /\ \A t \in Task : buffer'[t].lock <=> buffer[t].lock /\ t # First.bh
  /\ asleep' = asleep \ {First.bh, wait_for_request} /\ wait_for_request' = NULL
  /\ sorting => Idle'

(* A command for a request is for the head of the list, which is in use    *)
(* (hd.c:299-327).                                                         *)
LEMMA Serves ==
  ASSUME Inv, ~Idle
  PROVE  /\ this_request \in Used /\ this_request \in Slot /\ First \in Request
         /\ First.bh \in Task /\ First.bh = drive.bh /\ First.nsector = drive.left
         /\ First.nsector \in {1, 2} /\ First.next \in Slot \union {NULL}
         /\ drive \in Command /\ drive # NULL
         /\ do_hd = IF drive.op = "READ" THEN "read_intr" ELSE "write_intr"
         /\ buffer[First.bh] \in BufferHead
<1>1. HandlerReady
  BY DEF Inv, Drive
<1>2. this_request # NULL /\ First.bh = drive.bh /\ First.nsector = drive.left /\ drive # NULL
      /\ do_hd = IF drive.op = "READ" THEN "read_intr" ELSE "write_intr"
  BY <1>1 DEF HandlerReady, Idle
<1>3. this_request \in Used /\ this_request \in Slot
  BY <1>2 DEF Inv, Chain, Used
<1>4. First \in Request /\ First.bh \in Task /\ First.nsector # 0
  BY <1>3 DEF Inv, Locks, TypeOK, First
<1>5. First.nsector \in {1, 2} /\ First.next \in Slot \union {NULL}
  BY <1>4 DEF Request
<1>6. drive \in Command /\ buffer[First.bh] \in BufferHead
  BY <1>2, <1>4 DEF Inv, TypeOK, BufferHead
<1> QED
  BY <1>2, <1>3, <1>4, <1>5, <1>6

(* What becomes of a request when a sector of it is through (hd.c:267-268, *)
(* 286).                                                                   *)
Edited(x, r, n) ==
  /\ r \in Request /\ r.nsector = n
  /\ r.used = x.used /\ r.cmd = x.cmd /\ r.bh = x.bh /\ r.next = x.next

(* It stays a request, for the same buffer at the same place of the list.  *)
LEMMA RequestEdit ==
  ASSUME NEW x \in Request, NEW n \in 0 .. 2, NEW e \in 0 .. MAX_ERRORS
  PROVE  Edited(x, [x EXCEPT !.nsector = n, !.errors = e], n)
<1> USE DEF Edited
<1> DEFINE y == [x EXCEPT !.nsector = n]
           r == [y EXCEPT !.errors = e]
<1>1. /\ y \in Request /\ y.nsector = n
      /\ y.used = x.used /\ y.cmd = x.cmd /\ y.bh = x.bh /\ y.next = x.next
  BY DEF Request
<1> HIDE DEF y
<1>2. /\ r \in Request /\ r.nsector = n
      /\ r.used = x.used /\ r.cmd = x.cmd /\ r.bh = x.bh /\ r.next = x.next
  BY <1>1 DEF Request
<1>3. r = [x EXCEPT !.nsector = n, !.errors = e]
  BY DEF y
<1> QED
  BY <1>2, <1>3

(* What becomes of the command when a sector of it is through.             *)
Advanced(x, c, l, d) ==
  c \in Command /\ c.left = l /\ c.at = 1 /\ c.data = d /\ c.op = x.op /\ c.bh = x.bh

(* It stays a command, for the same buffer.                                *)
LEMMA CommandEdit ==
  ASSUME NEW x \in Command, NEW l \in 0 .. 2, NEW d \in Half \union {Garbage}
  PROVE  Advanced(x, [x EXCEPT !.left = l, !.at = 1, !.data = d], l, d)
<1> USE DEF Advanced
<1> DEFINE y == [x EXCEPT !.left = l]
           z == [y EXCEPT !.at = 1]
           c == [z EXCEPT !.data = d]
<1>1. y \in Command /\ y.left = l /\ y.op = x.op /\ y.bh = x.bh
  BY DEF Command
<1>2. c = [x EXCEPT !.left = l, !.at = 1, !.data = d]
  BY DEF y
<1> HIDE DEF y
<1>3. z \in Command /\ z.left = l /\ z.at = 1 /\ z.op = x.op /\ z.bh = x.bh
  BY <1>1 DEF Command, Half
<1> HIDE DEF z
<1>4. c \in Command /\ c.left = l /\ c.at = 1 /\ c.data = d /\ c.op = x.op /\ c.bh = x.bh
  BY <1>3 DEF Command
<1> QED
  BY <1>2, <1>4

(* After the first sector the handler leaves the list and the locks alone; *)
(* one sector is left, the second half (hd.c:265-270, 286-289).            *)
LEMMA MoreToComeKeeps ==
  ASSUME Inv, ~Idle, First.nsector > 1, NEW e \in 0 .. MAX_ERRORS, NEW b \in BufferHead,
         b.lock = buffer[First.bh].lock, MoreToCome(e, b)
  PROVE  /\ Keeps
         /\ request' \in [Slot -> Request] /\ buffer' \in [Task -> BufferHead]
         /\ drive' \in Command /\ drive' # NULL /\ do_hd' = do_hd /\ faults' = faults
         /\ drive'.op = drive.op /\ drive'.bh = drive.bh /\ drive'.left = 1 /\ drive.left = 2
         /\ request'[this_request].nsector = 1
         /\ drive'.at = 1 /\ drive'.data = buffer[First.bh].data[1]
<1>0. /\ this_request \in Slot /\ First \in Request /\ First.bh \in Task
      /\ First.bh = drive.bh /\ First.nsector = drive.left
      /\ First.nsector \in {1, 2} /\ drive \in Command /\ buffer[First.bh] \in BufferHead
  BY Serves
<1>1. First.nsector = 2 /\ drive.left = 2 /\ First.nsector - 1 = 1 /\ drive.left - 1 = 1
  BY <1>0
<1>edit. Edited(First, [First EXCEPT !.nsector = 1, !.errors = e], 1)
  <2>1. 1 \in 0 .. 2 /\ First \in Request
    BY <1>0
  <2> QED
    BY <2>1, RequestEdit
<1>2. request' = [request EXCEPT ![this_request] = [First EXCEPT !.nsector = 1, !.errors = e]]
  <2> DEFINE r == [First EXCEPT !.nsector = First.nsector - 1, !.errors = e]
  <2>1. request' = [request EXCEPT ![this_request] = r]
    BY DEF MoreToCome
  <2>2. r = [First EXCEPT !.nsector = 1, !.errors = e]
    BY <1>1
  <2> QED
    BY <2>1, <2>2
<1>3. buffer' = [buffer EXCEPT ![First.bh] = b]
  BY DEF MoreToCome
<1>4. drive' = [drive EXCEPT !.left = 1, !.at = 1, !.data = buffer[First.bh].data[1]]
  <2>1. drive' = [drive EXCEPT !.left = drive.left - 1, !.at = 1, !.data = buffer[First.bh].data[1]]
    BY DEF MoreToCome
  <2> DEFINE l == drive.left - 1
  <2>2. l = 1
    BY <1>1
  <2> HIDE DEF l
  <2> QED
    BY <2>1, <2>2 DEF l
<1>5. request \in [Slot -> Request] /\ buffer \in [Task -> BufferHead] /\ NULL \notin Command
  BY NullAssumption DEF Inv, TypeOK, BufferHead
<1>6. buffer[First.bh].data[1] \in Half \union {Garbage}
  BY <1>0 DEF BufferHead, Content, Half
<1>7. /\ drive' \in Command /\ drive'.op = drive.op /\ drive'.bh = drive.bh /\ drive'.left = 1
      /\ drive'.at = 1 /\ drive'.data = buffer[First.bh].data[1]
  <2> DEFINE d == buffer[First.bh].data[1]
  <2>1. d \in Half \union {Garbage} /\ drive' = [drive EXCEPT !.left = 1, !.at = 1, !.data = d]
    BY <1>4, <1>6
  <2> HIDE DEF d
  <2>2. 1 \in 0 .. 2 /\ drive \in Command
    BY <1>0
  <2>3. Advanced(drive, drive', 1, d)
    BY <2>1, <2>2, CommandEdit
  <2> QED
    BY <2>3 DEF Advanced, d
<1>8. request' \in [Slot -> Request]
      /\ \A s \in Slot : request'[s] = IF s = this_request THEN [First EXCEPT !.nsector = 1, !.errors = e]
                                       ELSE request[s]
  <2> DEFINE r == [First EXCEPT !.nsector = 1, !.errors = e]
  <2>1. r \in Request
    BY <1>edit DEF Edited
  <2>2. request' = [request EXCEPT ![this_request] = r]
    BY <1>2
  <2> HIDE DEF r
  <2>3. request' \in [Slot -> Request]
        /\ \A s \in Slot : request'[s] = IF s = this_request THEN r ELSE request[s]
    BY <1>0, <1>5, <2>1, <2>2
  <2> QED
    BY <2>3 DEF r
<1>9. buffer' \in [Task -> BufferHead] /\ \A t \in Task : buffer'[t].lock = buffer[t].lock
  BY <1>0, <1>3, <1>5
<1>11. /\ request'[this_request].nsector = 1 /\ request'[this_request].used = First.used
       /\ request'[this_request].cmd = First.cmd /\ request'[this_request].bh = First.bh
       /\ request'[this_request].next = First.next
  BY <1>0, <1>8, <1>edit DEF Edited
<1>12. \A s \in Slot :
         /\ request'[s].used = request[s].used /\ request'[s].bh = request[s].bh
         /\ request'[s].next = request[s].next /\ request'[s].cmd = request[s].cmd
         /\ request[s].nsector # 0 => request'[s].nsector # 0
         /\ s # this_request \/ Idle => request'[s].nsector = request[s].nsector
  <2>1. TAKE s \in Slot
  <2>2. CASE s = this_request
    BY <2>2, <1>11 DEF First
  <2>3. CASE s # this_request
    BY <2>3, <1>8
  <2> QED
    BY <2>2, <2>3
<1>13. UNCHANGED <<this_request, asleep, wait_for_request>> /\ do_hd' = do_hd /\ faults' = faults
  BY DEF MoreToCome
<1>14. Keeps
  <2>1. Idle /\ sorting => Idle'
    OBVIOUS
  <2> HIDE DEF Idle
  <2> QED
    BY ONLY <2>1, <1>9, <1>12, <1>13 DEF Keeps
<1> QED
  BY <1>1, <1>5, <1>7, <1>8, <1>9, <1>11, <1>13, <1>14

(* The end of a request: the list goes on behind it, with requests that    *)
(* are in use (hd.c:249-255, 271-277, 290-296).                            *)
LEMMA FinishFacts ==
  ASSUME Inv, ~Idle, NEW b \in BufferHead, b.lock = FALSE, Finish(b),
         request' = [request EXCEPT ![this_request] = Empty(@.next)]
  PROVE  /\ request' \in [Slot -> Request] /\ buffer' \in [Task -> BufferHead]
         /\ this_request' \in Slot \union {NULL} /\ this_request' = First.next
         /\ asleep' \subseteq Task /\ wait_for_request' = NULL
         /\ this_request' # NULL => /\ this_request' # this_request
                                    /\ request'[this_request'] = request[this_request']
                                    /\ this_request' \in Used
         /\ (sorting => Idle') => Finishes
<1> USE Serves
<1>1. request \in [Slot -> Request] /\ buffer \in [Task -> BufferHead] /\ asleep \subseteq Task
  BY DEF Inv, TypeOK, BufferHead
<1>2. Empty(First.next) \in Request /\ Empty(First.next).next = First.next
  BY HdAssumption DEF Empty, Request
<1>3. /\ request' = [request EXCEPT ![this_request] = Empty(First.next)]
      /\ buffer' = [buffer EXCEPT ![First.bh] = b]
      /\ asleep' = asleep \ {First.bh, wait_for_request}
      /\ wait_for_request' = NULL /\ this_request' = First.next
  BY DEF First, Finish
<1>4. First.next # NULL => First.next \in Used /\ First.next # this_request
  BY DEF Inv, Chain, First
<1>5. /\ request' \in [Slot -> Request] /\ buffer' \in [Task -> BufferHead]
      /\ \A s \in Slot : request'[s] = IF s = this_request THEN Empty(First.next) ELSE request[s]
      /\ \A t \in Task : buffer'[t] = IF t = First.bh THEN b ELSE buffer[t]
  BY <1>1, <1>2, <1>3
<1>6. \A t \in Task : buffer'[t].lock <=> buffer[t].lock /\ t # First.bh
  BY <1>5
<1>7. (sorting => Idle') => Finishes
  BY <1>3, <1>5, <1>6 DEF Finishes, First
<1> QED
  BY <1>1, <1>3, <1>4, <1>5, <1>7 DEF Used

(* After do_request() the handler fits the command, and the controller has *)
(* one unless sorting is set or the list is empty (hd.c:299-327).          *)
LEMMA DoRequestReady ==
  ASSUME TypeOK, NEW s \in Slot \union {NULL}, NEW R \in [Slot -> Request], DoRequest(s, R),
         s # NULL => R[s].used /\ R[s].bh \in Task /\ R[s].nsector # 0,
         this_request' = s, request' = R
  PROVE  /\ drive' \in Command \union {NULL} /\ faults' \in 0 .. MaxFaults
         /\ do_hd' \in {NULL, "read_intr", "write_intr", "do_request"}
         /\ Drive' \/ (drive' = NULL /\ do_hd' = do_hd) 
         /\ sorting => drive' = NULL
         /\ drive' = NULL => sorting \/ (do_hd' = NULL /\ s = NULL)
<1>1. s # NULL => R[s].bh \in Task /\ R[s].nsector # 0
  OBVIOUS
<1>2. /\ drive' \in Command \union {NULL} /\ faults' \in 0 .. MaxFaults
      /\ do_hd' \in {NULL, "read_intr", "write_intr", "do_request"}
      /\ \/ drive' = NULL /\ sorting /\ do_hd' = do_hd
         \/ drive' = NULL /\ ~sorting /\ s = NULL /\ do_hd' = NULL
         \/ drive'.op = "SPECIFY" /\ drive' # NULL /\ do_hd' = "do_request" /\ ~sorting
         \/ /\ ~sorting /\ s # NULL /\ drive' # NULL
            /\ drive'.op = R[s].cmd /\ drive'.bh = R[s].bh /\ drive'.left = R[s].nsector
            /\ do_hd' = IF R[s].cmd = "WRITE" THEN "write_intr" ELSE "read_intr"
  BY <1>1, DoRequestFacts
<1>3. NULL \notin {"read_intr", "write_intr", "do_request"}
  BY NullAssumption
<1>4. s # NULL => R[s].cmd \in {"READ", "WRITE"}
  BY DEF Request
<1>5. s # NULL => First' = R[s] /\ this_request' # NULL
  BY DEF First
<1>6. ASSUME ~sorting, s # NULL, drive' # NULL,
             drive'.op = R[s].cmd, drive'.bh = R[s].bh, drive'.left = R[s].nsector,
             do_hd' = IF R[s].cmd = "WRITE" THEN "write_intr" ELSE "read_intr"
      PROVE  Drive'
  BY <1>3, <1>4, <1>5, <1>6 DEF Drive, HandlerReady
<1>7. ASSUME drive'.op = "SPECIFY", drive' # NULL, do_hd' = "do_request"
      PROVE  Drive'
  BY <1>3, <1>7 DEF Drive, HandlerReady
<1> QED
  BY <1>2, <1>6, <1>7 DEF Drive, HandlerReady

(* After the last sector the request is finished, and the next is begun    *)
(* (hd.c:271-277, 290-296).                                                *)
LEMMA LastOneFinishes ==
  ASSUME Inv, ~Idle, NEW b \in BufferHead, LastOne(b), UNCHANGED sorting
  PROVE  /\ request' \in [Slot -> Request] /\ buffer' \in [Task -> BufferHead]
         /\ this_request' \in Slot \union {NULL}
         /\ asleep' \subseteq Task /\ wait_for_request' \in Task \union {NULL}
         /\ drive' \in Command \union {NULL} /\ faults' \in 0 .. MaxFaults
         /\ do_hd' \in {NULL, "read_intr", "write_intr", "do_request"}
         /\ Drive' /\ Finishes
         /\ drive' = NULL => sorting \/ (do_hd' = NULL /\ this_request' = NULL)
<1>1. Done(b) \in BufferHead /\ Done(b).lock = FALSE
  BY DEF Done, BufferHead
<1>2. Finish(Done(b)) /\ request' = [request EXCEPT ![this_request] = Empty(@.next)]
      /\ DoRequest(this_request', request')
  BY DEF LastOne
<1> DEFINE d == Done(b)
<1>3. d \in BufferHead /\ d.lock = FALSE /\ Finish(d)
  BY <1>1, <1>2
<1> HIDE DEF d
<1>4. /\ request' \in [Slot -> Request] /\ buffer' \in [Task -> BufferHead]
      /\ this_request' \in Slot \union {NULL}
      /\ asleep' \subseteq Task /\ wait_for_request' = NULL
      /\ this_request' # NULL => /\ request'[this_request'] = request[this_request']
                                 /\ this_request' \in Used
      /\ (sorting => Idle') => Finishes
  BY <1>2, <1>3, FinishFacts
<1>5. this_request' # NULL => /\ request'[this_request'].used
                              /\ request'[this_request'].bh \in Task
                              /\ request'[this_request'].nsector # 0
  BY <1>4 DEF Inv, Locks, Used
<1>6. PICK s \in Slot \union {NULL}, R \in [Slot -> Request] : s = this_request' /\ R = request'
  BY <1>4
<1>7. DoRequest(s, R) /\ (s # NULL => R[s].used /\ R[s].bh \in Task /\ R[s].nsector # 0)
  BY <1>2, <1>5, <1>6
<1>8. TypeOK /\ this_request' = s /\ request' = R
  BY <1>6 DEF Inv
<1>9. /\ drive' \in Command \union {NULL} /\ faults' \in 0 .. MaxFaults
      /\ do_hd' \in {NULL, "read_intr", "write_intr", "do_request"}
      /\ Drive' \/ (drive' = NULL /\ do_hd' = do_hd) 
      /\ sorting => drive' = NULL
      /\ drive' = NULL => sorting \/ (do_hd' = NULL /\ s = NULL)
  BY <1>7, <1>8, DoRequestReady
<1>10. Drive'
  BY <1>9 DEF Drive, HandlerReady
<1>11. Finishes
  BY <1>4, <1>9 DEF Idle
<1> QED
  BY <1>4, <1>8, <1>9, <1>10, <1>11

(* What is true after any interrupt.                                       *)
Interrupted ==
  /\ request' \in [Slot -> Request] /\ buffer' \in [Task -> BufferHead] /\ disk' \in [Task -> Content]
  /\ this_request' \in Slot \union {NULL}
  /\ asleep' \subseteq Task /\ wait_for_request' \in Task \union {NULL}
  /\ drive' \in Command \union {NULL} /\ faults' \in 0 .. MaxFaults
  /\ do_hd' \in {NULL, "read_intr", "write_intr", "do_request"}
  /\ Drive' /\ (Keeps \/ Finishes)
  /\ drive' = NULL => sorting \/ (do_hd' = NULL /\ this_request' = NULL)

(* The half of the buffer and the sector of the disk that an interrupt is  *)
(* about exist.                                                            *)
LEMMA HalfSent ==
  ASSUME Inv, ~Idle
  PROVE  HalfOf(First) \in Half /\ drive.at \in Half /\ drive.bh \in Task /\ drive.data \in Half \union {Garbage}
         /\ First.errors \in 0 .. MAX_ERRORS
<1>1. /\ First \in Request /\ First.nsector \in {1, 2} /\ First.bh \in Task /\ First.bh = drive.bh
      /\ drive \in Command
  BY Serves
<1> QED
  BY <1>1 DEF HalfOf, Half, Command, Request

(* The first sector leaves the driver ready for the second (hd.c:265-270,  *)
(* 286-289).                                                               *)
LEMMA MoreToComeReady ==
  ASSUME Inv, ~Idle, First.nsector > 1, NEW e \in 0 .. MAX_ERRORS, NEW b \in BufferHead,
         b.lock = buffer[First.bh].lock, MoreToCome(e, b), disk' \in [Task -> Content]
  PROVE  Interrupted
<1>1. /\ Keeps
      /\ request' \in [Slot -> Request] /\ buffer' \in [Task -> BufferHead]
      /\ drive' \in Command /\ drive' # NULL /\ do_hd' = do_hd /\ faults' = faults
      /\ drive'.op = drive.op /\ drive'.bh = drive.bh /\ drive'.left = 1
      /\ request'[this_request].nsector = 1
  BY MoreToComeKeeps
<1>2. /\ this_request \in Used /\ this_request \in Slot /\ First.bh = drive.bh
      /\ drive \in Command /\ drive # NULL
      /\ do_hd = IF drive.op = "READ" THEN "read_intr" ELSE "write_intr"
  BY Serves
<1>3. /\ this_request' = this_request /\ asleep' = asleep /\ wait_for_request' = wait_for_request
      /\ request'[this_request].used = request[this_request].used
      /\ request'[this_request].bh = request[this_request].bh
  BY <1>1, <1>2 DEF Keeps
<1>4. this_request # NULL /\ do_hd # NULL
  BY <1>2, Numbers, NullAssumption
<1>5. HandlerReady'
  BY <1>1, <1>2, <1>3, <1>4 DEF HandlerReady, First, Used
<1>busy. drive.op # "SPECIFY"
  BY DEF Idle
<1>6. Drive'
  BY <1>1, <1>2, <1>4, <1>5, <1>busy DEF Drive
<1>8. TypeOK
  BY DEF Inv
<1> QED
  BY <1>1, <1>3, <1>6, <1>8 DEF Interrupted, TypeOK

(* read_intr() (hd.c:259-278).                                             *)
LEMMA ReadIntrKeeps ==
  ASSUME Inv, drive # NULL, ReadIntr, UNCHANGED sorting
  PROVE  Interrupted
<1> DEFINE b == Transferred([buffer[First.bh].data EXCEPT ![HalfOf(First)] = disk[drive.bh][drive.at]])
<1>1. ~Idle
  BY NullAssumption DEF Idle, ReadIntr, Inv, Drive, HandlerReady
<1>2. HalfOf(First) \in Half /\ drive.at \in Half /\ drive.bh \in Task
  BY <1>1, HalfSent
<1>3. First.bh \in Task /\ First.nsector \in {1, 2} /\ buffer[First.bh] \in BufferHead
  BY <1>1, Serves
<1>4. b \in BufferHead /\ b.lock = buffer[First.bh].lock
  <2>1. disk[drive.bh][drive.at] \in Half \union {Garbage}
    BY <1>2 DEF Inv, TypeOK, Content
  <2>2. [buffer[First.bh].data EXCEPT ![HalfOf(First)] = disk[drive.bh][drive.at]] \in Content
    BY <1>2, <1>3, <2>1 DEF BufferHead, Content
  <2> QED
    BY <1>3, <2>2 DEF Transferred, BufferHead
<1>5. (IF First.nsector > 1 THEN MoreToCome(0, b) ELSE LastOne(b)) /\ UNCHANGED disk
  BY DEF ReadIntr
<1>6. disk' \in [Task -> Content] /\ 0 \in 0 .. MAX_ERRORS
  BY <1>5, HdAssumption DEF Inv, TypeOK
<1> HIDE DEF b
<1>7. CASE First.nsector > 1
  BY <1>1, <1>4, <1>5, <1>6, <1>7, MoreToComeReady
<1>8. CASE ~(First.nsector > 1)
  <2>1. LastOne(b)
    BY <1>5, <1>8
  <2> QED
    BY <1>1, <1>4, <1>6, <2>1, LastOneFinishes DEF Interrupted
<1> QED
  BY <1>7, <1>8

(* write_intr() (hd.c:280-297).                                            *)
LEMMA WriteIntrKeeps ==
  ASSUME Inv, drive # NULL, WriteIntr, UNCHANGED sorting
  PROVE  Interrupted
<1> DEFINE b == buffer[First.bh]
           e == First.errors
<1>1. ~Idle
  BY NullAssumption DEF Idle, WriteIntr, Inv, Drive, HandlerReady
<1>2. /\ drive.at \in Half /\ drive.bh \in Task /\ drive.data \in Half \union {Garbage}
      /\ e \in 0 .. MAX_ERRORS
  BY <1>1, HalfSent
<1>3. First.nsector \in {1, 2} /\ b \in BufferHead
  BY <1>1, Serves
<1>4. disk' \in [Task -> Content]
  <2>1. disk' = [disk EXCEPT ![drive.bh] = [disk[drive.bh] EXCEPT ![drive.at] = drive.data]]
    BY DEF WriteIntr
  <2>2. disk \in [Task -> Content]
    BY DEF Inv, TypeOK
  <2>3. [disk[drive.bh] EXCEPT ![drive.at] = drive.data] \in Content
    BY <1>2, <2>2 DEF Content
  <2> QED
    BY <1>2, <2>1, <2>2, <2>3
<1>5. IF First.nsector > 1 THEN MoreToCome(e, b) ELSE LastOne(b)
  BY DEF WriteIntr
<1>6. b.lock = buffer[First.bh].lock
  OBVIOUS
<1> HIDE DEF b, e
<1>7. CASE First.nsector > 1
  BY <1>1, <1>2, <1>3, <1>4, <1>5, <1>6, <1>7, MoreToComeReady
<1>8. CASE ~(First.nsector > 1)
  <2>1. LastOne(b)
    BY <1>5, <1>8
  <2> QED
    BY <1>1, <1>3, <1>4, <2>1, LastOneFinishes DEF Interrupted
<1> QED
  BY <1>7, <1>8

(* After a reset the interrupt it causes has its handler (hd.c:234-238).   *)
LEMMA ResetReady ==
  ASSUME Reset
  PROVE  /\ drive' \in Command \union {NULL} /\ do_hd' \in {NULL, "read_intr", "write_intr", "do_request"}
         /\ Drive' /\ Idle' /\ drive' # NULL
<1>1. Specify \in Command /\ Specify.op = "SPECIFY"
  BY Numbers DEF Specify, Command, Half, Garbage
<1>2. Specify # NULL /\ NULL # "do_request"
  BY <1>1, NullAssumption
<1> QED
  BY <1>1, <1>2 DEF Reset, Drive, HandlerReady, Idle

(* bad_rw_intr(): try again, or give up the request (hd.c:245-257).        *)
LEMMA BadRwIntrKeeps ==
  ASSUME Inv, drive # NULL, BadRwIntr, UNCHANGED sorting
  PROVE  Interrupted
<1>1. ~Idle
  BY NullAssumption DEF Idle, BadRwIntr, Inv, Drive, HandlerReady
<1>2. /\ this_request \in Slot /\ First \in Request /\ First.bh \in Task /\ buffer[First.bh] \in BufferHead
      /\ this_request \in Used
  BY <1>1, Serves
<1>3. /\ drive' \in Command \union {NULL} /\ do_hd' \in {NULL, "read_intr", "write_intr", "do_request"}
      /\ Drive' /\ Idle' /\ drive' # NULL
  BY ResetReady DEF BadRwIntr
<1>4. faults' \in 0 .. MaxFaults /\ disk' \in [Task -> Content]
  BY HdAssumption DEF BadRwIntr, Inv, TypeOK
<1>5. request \in [Slot -> Request] /\ First.errors \in 0 .. MAX_ERRORS /\ MAX_ERRORS \in Nat
  BY <1>2, HdAssumption DEF Inv, TypeOK, Request
<1>6. CASE GivesUp
  <2> DEFINE b == [buffer[First.bh] EXCEPT !.lock = FALSE, !.uptodate = FALSE]
             c == [buffer[First.bh] EXCEPT !.lock = FALSE]
             d == [c EXCEPT !.uptodate = FALSE]
             R == [request EXCEPT ![this_request].errors = @ + 1]
  <2>1. c \in BufferHead /\ c.lock = FALSE
    BY <1>2 DEF BufferHead
  <2>2. d = b
    OBVIOUS
  <2>3. d \in BufferHead /\ d.lock = FALSE
    <3> HIDE DEF c
    <3> QED
      BY <2>1 DEF BufferHead
  <2>4. Finish(b) /\ request' = [R EXCEPT ![this_request] = Empty(R[this_request].next)]
    BY <1>6 DEF BadRwIntr
  <2>5. R = [request EXCEPT ![this_request] = R[this_request]]
        /\ R[this_request].next = request[this_request].next
    BY <1>2, <1>5 DEF Request
  <2>6. request' = [request EXCEPT ![this_request] = Empty(@.next)]
    <3> HIDE DEF R
    <3> QED
      BY <1>2, <1>5, <2>4, <2>5
  <2>7. b \in BufferHead /\ b.lock = FALSE
    BY <2>2, <2>3
  <2> HIDE DEF b
  <2>8. /\ request' \in [Slot -> Request] /\ buffer' \in [Task -> BufferHead]
        /\ this_request' \in Slot \union {NULL}
        /\ asleep' \subseteq Task /\ wait_for_request' = NULL
        /\ (sorting => Idle') => Finishes
    BY <1>1, <2>4, <2>6, <2>7, FinishFacts
  <2> QED
    BY <1>3, <1>4, <2>8 DEF Interrupted
<1>7. CASE ~GivesUp
  <2> DEFINE r == [First EXCEPT !.errors = First.errors + 1]
  <2>1. First.errors + 1 \in 0 .. MAX_ERRORS
    BY <1>5, <1>7 DEF GivesUp
  <2>2. r \in Request /\ r.used = First.used /\ r.bh = First.bh /\ r.next = First.next
        /\ r.cmd = First.cmd /\ r.nsector = First.nsector
    BY <1>2, <2>1 DEF Request
  <2>3. request' = [request EXCEPT ![this_request] = r]
    <3>1. request' = [request EXCEPT ![this_request].errors = @ + 1]
      BY <1>7 DEF BadRwIntr
    <3> QED
      BY <3>1, <1>2, <1>5 DEF First
  <2>4. UNCHANGED <<buffer, asleep, wait_for_request, this_request>>
    BY <1>7 DEF BadRwIntr
  <2> HIDE DEF r
  <2>5. request' \in [Slot -> Request]
        /\ \A s \in Slot : request'[s] = IF s = this_request THEN r ELSE request[s]
    BY <1>2, <1>5, <2>2, <2>3
  <2>6. \A s \in Slot :
           /\ request'[s].used = request[s].used /\ request'[s].bh = request[s].bh
           /\ request'[s].next = request[s].next /\ request'[s].cmd = request[s].cmd
           /\ request'[s].nsector = request[s].nsector
    BY <2>2, <2>5 DEF First
  <2>7. Keeps
    BY <1>1, <2>4, <2>6 DEF Keeps
  <2>8. TypeOK
    BY DEF Inv
  <2> QED
    BY <1>3, <1>4, <2>4, <2>5, <2>7, <2>8 DEF Interrupted, TypeOK, BufferHead
<1> QED
  BY <1>6, <1>7

(* The interrupt after a reset calls do_request() (hd.c:236-237).          *)
LEMMA ResetIntrKeeps ==
  ASSUME Inv, drive # NULL, ResetIntr, UNCHANGED sorting
  PROVE  Interrupted
<1>1. /\ do_hd = "do_request" /\ DoRequest(this_request, request)
      /\ UNCHANGED <<buffer, asleep, wait_for_request, this_request, request, disk>>
  BY DEF ResetIntr
<1>2. Idle
  BY <1>1 DEF Idle, Inv, Drive, HandlerReady
<1>3. TypeOK
  BY DEF Inv
<1>4. this_request \in Slot \union {NULL} /\ request \in [Slot -> Request]
  BY <1>3 DEF TypeOK
<1>5. this_request # NULL => /\ request[this_request].used /\ request[this_request].bh \in Task
                             /\ request[this_request].nsector # 0
  BY DEF Inv, Chain, Locks, Used
<1>6. /\ drive' \in Command \union {NULL} /\ faults' \in 0 .. MaxFaults
      /\ do_hd' \in {NULL, "read_intr", "write_intr", "do_request"}
      /\ Drive' \/ (drive' = NULL /\ do_hd' = do_hd) 
      /\ sorting => drive' = NULL
      /\ drive' = NULL => sorting \/ (do_hd' = NULL /\ this_request = NULL)
  BY <1>1, <1>3, <1>4, <1>5, DoRequestReady
<1>7. Drive'
  BY <1>6 DEF Drive, HandlerReady
<1>8. Keeps
  BY <1>1, <1>6 DEF Keeps, Idle
<1> QED
  BY <1>1, <1>3, <1>6, <1>7, <1>8 DEF Interrupted, TypeOK, BufferHead

(* An interrupt that finishes no request preserves the invariant.          *)
LEMMA KeepsInv ==
  ASSUME Inv, Interrupted, Keeps, UNCHANGED <<current, pc, slot, tmp, sorting>>
  PROVE  Inv'
<1>0. TypeOK /\ Places /\ Added /\ Entered /\ Chain /\ Locks
  BY DEF Inv
<1>1. TypeOK'
  BY <1>0 DEF Interrupted, TypeOK, BufferHead
<1>2. Drive'
  BY DEF Interrupted
<1>3. \A s \in Slot : /\ request'[s].used = request[s].used /\ request'[s].bh = request[s].bh
                      /\ request'[s].next = request[s].next
                      /\ request[s].nsector # 0 => request'[s].nsector # 0
                      /\ s # this_request => request'[s].nsector = request[s].nsector
  BY DEF Keeps
<1>4. Used' = Used
  BY <1>3 DEF Used
<1>5. \A t \in Task : buffer'[t].lock = buffer[t].lock
  BY DEF Keeps
<1>6. this_request' = this_request /\ (sorting /\ Idle => Idle')
  BY DEF Keeps
<1>7. Places'
  BY <1>0, <1>3, <1>4, <1>5 DEF Places, PlacesOf, Used
<1>8. Added'
  BY <1>0, <1>3, <1>4, <1>6 DEF Added, AddedOf, Used
<1>9. Entered'
  <2>1. ASSUME NEW t \in Task, pc[t] = "second"
        PROVE  /\ tmp[t] \in Slot /\ slot[t] # tmp[t]
               /\ \/ this_request' = tmp[t]
                  \/ (tmp[t] \notin Used' /\ this_request' = request'[tmp[t]].next /\ Idle')
    <3>1. /\ tmp[t] \in Slot /\ slot[t] # tmp[t] /\ sorting
          /\ \/ this_request = tmp[t]
             \/ (tmp[t] \notin Used /\ this_request = request[tmp[t]].next /\ Idle)
      BY <1>0, <2>1 DEF Entered, EnteredOf, Places, PlacesOf
    <3> QED
      BY <3>1, <1>3, <1>4, <1>6
  <2>2. ASSUME NEW t \in Task, pc[t] = "append"
        PROVE  /\ tmp[t] \in Slot /\ slot[t] # tmp[t] /\ request'[tmp[t]].next = NULL
               /\ this_request' = tmp[t] \/ (tmp[t] \notin Used' /\ this_request' = NULL)
    BY <1>0, <1>3, <1>4, <1>6, <2>2 DEF Entered, EnteredOf
  <2>3. ASSUME NEW t \in Task, pc[t] = "search"
        PROVE  /\ tmp[t] \in Used' /\ slot[t] # tmp[t]
               /\ \/ (this_request' # NULL /\ this_request' # tmp[t]
                      /\ request'[this_request'].next = tmp[t])
                  \/ (this_request' = tmp[t] /\ Idle')
    <3>1. /\ tmp[t] \in Used /\ slot[t] # tmp[t] /\ sorting
          /\ \/ (this_request # NULL /\ this_request # tmp[t] /\ request[this_request].next = tmp[t])
             \/ (this_request = tmp[t] /\ Idle)
      BY <1>0, <2>3 DEF Entered, EnteredOf, Places, PlacesOf
    <3>2. this_request # NULL => this_request \in Slot
      BY <1>0 DEF Chain, Used
    <3> QED
      BY <3>1, <3>2, <1>3, <1>4, <1>6
  <2>4. UNCHANGED <<pc, slot, tmp>>
    OBVIOUS
  <2> HIDE DEF Used, Idle
  <2> QED
    BY <2>1, <2>2, <2>3, <2>4 DEF Entered, EnteredOf
<1>10. Chain'
  BY <1>0, <1>3, <1>4, <1>6 DEF Chain, Used
<1>11. Locks'
  BY <1>0, <1>3, <1>4, <1>5 DEF Locks, Used
<1> QED
  BY <1>1, <1>2, <1>7, <1>8, <1>9, <1>10, <1>11 DEF Inv

(* An interrupt that finishes a request preserves it: only add_request can *)
(* have hold of the head, and knows it may go (hd.c:340-346).              *)
LEMMA FinishesInv ==
  ASSUME Inv, Interrupted, Finishes, UNCHANGED <<current, pc, slot, tmp, sorting>>
  PROVE  Inv'
<1>0. TypeOK /\ Places /\ Added /\ Entered /\ Chain /\ Locks
  BY DEF Inv
<1>1. TypeOK'
  BY <1>0 DEF Interrupted, TypeOK, BufferHead
<1>2. Drive'
  BY DEF Interrupted
<1>3. /\ ~Idle /\ this_request \in Used /\ this_request \in Slot
      /\ this_request' = request[this_request].next
      /\ \A s \in Slot : request'[s] = IF s = this_request THEN Empty(request[s].next) ELSE request[s]
      /\ \A t \in Task : buffer'[t].lock <=> buffer[t].lock /\ t # request[this_request].bh
      /\ sorting => Idle'
  BY DEF Finishes, First, Used
<1>4. /\ Used' = Used \ {this_request}
      /\ \A s \in Slot : request'[s].next = request[s].next
      /\ \A s \in Used' : request'[s] = request[s]
  <2>1. \A s \in Slot :
          /\ request'[s].next = request[s].next
          /\ s = this_request => ~request'[s].used
          /\ s # this_request => request'[s] = request[s]
    <3>1. \A n : Empty(n).next = n /\ ~Empty(n).used
      BY DEF Empty
    <3> QED
      BY <1>3, <3>1
  <2>2. Used' = {s \in Slot : request'[s].used}
    BY DEF Used
  <2> QED
    BY <2>1, <2>2 DEF Used
<1>5. /\ this_request' # NULL => this_request' \in Used'
      /\ \A s \in Used' : request[s].next # NULL =>
            request[s].next \in Used' /\ request[s].next # this_request'
  BY <1>0, <1>3, <1>4 DEF Chain
<1>6. Chain'
  BY <1>0, <1>4, <1>5 DEF Chain
<1>7. Locks'
  BY <1>0, <1>3, <1>4 DEF Locks
<1>8. Places'
  BY <1>0, <1>3, <1>4 DEF Places, PlacesOf
<1>9. Added'
  <2>1. ASSUME NEW t \in Task, pc[t] \in Linking
        PROVE  /\ slot[t] \in Used' /\ request'[slot[t]].bh = t /\ request'[slot[t]].next = NULL
               /\ slot[t] # this_request' /\ request'[slot[t]].nsector = 2
               /\ \A r \in Used' : request'[r].next # slot[t]
    <3>1. /\ slot[t] \in Used /\ request[slot[t]].bh = t /\ request[slot[t]].next = NULL
          /\ slot[t] # this_request /\ request[slot[t]].nsector = 2
          /\ \A r \in Used : request[r].next # slot[t]
      BY <1>0, <2>1 DEF Added, AddedOf
    <3> QED
      BY <3>1, <1>3, <1>4
  <2>2. UNCHANGED <<pc, slot>>
    OBVIOUS
  <2> HIDE DEF Used
  <2> QED
    BY <2>1, <2>2 DEF Added, AddedOf, Linking
<1>10. Entered'
  <2>1. ASSUME NEW t \in Task, pc[t] = "second"
        PROVE  /\ tmp[t] \in Slot /\ slot[t] # tmp[t]
               /\ tmp[t] \notin Used' /\ this_request' = request'[tmp[t]].next /\ Idle'
    <3>1. tmp[t] \in Slot /\ slot[t] # tmp[t] /\ sorting /\ this_request = tmp[t]
      BY <1>0, <1>3, <2>1 DEF Entered, EnteredOf, Places, PlacesOf
    <3> QED
      BY <3>1, <1>3, <1>4
  <2>2. ASSUME NEW t \in Task, pc[t] = "append"
        PROVE  /\ tmp[t] \in Slot /\ slot[t] # tmp[t] /\ request'[tmp[t]].next = NULL
               /\ tmp[t] \notin Used' /\ this_request' = NULL
    BY <1>0, <1>3, <1>4, <2>2, Numbers DEF Entered, EnteredOf
  <2>3. ASSUME NEW t \in Task, pc[t] = "search"
        PROVE  tmp[t] \in Used' /\ slot[t] # tmp[t] /\ this_request' = tmp[t] /\ Idle'
    <3>1. /\ tmp[t] \in Used /\ slot[t] # tmp[t] /\ sorting
          /\ this_request # tmp[t] /\ request[this_request].next = tmp[t]
      BY <1>0, <1>3, <2>3 DEF Entered, EnteredOf, Places, PlacesOf
    <3> QED
      BY <3>1, <1>3, <1>4
  <2>4. UNCHANGED <<pc, slot, tmp>>
    OBVIOUS
  <2> HIDE DEF Used, Idle
  <2> QED
    BY <2>1, <2>2, <2>3, <2>4 DEF Entered, EnteredOf
<1> QED
  BY <1>1, <1>2, <1>6, <1>7, <1>8, <1>9, <1>10 DEF Inv

(* An interrupt is one of the four handlers.                               *)
LEMMA InterruptKeeps ==
  ASSUME Inv, HdInterrupt
  PROVE  Interrupted
<1>1. drive # NULL /\ UNCHANGED sorting /\ (ReadIntr \/ WriteIntr \/ BadRwIntr \/ ResetIntr)
  BY DEF HdInterrupt
<1> QED
  BY <1>1, ReadIntrKeeps, WriteIntrKeeps, BadRwIntrKeeps, ResetIntrKeeps

(* An interrupt preserves the invariant, wherever the tasks are.           *)
LEMMA InterruptInv ==
  ASSUME Inv, HdInterrupt
  PROVE  Inv'
<1>1. UNCHANGED <<current, pc, slot, tmp, sorting>>
  BY DEF HdInterrupt
<1>2. Interrupted /\ (Keeps \/ Finishes)
  BY InterruptKeeps DEF Interrupted
<1> QED
  BY <1>1, <1>2, KeepsInv, FinishesInv

(* What the invariant says of one task.                                    *)
Mine(t) == PlacesOf(t) /\ AddedOf(t) /\ EnteredOf(t)

(* A step of a task needs to be looked at for that task only: the others   *)
(* are out of the driver, since a task in the kernel keeps the processor.  *)
LEMMA TaskInv ==
  ASSUME Inv, NEW t \in Task, current \in {t, NULL}, Mine(t)',
         TypeOK', Chain', Locks', Drive',
         \A u \in Task \ {t} : pc'[u] = pc[u] /\ (buffer[u].lock => buffer'[u].lock),
         \A s \in Used' : request'[s].bh = t \/ (s \in Used /\ request'[s].bh = request[s].bh)
  PROVE  Inv'
<1>1. ASSUME NEW u \in Task \ {t}
      PROVE  Mine(u)'
  <2>1. u \in Task /\ current # u /\ u # NULL
    BY Numbers
  <2>2. PlacesOf(u) /\ pc'[u] = pc[u] /\ pc[u] \in Away
    BY <2>1 DEF Inv, Places, PlacesOf
  <2>3. pc'[u] \in {"slept"} => buffer'[u].lock
    BY <2>2 DEF PlacesOf
  <2>4. pc'[u] \in {"user", "slept"} => \A s \in Used' : request'[s].bh # u
    BY <2>2 DEF PlacesOf
  <2>5. PlacesOf(u)'
    BY <2>2, <2>3, <2>4 DEF PlacesOf, Away
  <2>6. AddedOf(u)' /\ EnteredOf(u)'
    BY <2>2 DEF AddedOf, EnteredOf, Away, Linking
  <2> QED
    BY <2>5, <2>6 DEF Mine
<1>2. \A u \in Task : Mine(u)'
  BY <1>1
<1> QED
  BY <1>2 DEF Mine, Inv, Places, Added, Entered

(* rw_abs_hd() locks a buffer for which there is no request (hd.c:382).    *)
LEMMA RwAbsHdInv ==
  ASSUME Inv, NEW t \in Task, NEW rw \in {"READ", "WRITE"}, RwAbsHd(t, rw)
  PROVE  Inv'
<1>1. TypeOK /\ PlacesOf(t) /\ pc[t] = "user" /\ current = NULL
  BY DEF Inv, Places, RwAbsHd
<1>2. /\ UNCHANGED <<request, this_request, sorting, do_hd, drive, faults>>
      /\ pc' = [pc EXCEPT ![t] = "scan"] /\ current' = t /\ tmp' = [tmp EXCEPT ![t] = NULL]
      /\ UNCHANGED <<slot, asleep, wait_for_request, disk>>
  BY DEF RwAbsHd, Goto, queue, hardware
<1>3. PICK b \in BufferHead : b.lock /\ buffer' = [buffer EXCEPT ![t] = b]
  <2> DEFINE d == IF rw = "WRITE" THEN Block ELSE [h \in Half |-> Garbage]
             b == [lock |-> TRUE, uptodate |-> rw = "WRITE", data |-> d]
  <2>1. d \in Content
    BY DEF Block, Content, Half
  <2>2. buffer' = [buffer EXCEPT ![t] = b]
    BY DEF RwAbsHd
  <2> HIDE DEF d
  <2>3. b \in BufferHead /\ b.lock
    BY <2>1 DEF BufferHead
  <2> HIDE DEF b
  <2> QED
    BY <2>2, <2>3
<1>4. /\ TypeOK' /\ buffer'[t].lock /\ pc'[t] = "scan"
      /\ \A u \in Task \ {t} : pc'[u] = pc[u] /\ buffer'[u] = buffer[u]
  BY <1>1, <1>2, <1>3 DEF TypeOK, PC, BufferHead
<1>5. Mine(t)'
  BY <1>1, <1>2, <1>4 DEF Mine, PlacesOf, AddedOf, EnteredOf, Linking, Used
<1>6. Chain' /\ Locks' /\ Drive' /\ Used' = Used
  BY <1>1, <1>2, <1>4 DEF Inv, Chain, Locks, Drive, HandlerReady, First, Used
<1> QED
  BY <1>1, <1>2, <1>4, <1>5, <1>6, TaskInv

(* To wait for a free request touches no request (hd.c:387-390).           *)
LEMMA WaitingInv ==
  ASSUME Inv, NEW t \in Task, ScanFull(t) \/ SlotLink(t) \/ SlotSleep(t) \/ SlotWoken(t)
  PROVE  Inv'
<1>1. TypeOK /\ PlacesOf(t) /\ current \in {t, NULL}
      /\ pc[t] \in {"scan", "full", "link", "slept"}
  BY DEF Inv, Places, ScanFull, SlotLink, SlotSleep, SlotWoken, At
<1>2. UNCHANGED <<request, this_request, sorting, do_hd, drive, faults, buffer, disk>>
  BY DEF ScanFull, SlotLink, SlotSleep, SlotWoken, queue, hardware
<1>3. PICK p \in {"scan", "full", "link", "slept"} : pc' = [pc EXCEPT ![t] = p]
  BY DEF ScanFull, SlotLink, SlotSleep, SlotWoken, Goto
<1>4. pc'[t] = p /\ (p # "slept" => current' = t) /\ \A u \in Task \ {t} : pc'[u] = pc[u]
  BY <1>1, <1>3 DEF TypeOK, ScanFull, SlotLink, SlotSleep, SlotWoken, At, Goto
<1>5. TypeOK'
  BY <1>1, <1>2, <1>3 DEF TypeOK, PC, ScanFull, SlotLink, SlotSleep, SlotWoken
<1>6. Mine(t)'
  BY <1>1, <1>2, <1>4 DEF Mine, PlacesOf, AddedOf, EnteredOf, Linking, Used, Away
<1>7. Chain' /\ Locks' /\ Drive' /\ Used' = Used
  BY <1>2 DEF Inv, Chain, Locks, Drive, HandlerReady, First, Used
<1> QED
  BY <1>1, <1>2, <1>4, <1>5, <1>6, <1>7, TaskInv

(* A free slot becomes the one request for the task's locked buffer        *)
(* (hd.c:384-399).                                                         *)
LEMMA ScanFoundInv ==
  ASSUME Inv, NEW t \in Task, ScanFound(t)
  PROVE  Inv'
<1>1. TypeOK /\ PlacesOf(t) /\ current = t /\ pc[t] = "scan" /\ Chain /\ Locks /\ Drive
  BY DEF Inv, Places, ScanFound, At
<1> DEFINE new == [used |-> TRUE, cmd |-> IF buffer[t].uptodate THEN "WRITE" ELSE "READ",
                   nsector |-> 2, bh |-> t, errors |-> 0, next |-> NULL]
<1>2. PICK s \in Unused : slot' = [slot EXCEPT ![t] = s] /\ request' = [request EXCEPT ![s] = new]
  BY DEF ScanFound
<1>3. /\ UNCHANGED <<current, tmp, asleep, wait_for_request, this_request, sorting, do_hd, drive,
                     faults, buffer, disk>>
      /\ pc' = [pc EXCEPT ![t] = "add"]
  BY DEF ScanFound, hardware, Goto
<1>4. new \in Request /\ new.used /\ new.bh = t /\ new.next = NULL /\ new.nsector = 2
  BY HdAssumption DEF Request
<1> HIDE DEF new
<1>5. s \in Slot /\ s \notin Used /\ s # NULL
  BY <1>2, Numbers DEF Unused, Used
<1>6. /\ request' \in [Slot -> Request] /\ request'[s] = new
      /\ \A r \in Slot \ {s} : request'[r] = request[r]
      /\ slot'[t] = s /\ slot' \in [Task -> Slot \union {NULL}]
      /\ pc'[t] = "add" /\ \A u \in Task \ {t} : pc'[u] = pc[u]
  BY <1>1, <1>2, <1>3, <1>4, <1>5 DEF TypeOK
<1>7. TypeOK'
  BY <1>1, <1>3, <1>6 DEF TypeOK, PC
<1>8. Used' = Used \union {s}
  <2>1. \A r \in Slot : request'[r].used <=> (r \in Used \/ r = s)
    BY <1>4, <1>5, <1>6 DEF Used
  <2> QED
    BY <2>1, <1>5 DEF Used
<1>9. \A r \in Used : request'[r] = request[r] /\ r # s /\ request[r].next # s
  BY <1>1, <1>5, <1>6 DEF Used, Chain
<1> HIDE DEF Used
<1>10. Chain'
  BY <1>1, <1>3, <1>4, <1>5, <1>6, <1>8, <1>9 DEF Chain
<1>11. Locks'
  <2>1. \A r \in Used : request[r].bh # t
    BY <1>1 DEF PlacesOf
  <2>2. buffer[t].lock
    BY <1>1 DEF PlacesOf
  <2> QED
    BY <1>1, <1>3, <1>4, <1>6, <1>8, <1>9, <2>1, <2>2 DEF Locks
<1>12. Drive'
  <2>1. this_request # NULL => request'[this_request] = request[this_request]
    BY <1>1, <1>9 DEF Chain
  <2> QED
    BY <1>1, <1>3, <2>1 DEF Drive, HandlerReady, First
<1>13. Mine(t)'
  <2>1. this_request # s
    BY <1>1, <1>5 DEF Chain
  <2> QED
    BY <1>1, <1>3, <1>4, <1>5, <1>6, <1>8, <1>9, <2>1 DEF Mine, PlacesOf, AddedOf, EnteredOf
<1> QED
  BY <1>1, <1>3, <1>4, <1>6, <1>7, <1>8, <1>9, <1>10, <1>11, <1>12, <1>13, TaskInv

(* Setting and clearing sorting (hd.c:347, 364).                           *)
LEMMA SortInv ==
  ASSUME Inv, NEW t \in Task, SortBegin(t) \/ SortEnd(t)
  PROVE  Inv'
<1>1. TypeOK /\ Mine(t) /\ current = t /\ pc[t] \in {"add", "sorted"}
  BY DEF Inv, Places, Added, Entered, Mine, SortBegin, SortEnd, At
<1>2. UNCHANGED <<current, slot, tmp, asleep, wait_for_request, request, this_request, do_hd, drive,
                  faults, buffer, disk>>
  BY DEF SortBegin, SortEnd, hardware
<1>3. PICK p \in {"first", "restart"} :
        /\ pc' = [pc EXCEPT ![t] = p]
        /\ p = "first" => sorting' = TRUE /\ pc[t] = "add"
        /\ sorting' \in BOOLEAN
  BY DEF SortBegin, SortEnd, Goto, At
<1>4. pc'[t] = p /\ \A u \in Task \ {t} : pc'[u] = pc[u]
  BY <1>1, <1>3 DEF TypeOK
<1>5. TypeOK'
  BY <1>1, <1>2, <1>3 DEF TypeOK, PC
<1>6. Mine(t)'
  BY <1>1, <1>2, <1>3, <1>4 DEF Mine, PlacesOf, AddedOf, EnteredOf, Linking, Used, Away
<1>7. Chain' /\ Locks' /\ Drive' /\ Used' = Used
  BY <1>2 DEF Inv, Chain, Locks, Drive, HandlerReady, First, Used
<1> QED
  BY <1>1, <1>2, <1>4, <1>5, <1>6, <1>7, TaskInv

(* A request into an empty list, or tmp at the head (hd.c:348-349).        *)
LEMMA AddFirstInv ==
  ASSUME Inv, NEW t \in Task, AddFirst(t)
  PROVE  Inv'
<1>1. /\ TypeOK /\ PlacesOf(t) /\ AddedOf(t) /\ current = t /\ pc[t] = "first"
      /\ Chain /\ Locks /\ Drive
  BY DEF Inv, Places, Added, AddFirst, At
<1>2. /\ UNCHANGED <<current, slot, asleep, wait_for_request, request, sorting, do_hd, drive,
                     faults, buffer, disk>>
      /\ tmp' = [tmp EXCEPT ![t] = this_request] /\ tmp'[t] = this_request
  BY <1>1 DEF AddFirst, hardware, TypeOK
<1>3. /\ slot[t] \in Used /\ slot[t] \in Slot /\ request[slot[t]].bh = t
      /\ request[slot[t]].next = NULL /\ slot[t] # this_request /\ request[slot[t]].nsector = 2
      /\ \A r \in Used : request[r].next # slot[t]
  BY <1>1 DEF AddedOf, Linking, Used
<1>4. Used' = Used
  BY <1>2 DEF Used
<1>5. CASE this_request = NULL
  <2>1. this_request' = slot[t] /\ pc' = [pc EXCEPT ![t] = "sorted"]
    BY <1>5 DEF AddFirst, Goto
  <2>2. pc'[t] = "sorted" /\ \A u \in Task \ {t} : pc'[u] = pc[u]
    BY <1>1, <2>1 DEF TypeOK
  <2>3. TypeOK'
    BY <1>1, <1>2, <1>3, <2>1 DEF TypeOK, PC
  <2>4. Mine(t)'
    BY <1>1, <1>2, <2>2 DEF Mine, PlacesOf, AddedOf, EnteredOf, Linking
  <2>5. Chain' /\ Locks'
    BY <1>1, <1>2, <1>3, <1>4, <2>1 DEF Chain, Locks
  <2>6. Drive'
    BY <1>1, <1>2, <1>5 DEF Drive, HandlerReady
  <2> QED
    BY <1>1, <1>2, <1>4, <2>2, <2>3, <2>4, <2>5, <2>6, TaskInv
<1>6. CASE this_request # NULL
  <2>1. this_request' = this_request /\ pc' = [pc EXCEPT ![t] = "second"]
    BY <1>6 DEF AddFirst, Goto
  <2>2. pc'[t] = "second" /\ \A u \in Task \ {t} : pc'[u] = pc[u]
    BY <1>1, <2>1 DEF TypeOK
  <2>3. TypeOK'
    BY <1>1, <1>2, <1>3, <2>1 DEF TypeOK, PC
  <2>4. this_request \in Slot
    BY <1>1, <1>6 DEF TypeOK
  <2>5. Mine(t)'
    BY <1>1, <1>2, <1>3, <1>4, <2>1, <2>2, <2>4 DEF Mine, PlacesOf, AddedOf, EnteredOf, Linking
  <2>6. Chain' /\ Locks' /\ Drive'
    BY <1>1, <1>2, <1>4, <2>1 DEF Chain, Locks, Drive, HandlerReady, First
  <2> QED
    BY <1>1, <1>2, <1>4, <2>2, <2>3, <2>5, <2>6, TaskInv
<1> QED
  BY <1>5, <1>6

(* tmp at the second entry, which an interrupt may have made the head      *)
(* (hd.c:351, 354).                                                        *)
LEMMA AddSecondInv ==
  ASSUME Inv, NEW t \in Task, AddSecond(t)
  PROVE  Inv'
<1>1. /\ TypeOK /\ PlacesOf(t) /\ AddedOf(t) /\ EnteredOf(t) /\ current = t /\ pc[t] = "second"
      /\ Chain /\ Locks /\ Drive
  BY DEF Inv, Places, Added, Entered, AddSecond, At
<1>2. /\ UNCHANGED <<current, slot, asleep, wait_for_request, request, this_request, sorting,
                     do_hd, drive, faults, buffer, disk>>
  BY <1>1 DEF AddSecond, queue, hardware, TypeOK
<1>3. /\ slot[t] \in Used /\ slot[t] # this_request /\ \A r \in Used : request[r].next # slot[t]
      /\ tmp[t] \in Slot /\ slot[t] # tmp[t]
      /\ \/ this_request = tmp[t]
         \/ (tmp[t] \notin Used /\ this_request = request[tmp[t]].next /\ Idle)
  BY <1>1 DEF AddedOf, EnteredOf, Linking
<1>4. Used' = Used /\ Idle' = Idle
  BY <1>2 DEF Used, Idle
<1>5. Chain' /\ Locks' /\ Drive'
  BY <1>1, <1>2, <1>4 DEF Chain, Locks, Drive, HandlerReady, First
<1>6. CASE request[tmp[t]].next = NULL
  <2>1. tmp' = tmp /\ pc' = [pc EXCEPT ![t] = "append"]
    BY <1>6 DEF AddSecond, Goto
  <2>2. pc'[t] = "append" /\ \A u \in Task \ {t} : pc'[u] = pc[u]
    BY <1>1, <2>1 DEF TypeOK
  <2>3. TypeOK'
    BY <1>1, <1>2, <2>1 DEF TypeOK, PC
  <2>4. Mine(t)'
    BY <1>1, <1>2, <1>3, <1>4, <1>6, <2>1, <2>2 DEF Mine, PlacesOf, AddedOf, EnteredOf, Linking
  <2> QED
    BY <1>1, <1>2, <1>4, <1>5, <2>2, <2>3, <2>4, TaskInv
<1>7. CASE request[tmp[t]].next # NULL
  <2> DEFINE n == request[tmp[t]].next
  <2>1. tmp' = [tmp EXCEPT ![t] = n] /\ pc' = [pc EXCEPT ![t] = "search"]
    BY <1>7 DEF AddSecond, Goto
  <2>2. n \in Slot
    BY <1>1, <1>3, <1>7 DEF TypeOK, Request
  <2>3. /\ pc'[t] = "search" /\ \A u \in Task \ {t} : pc'[u] = pc[u]
        /\ tmp'[t] = n
    BY <1>1, <2>1 DEF TypeOK
  <2>4. TypeOK'
    BY <1>1, <1>2, <2>1, <2>2 DEF TypeOK, PC
  <2>5. n \in Used /\ slot[t] # n
        /\ \/ (this_request # NULL /\ this_request # n /\ request[this_request].next = n)
           \/ (this_request = n /\ Idle)
    BY <1>1, <1>3, <1>7, <2>2, Numbers DEF Chain
  <2> HIDE DEF n, Idle
  <2>6. Mine(t)'
    BY <1>1, <1>2, <1>4, <2>3, <2>5 DEF Mine, PlacesOf, AddedOf, EnteredOf, Linking
  <2> QED
    BY <1>1, <1>2, <1>4, <1>5, <2>3, <2>4, <2>6, TaskInv
<1> QED
  BY <1>6, <1>7

(* The request behind tmp: whether or not tmp is still in use, no two      *)
(* requests lead to the same (hd.c:352).                                   *)
LEMMA Append2Inv ==
  ASSUME Inv, NEW t \in Task, Append2(t)
  PROVE  Inv'
<1>1. /\ TypeOK /\ PlacesOf(t) /\ AddedOf(t) /\ EnteredOf(t) /\ current = t /\ pc[t] = "append"
      /\ Chain /\ Locks /\ Drive
  BY DEF Inv, Places, Added, Entered, Append2, At
<1>2. /\ UNCHANGED <<current, slot, tmp, asleep, wait_for_request, this_request, sorting,
                     do_hd, drive, faults, buffer, disk>>
      /\ pc' = [pc EXCEPT ![t] = "sorted"]
      /\ request' = [request EXCEPT ![tmp[t]].next = slot[t]]
  BY <1>1 DEF Append2, hardware, Goto
<1>3. /\ slot[t] \in Used /\ slot[t] \in Slot /\ slot[t] # this_request
      /\ request[slot[t]].next = NULL
      /\ \A r \in Used : request[r].next # slot[t]
      /\ tmp[t] \in Slot /\ slot[t] # tmp[t]
  BY <1>1 DEF AddedOf, EnteredOf, Linking, Used
<1>4. request' \in [Slot -> Request]
      /\ \A s \in Slot :
           /\ request'[s].used = request[s].used /\ request'[s].bh = request[s].bh
           /\ request'[s].nsector = request[s].nsector
           /\ request'[s].next = IF s = tmp[t] THEN slot[t] ELSE request[s].next
  BY <1>1, <1>2, <1>3 DEF TypeOK, Request
<1>5. Used' = Used
  BY <1>4 DEF Used
<1>6. pc'[t] = "sorted" /\ \A u \in Task \ {t} : pc'[u] = pc[u]
  BY <1>1, <1>2 DEF TypeOK
<1>7. TypeOK'
  BY <1>1, <1>2, <1>4 DEF TypeOK, PC
<1>8. \A s \in Used : s \in Slot
  BY DEF Used
<1> HIDE DEF Used
<1>9. Mine(t)'
  BY <1>1, <1>2, <1>6 DEF Mine, PlacesOf, AddedOf, EnteredOf, Linking
<1>10. Chain'
  BY <1>1, <1>2, <1>3, <1>4, <1>5, <1>8 DEF Chain
<1>11. Locks'
  BY <1>1, <1>2, <1>4, <1>5, <1>8 DEF Locks
<1>12. Drive'
  <2>1. this_request # NULL => this_request \in Slot
    BY <1>1 DEF TypeOK
  <2> QED
    BY <1>1, <1>2, <1>4, <2>1 DEF Drive, HandlerReady, First
<1> QED
  BY <1>1, <1>2, <1>4, <1>5, <1>6, <1>7, <1>8, <1>9, <1>10, <1>11, <1>12, TaskInv

(* do_request() when the interrupts have died down (hd.c:371-372).         *)
LEMMA RestartInv ==
  ASSUME Inv, NEW t \in Task, Restart(t)
  PROVE  Inv'
<1>1. TypeOK /\ PlacesOf(t) /\ current = t /\ pc[t] = "restart" /\ Chain /\ Locks /\ Drive
  BY DEF Inv, Places, Restart, At
<1>2. /\ UNCHANGED <<current, slot, tmp, asleep, wait_for_request, request, this_request, sorting,
                     buffer, disk>>
      /\ pc' = [pc EXCEPT ![t] = "wait"]
  BY <1>1 DEF Restart, queue, Goto
<1>3. this_request \in Slot \union {NULL} /\ request \in [Slot -> Request]
      /\ this_request' = this_request /\ request' = request
  BY <1>1, <1>2 DEF TypeOK
<1>4. this_request # NULL => /\ request[this_request].used /\ request[this_request].bh \in Task
                             /\ request[this_request].nsector # 0
  BY <1>1 DEF Chain, Locks, Used
<1>5. /\ drive' \in Command \union {NULL} /\ faults' \in 0 .. MaxFaults
      /\ do_hd' \in {NULL, "read_intr", "write_intr", "do_request"} /\ Drive'
  <2>1. CASE do_hd = NULL
    <3>1. DoRequest(this_request, request)
      BY <2>1 DEF Restart
    <3>2. /\ drive' \in Command \union {NULL} /\ faults' \in 0 .. MaxFaults
          /\ do_hd' \in {NULL, "read_intr", "write_intr", "do_request"}
          /\ Drive' \/ (drive' = NULL /\ do_hd' = do_hd)
      BY <1>1, <1>3, <1>4, <3>1, DoRequestReady
    <3> QED
      BY <3>2 DEF Drive, HandlerReady
  <2>2. CASE do_hd # NULL
    <3>1. UNCHANGED <<do_hd, drive, faults>>
      BY <2>2 DEF Restart, hardware
    <3> QED
      BY <1>1, <1>2, <3>1 DEF TypeOK, Drive, HandlerReady, First
  <2> QED
    BY <2>1, <2>2
<1>6. pc'[t] = "wait" /\ \A u \in Task \ {t} : pc'[u] = pc[u]
  BY <1>1, <1>2 DEF TypeOK
<1>7. TypeOK'
  BY <1>1, <1>2, <1>5 DEF TypeOK, PC
<1>8. Used' = Used
  BY <1>2 DEF Used
<1>9. Mine(t)'
  BY <1>1, <1>2, <1>6 DEF Mine, PlacesOf, AddedOf, EnteredOf, Linking
<1>10. Chain' /\ Locks'
  BY <1>1, <1>2, <1>8 DEF Chain, Locks
<1> QED
  BY <1>1, <1>2, <1>5, <1>6, <1>7, <1>8, <1>9, <1>10, TaskInv

(* wait_on_buffer(): only when its buffer is unlocked, thus has no         *)
(* request, does the task go (hd.c:99-105, 401).                           *)
LEMMA WaitOnBufferInv ==
  ASSUME Inv, NEW t \in Task, WaitOnBuffer(t)
  PROVE  Inv'
<1>1. TypeOK /\ PlacesOf(t) /\ current \in {t, NULL} /\ Locks
  BY DEF Inv, Places, WaitOnBuffer, At
<1>2. /\ UNCHANGED <<wait_for_request, request, this_request, sorting, do_hd, drive, faults,
                     buffer, disk>>
      /\ slot' = [slot EXCEPT ![t] = NULL] /\ tmp' = [tmp EXCEPT ![t] = NULL] /\ current' = NULL
      /\ asleep' \subseteq asleep \union {t}
  BY DEF WaitOnBuffer, queue, hardware
<1>3. PICK p \in {"io", "user"} : pc' = [pc EXCEPT ![t] = p] /\ (p = "user" => ~buffer[t].lock)
  BY DEF WaitOnBuffer, Goto
<1>4. pc'[t] = p /\ \A u \in Task \ {t} : pc'[u] = pc[u]
  BY <1>1, <1>3 DEF TypeOK
<1>5. TypeOK'
  BY <1>1, <1>2, <1>3 DEF TypeOK, PC
<1>6. Mine(t)'
  <2>1. p = "user" => \A s \in Used : request[s].bh # t
    BY <1>1, <1>3 DEF Locks
  <2> QED
    BY <1>1, <1>2, <1>4, <2>1 DEF Mine, PlacesOf, AddedOf, EnteredOf, Linking, Used, Away
<1>7. Chain' /\ Locks' /\ Drive' /\ Used' = Used
  BY <1>2 DEF Inv, Chain, Locks, Drive, HandlerReady, First, Used
<1> QED
  BY <1>1, <1>2, <1>4, <1>5, <1>6, <1>7, TaskInv

(* A walk over the next pointers goes from slot to slot, or ends           *)
(* (hd.c:355).                                                             *)
LEMMA WalkFacts ==
  ASSUME TypeOK, NEW s \in Slot \union {NULL}
  PROVE  /\ WalkFrom(s) \in [0 .. NR_REQUEST -> Slot \union {NULL}]
         /\ WalkFrom(s)[0] = s
         /\ \A n \in 1 .. NR_REQUEST : WalkFrom(s)[n] = Following[WalkFrom(s)[n - 1]]
<1>1. NR_REQUEST \in Nat
  BY HdAssumption
<1>2. Following \in [Slot \union {NULL} -> Slot \union {NULL}]
  BY DEF Following, TypeOK, Request
<1>3. WalkFrom(s) = Iteration(Following, s, NR_REQUEST)
  BY DEF WalkFrom, Iteration
<1> DEFINE V == Slot \union {NULL}
<1>4. s \in V /\ Following \in [V -> V]
  BY <1>2
<1> HIDE DEF V
<1>5. Iteration(Following, s, NR_REQUEST) \in [0 .. NR_REQUEST -> V]
      /\ Iterates(Iteration(Following, s, NR_REQUEST), Following, s, NR_REQUEST)
  BY <1>1, <1>4, IterationValue
<1> QED
  BY <1>3, <1>5 DEF Iterates, V

(* A list is such a walk up to its end, or as long as there are slots.     *)
LEMMA ListFacts ==
  ASSUME TypeOK, NEW s \in Slot \union {NULL}
  PROVE  \E len \in 0 .. NR_REQUEST :
           /\ List(s) = [i \in 1 .. len |-> WalkFrom(s)[i - 1]]
           /\ List(s) \in Seq(Slot) /\ Len(List(s)) = len
           /\ len = NR_REQUEST \/ WalkFrom(s)[len] = NULL
           /\ \A n \in 0 .. len - 1 : WalkFrom(s)[n] \in Slot
<1> DEFINE walk == WalkFrom(s)
           ends == {n \in 0 .. NR_REQUEST : n = NR_REQUEST \/ walk[n] = NULL}
           len == Min(ends)
<1>0. NR_REQUEST \in Nat \ {0} /\ walk \in [0 .. NR_REQUEST -> Slot \union {NULL}]
  BY HdAssumption, WalkFacts
<1>1. List(s) = [i \in 1 .. len |-> walk[i - 1]]
  BY DEF List
<1>2. len \in ends /\ \A m \in ends : len <= m
  <2>1. ends \subseteq Nat /\ NR_REQUEST \in ends
    BY <1>0
  <2>2. PICK n \in ends : \A m \in ends : ~(m < n)
    <3> HIDE DEF ends
    <3> QED BY <2>1, LeastNumber
  <2>3. \A m \in ends : n <= m
    BY <2>1, <2>2
  <2> HIDE DEF ends
  <2> QED
    BY <2>3 DEF Min
<1> HIDE DEF walk
<1>3. len \in 0 .. NR_REQUEST /\ (len = NR_REQUEST \/ walk[len] = NULL)
  BY <1>2
<1>4. \A n \in 0 .. len - 1 : walk[n] \in Slot
  BY <1>0, <1>2
<1> HIDE DEF len
<1>5. List(s) \in Seq(Slot) /\ Len(List(s)) = len
  BY <1>0, <1>1, <1>3, <1>4
<1> QED
  BY <1>1, <1>3, <1>4, <1>5 DEF walk

(* The search of add_request meets requests in use only, and not the one   *)
(* it adds (hd.c:354-359).                                                 *)
LEMMA SearchMembers ==
  ASSUME Inv, NEW s \in Used, NEW x, s # x, \A r \in Used : request[r].next # x
  PROVE  \A i \in 1 .. Len(List(s)) : List(s)[i] \in Used /\ List(s)[i] # x
<1>1. TypeOK /\ s \in Slot \union {NULL}
  BY DEF Inv, Used
<1> DEFINE w == WalkFrom(s)
<1>2. /\ w \in [0 .. NR_REQUEST -> Slot \union {NULL}] /\ w[0] = s
      /\ \A n \in 1 .. NR_REQUEST : w[n] = Following[w[n - 1]]
  BY <1>1, WalkFacts
<1> HIDE DEF w
<1>3. PICK len \in 0 .. NR_REQUEST :
         /\ List(s) = [i \in 1 .. len |-> w[i - 1]]
         /\ Len(List(s)) = len
         /\ \A n \in 0 .. len - 1 : w[n] \in Slot
  BY <1>1, ListFacts DEF w
<1> DEFINE T == {n \in 0 .. len - 1 : ~(w[n] \in Used /\ w[n] # x)}
<1>4. T = {}
  <2>1. SUFFICES ASSUME T # {} PROVE FALSE
    OBVIOUS
  <2>2. PICK n \in T : \A m \in T : ~(m < n)
    <3>1. T \subseteq Nat
      OBVIOUS
    <3> HIDE DEF T
    <3> QED
      BY <2>1, <3>1, LeastNumber
  <2>3. n # 0 /\ n - 1 \in 0 .. len - 1 /\ n \in 1 .. NR_REQUEST
    BY <1>2, <2>2, HdAssumption
  <2>4. w[n - 1] \in Used /\ w[n - 1] # x
    BY <2>2, <2>3
  <2>5. w[n] = request[w[n - 1]].next
    <3>1. w[n - 1] \in Slot /\ w[n - 1] # NULL
      BY <1>3, <2>3, Numbers
    <3> QED
      BY <1>2, <2>3, <3>1 DEF Following
  <2>6. w[n] # NULL
    BY <1>3, <2>2, Numbers
  <2>7. w[n] \in Used /\ w[n] # x
    BY <2>4, <2>5, <2>6 DEF Inv, Chain
  <2> QED
    BY <2>2, <2>7
<1> QED
  BY <1>3, <1>4, HdAssumption

(* The request between one that is in use and what came after that         *)
(* (hd.c:354-361).                                                         *)
LEMMA InsertInv ==
  ASSUME Inv, NEW t \in Task, Insert(t)
  PROVE  Inv'
<1>1. /\ TypeOK /\ PlacesOf(t) /\ AddedOf(t) /\ EnteredOf(t) /\ current = t /\ pc[t] = "search"
      /\ Chain /\ Locks /\ Drive
  BY DEF Inv, Places, Added, Entered, Insert, At
<1>2. /\ UNCHANGED <<current, slot, tmp, asleep, wait_for_request, this_request, sorting,
                     do_hd, drive, faults, buffer, disk>>
      /\ pc' = [pc EXCEPT ![t] = "sorted"]
  BY <1>1 DEF Insert, hardware, Goto
<1>3. /\ slot[t] \in Used /\ slot[t] \in Slot /\ slot[t] # this_request
      /\ request[slot[t]].next = NULL
      /\ \A r \in Used : request[r].next # slot[t]
      /\ tmp[t] \in Used /\ slot[t] # tmp[t]
  BY <1>1 DEF AddedOf, EnteredOf, Linking, Used
<1>4. PICK l \in Used :
        /\ l # slot[t] /\ l \in Slot
        /\ request' = [request EXCEPT ![slot[t]].next = request[l].next, ![l].next = slot[t]]
  <2>1. PICK i \in 1 .. Len(List(tmp[t])) :
          request' = [request EXCEPT ![slot[t]].next = request[List(tmp[t])[i]].next,
                                     ![List(tmp[t])[i]].next = slot[t]]
    BY DEF Insert
  <2>2. List(tmp[t])[i] \in Used /\ List(tmp[t])[i] # slot[t]
    BY <1>3, SearchMembers
  <2> QED
    BY <2>1, <2>2 DEF Used
<1>5. /\ request' \in [Slot -> Request]
      /\ \A s \in Slot :
           /\ request'[s].used = request[s].used /\ request'[s].bh = request[s].bh
           /\ request'[s].nsector = request[s].nsector
           /\ s \notin {slot[t], l} => request'[s].next = request[s].next
      /\ request'[slot[t]].next = request[l].next /\ request'[l].next = slot[t]
  <2> DEFINE R == [request EXCEPT ![slot[t]].next = request[l].next]
  <2>1. request[l].next \in Slot \union {NULL}
    BY <1>1, <1>4 DEF TypeOK, Request
  <2>2. /\ R \in [Slot -> Request]
        /\ \A s \in Slot :
             /\ R[s].used = request[s].used /\ R[s].bh = request[s].bh
             /\ R[s].nsector = request[s].nsector
             /\ s # slot[t] => R[s].next = request[s].next
        /\ R[slot[t]].next = request[l].next
    BY <1>1, <1>3, <2>1 DEF TypeOK, Request
  <2>3. request' = [R EXCEPT ![l].next = slot[t]]
    BY <1>4
  <2> HIDE DEF R
  <2>5. l \in Slot /\ slot[t] \in Slot
    BY <1>3, <1>4
  <2>4. /\ request' \in [Slot -> Request]
        /\ \A s \in Slot :
             /\ request'[s].used = R[s].used /\ request'[s].bh = R[s].bh
             /\ request'[s].nsector = R[s].nsector
             /\ s # l => request'[s].next = R[s].next
        /\ request'[l].next = slot[t]
    BY <2>5, <2>2, <2>3 DEF Request
  <2> QED
    BY <1>3, <1>4, <2>2, <2>4, SMTT(60)
<1>6. Used' = Used
  BY <1>5 DEF Used
<1>7. pc'[t] = "sorted" /\ \A u \in Task \ {t} : pc'[u] = pc[u]
  BY <1>1, <1>2 DEF TypeOK
<1>8. TypeOK'
  BY <1>1, <1>2, <1>5 DEF TypeOK, PC
<1>9. \A s \in Used : s \in Slot
  BY DEF Used
<1> HIDE DEF Used
<1>10. Mine(t)'
  BY <1>1, <1>2, <1>7 DEF Mine, PlacesOf, AddedOf, EnteredOf, Linking
<1>11. Chain'
  <2>1. request[l].next # NULL => request[l].next \in Used /\ request[l].next # this_request
    BY <1>1, <1>4 DEF Chain
  <2>2. ASSUME NEW s \in Used, request'[s].next # NULL
        PROVE  request'[s].next \in Used /\ request'[s].next # this_request
    BY <1>1, <1>3, <1>5, <1>9, <2>1, <2>2 DEF Chain
  <2>3. ASSUME NEW r \in Used, NEW s \in Used, request'[r].next = request'[s].next,
               request'[r].next # NULL
        PROVE  r = s
    <3>1. \A q \in Used : request[q].next # slot[t]
      BY <1>3
    <3>2. \A p, q \in Used : request[p].next = request[q].next /\ request[p].next # NULL => p = q
      BY <1>1 DEF Chain
    <3> QED
      BY <1>3, <1>4, <1>5, <1>9, <2>3, <3>1, <3>2
  <2> QED
    BY <1>1, <1>2, <1>6, <2>2, <2>3 DEF Chain
<1>12. Locks'
  BY <1>1, <1>2, <1>5, <1>6, <1>9 DEF Locks
<1>13. Drive'
  <2>1. this_request # NULL => this_request \in Slot
    BY <1>1 DEF TypeOK
  <2> QED
    BY <1>1, <1>2, <1>5, <2>1 DEF Drive, HandlerReady, First
<1> QED
  BY <1>1, <1>2, <1>5, <1>6, <1>7, <1>8, <1>9, <1>10, <1>11, <1>12, <1>13, TaskInv

(* The invariant holds at first (hd_init(), hd.c:409-411).                 *)
LEMMA InitInv == Init => Inv
<1> SUFFICES ASSUME Init PROVE Inv
  OBVIOUS
<1>1. TypeOK
  <2>1. Empty(NULL) \in Request /\ [h \in Half |-> Garbage] \in Content /\ Block \in Content
    BY HdAssumption DEF Empty, Request, Content, Block, Half
  <2> DEFINE d == [h \in Half |-> Garbage]
             b == [lock |-> FALSE, uptodate |-> FALSE, data |-> d]
  <2>2. buffer = [t \in Task |-> b] /\ d \in Content
    BY <2>1 DEF Init
  <2>3. b \in [lock : BOOLEAN, uptodate : BOOLEAN, data : Content]
    <3> HIDE DEF d
    <3> QED
      BY <2>2
  <2> HIDE DEF b
  <2>4. buffer \in [Task -> [lock : BOOLEAN, uptodate : BOOLEAN, data : Content]]
    BY <2>2, <2>3
  <2>5. request \in [Slot -> Request] /\ disk \in [Task -> Content]
    <3> HIDE DEF Block
    <3> DEFINE e == Empty(NULL)
    <3>1. request = [s \in Slot |-> e] /\ disk = [t \in Task |-> Block]
      BY DEF Init
    <3> HIDE DEF e
    <3> QED
      BY <2>1, <3>1 DEF e
  <2>6. faults \in 0 .. MaxFaults
    BY HdAssumption DEF Init
  <2>7. /\ pc \in [Task -> PC] /\ slot \in [Task -> Slot \union {NULL}]
        /\ tmp \in [Task -> Slot \union Task \union {NULL}]
    BY DEF Init, PC
  <2> QED
    BY <2>4, <2>5, <2>6, <2>7 DEF Init, TypeOK
<1>2. Used = {}
  BY DEF Init, Used, Empty
<1>3. Places /\ Added /\ Entered
  BY <1>2 DEF Init, Places, PlacesOf, Added, AddedOf, Entered, EnteredOf, Linking, Away
<1>4. Chain /\ Locks
  BY <1>2 DEF Init, Chain, Locks
<1>5. Drive
  BY DEF Init, Drive, HandlerReady
<1> QED
  BY <1>1, <1>3, <1>4, <1>5 DEF Inv

(* Every step preserves it.                                                *)
LEMMA StepInv == Inv /\ [Next]_vars => Inv'
<1> SUFFICES ASSUME Inv, [Next]_vars PROVE Inv'
  OBVIOUS
<1>1. ASSUME NEW t \in Task, Run(t) PROVE Inv'
  BY <1>1, WaitingInv, ScanFoundInv, SortInv, AddFirstInv, AddSecondInv, Append2Inv, InsertInv,
     RestartInv, WaitOnBufferInv DEF Run, AddRequest
<1>2. ASSUME NEW t \in Task, NEW rw \in {"READ", "WRITE"}, RwAbsHd(t, rw) PROVE Inv'
  BY <1>2, RwAbsHdInv
<1>3. ASSUME HdInterrupt PROVE Inv'
  BY <1>3, InterruptInv
<1>4. ASSUME UNCHANGED vars PROVE Inv'
  <2>1. UNCHANGED <<current, pc, slot, tmp, asleep, request, this_request, sorting, do_hd,
                    wait_for_request, buffer, disk, drive, faults>>
    BY <1>4 DEF vars, code, queue, hardware
  <2>2. TypeOK' /\ Drive'
    BY <2>1 DEF Inv, TypeOK, Drive, HandlerReady, First
  <2>3. Places' /\ Added' /\ Entered'
    BY <2>1 DEF Inv, Places, PlacesOf, Added, AddedOf, Entered, EnteredOf, Used, Idle
  <2>4. Chain' /\ Locks'
    BY <2>1 DEF Inv, Chain, Locks, Used
  <2> QED
    BY <2>2, <2>3, <2>4 DEF Inv
<1> QED
  BY <1>1, <1>2, <1>3, <1>4 DEF Next

(* The invariant holds always.                                             *)
THEOREM Invariant == Spec => []Inv
  BY InitInv, StepInv, PTL DEF Spec

(* Wherever the disk interrupts the tasks, an interrupt finds its handler  *)
(* and its request, and no two requests are for one buffer (hd.c:84-97,    *)
(* 183-202, 240-278, 382, 401).                                            *)
THEOREM RequestsStayWhole == Spec => []RequestsWhole
<1>1. Inv => RequestsWhole
  <2> SUFFICES ASSUME Inv PROVE RequestsWhole
    OBVIOUS
  <2>1. HandlerReady
    BY DEF Inv, Drive
  <2>2. OneRequestPerLock
    BY DEF OneRequestPerLock, Inv, Locks, Used
  <2> QED
    BY <2>1, <2>2 DEF RequestsWhole
<1> QED
  BY <1>1, Invariant, PTL

(* The requests that were added to the list (hd.c:346-363).                *)
Linked == Used \ Adding

(* The list from a request on.                                             *)
Closed(S) == \A s \in S : request[s].next # NULL => request[s].next \in S

(* From the head of the list one gets to every request that was added: no  *)
(* set of them that has the head and is closed under next lacks one.       *)
Reached ==
  /\ this_request = NULL => Linked = {}
  /\ \A S \in SUBSET Linked : this_request \in S /\ Closed(S) => S = Linked

(* Without an interrupt between lines 348 and 352 tmp is the head of the   *)
(* list.                                                                   *)
Prompt == \A t \in Task : pc[t] \in {"second", "append"} => tmp[t] = this_request

(* Only the running task adds a request.                                   *)
LEMMA OneAdding ==
  ASSUME Inv, NEW t \in Task, current \in {t, NULL},
         \A u \in Task \ {t} : pc'[u] = pc[u] /\ slot'[u] = slot[u]
  PROVE  /\ Adding = IF pc[t] \in Linking THEN {slot[t]} ELSE {}
         /\ Adding' = IF pc'[t] \in Linking THEN {slot'[t]} ELSE {}
<1>1. ASSUME NEW u \in Task \ {t}
      PROVE  pc[u] \in Away /\ pc[u] \notin Linking
  <2>1. u \in Task /\ current # u
    BY Numbers
  <2> QED
    BY <2>1 DEF Inv, Places, PlacesOf, Away, Linking
<1>2. Adding = {slot[u] : u \in {v \in Task : pc[v] \in Linking}}
  BY DEF Adding, Linking
<1>3. Adding' = {slot'[u] : u \in {v \in Task : pc'[v] \in Linking}}
  BY DEF Adding, Linking
<1> HIDE DEF Linking
<1> QED
  BY <1>1, <1>2, <1>3

(* A step that leaves the list alone.                                      *)
LEMMA ReachedKept ==
  ASSUME Reached, Used' = Used, Adding' = Adding, this_request' = this_request,
         \A s \in Used : request'[s].next = request[s].next
  PROVE  Reached'
<1>1. Linked' = Linked /\ \A s \in Linked : s \in Used
  BY DEF Linked
<1>2. \A S \in SUBSET Linked : Closed(S)' => Closed(S)
  BY <1>1 DEF Closed
<1> HIDE DEF Closed, Linked
<1> QED
  BY <1>1, <1>2 DEF Reached

(* An interrupt takes at most the head off the list (hd.c:254, 276, 295).  *)
LEMMA InterruptLinked ==
  ASSUME Inv, HdInterrupt
  PROVE  /\ \/ Used' = Used /\ Linked' = Linked /\ this_request' = this_request
            \/ /\ this_request \in Linked /\ this_request' = request[this_request].next
               /\ Linked' = Linked \ {this_request}
         /\ Adding' = Adding
         /\ \A s \in Slot : request'[s].next = request[s].next
         /\ \A s \in Slot \ {this_request} : request'[s].bh = request[s].bh
<1>0. UNCHANGED <<current, pc, slot, tmp, sorting>>
  BY DEF HdInterrupt
<1>1. Interrupted /\ (Keeps \/ Finishes)
  BY InterruptKeeps DEF Interrupted
<1>2. Adding' = Adding
  BY <1>0 DEF Adding
<1>3. CASE Keeps
  <2>1. Used' = Used /\ this_request' = this_request
    BY <1>3 DEF Keeps, Used
  <2>2. \A s \in Slot : request'[s].next = request[s].next /\ request'[s].bh = request[s].bh
    BY <1>3 DEF Keeps
  <2> QED
    BY <1>2, <2>1, <2>2 DEF Linked
<1>4. CASE Finishes
  <2>1. /\ this_request \in Used /\ this_request \in Slot
        /\ this_request' = request[this_request].next
        /\ \A s \in Slot : request'[s] = IF s = this_request THEN Empty(request[s].next) ELSE request[s]
    BY <1>4 DEF Finishes, Used
  <2>2. \A n : Empty(n).next = n /\ ~Empty(n).used
    BY DEF Empty
  <2>3. \A s \in Slot :
          /\ request'[s].next = request[s].next
          /\ s = this_request => ~request'[s].used
          /\ s # this_request => request'[s] = request[s]
    BY <2>1, <2>2
  <2>4. Used' = Used \ {this_request}
    BY <2>3 DEF Used
  <2>5. this_request \notin Adding
    BY DEF Inv, Added, AddedOf, Adding, Linking
  <2>6. this_request \in Linked /\ Linked' = Linked \ {this_request}
    BY <1>2, <2>1, <2>4, <2>5 DEF Linked
  <2> QED
    BY <1>2, <2>1, <2>3, <2>6
<1> QED
  BY <1>1, <1>3, <1>4

(* The end of the head of the list: what can be reached from the next is   *)
(* the rest.                                                               *)
LEMMA InterruptReached ==
  ASSUME Inv, Reached, HdInterrupt
  PROVE  Reached'
<1>1. Adding' = Adding /\ \A s \in Slot : request'[s].next = request[s].next
  BY InterruptLinked
<1>2. CASE Used' = Used /\ this_request' = this_request
  BY <1>1, <1>2, ReachedKept DEF Used
<1>3. CASE /\ this_request \in Linked /\ this_request' = request[this_request].next
           /\ Linked' = Linked \ {this_request}
  <2>1. ASSUME this_request' = NULL PROVE Linked' = {}
    <3>1. Closed({this_request})
      BY <1>3, <2>1 DEF Closed
    <3>2. {this_request} \in SUBSET Linked
      BY <1>3
    <3>3. {this_request} = Linked
      BY <3>1, <3>2 DEF Reached
    <3> QED
      BY <1>3, <3>3
  <2>2. ASSUME NEW S \in SUBSET Linked', this_request' \in S, Closed(S)'
        PROVE  S = Linked'
    <3>1. \A s \in S : s \in Slot
      BY DEF Linked, Used
    <3>2. Closed(S \union {this_request})
      BY <1>1, <1>3, <2>2, <3>1 DEF Closed
    <3>3. S \union {this_request} \in SUBSET Linked
      BY <1>3
    <3>4. S \union {this_request} = Linked
      BY <3>2, <3>3 DEF Reached
    <3> QED
      BY <1>3, <3>4
  <2> HIDE DEF Linked, Closed
  <2> QED
    BY <2>1, <2>2 DEF Reached
<1> QED
  BY <1>2, <1>3, InterruptLinked

(* A request that is not added yet is not in the list (hd.c:391-399).      *)
LEMMA ScanFoundLinked ==
  ASSUME Inv, NEW t \in Task, ScanFound(t)
  PROVE  /\ Linked' = Linked /\ this_request' = this_request
         /\ \A r \in Linked : request'[r] = request[r]
<1>1. TypeOK /\ current = t /\ pc[t] = "scan" /\ Chain
  BY DEF Inv, ScanFound, At
<1> DEFINE new == [used |-> TRUE, cmd |-> IF buffer[t].uptodate THEN "WRITE" ELSE "READ",
                   nsector |-> 2, bh |-> t, errors |-> 0, next |-> NULL]
<1>2. PICK s \in Unused : slot' = [slot EXCEPT ![t] = s] /\ request' = [request EXCEPT ![s] = new]
  BY DEF ScanFound
<1>3. new.used
  OBVIOUS
<1> HIDE DEF new
<1>4. s \in Slot /\ s \notin Used
  BY <1>2 DEF Unused, Used
<1>5. /\ request'[s] = new /\ \A r \in Slot \ {s} : request'[r] = request[r]
      /\ slot'[t] = s /\ pc'[t] = "add"
      /\ \A u \in Task \ {t} : pc'[u] = pc[u] /\ slot'[u] = slot[u]
  BY <1>1, <1>2, <1>4 DEF TypeOK, ScanFound, Goto
<1>6. Used' = Used \union {s}
  <2>1. \A r \in Slot : request'[r].used <=> (r \in Used \/ r = s)
    BY <1>3, <1>4, <1>5 DEF Used
  <2> QED
    BY <2>1, <1>4 DEF Used
<1>7. Adding = {} /\ Adding' = {s}
  BY <1>1, <1>5, OneAdding DEF Linking
<1>8. Linked' = Linked
  BY <1>4, <1>6, <1>7 DEF Linked
<1>9. \A r \in Linked : request'[r] = request[r]
  BY <1>4, <1>5 DEF Linked, Used
<1>10. this_request' = this_request
  BY DEF ScanFound
<1> QED
  BY <1>8, <1>9, <1>10

(* So what can be reached stays so.                                        *)
LEMMA ScanFoundReached ==
  ASSUME Inv, Reached, NEW t \in Task, ScanFound(t)
  PROVE  Reached'
<1>1. /\ Linked' = Linked /\ this_request' = this_request
      /\ \A r \in Linked : request'[r] = request[r]
  BY ScanFoundLinked
<1>2. \A S \in SUBSET Linked : Closed(S)' => Closed(S)
  BY <1>1 DEF Closed
<1> HIDE DEF Closed, Linked
<1> QED
  BY <1>1, <1>2 DEF Reached

(* The first request becomes the head (hd.c:349).                          *)
LEMMA AddFirstLinked ==
  ASSUME Inv, Reached, NEW t \in Task, AddFirst(t)
  PROVE  /\ UNCHANGED request
         /\ \/ Used' = Used /\ Adding' = Adding /\ this_request' = this_request
            \/ this_request' # NULL /\ Linked' = {this_request'}
<1>1. /\ TypeOK /\ current = t /\ pc[t] = "first" /\ Chain /\ AddedOf(t) /\ UNCHANGED <<slot, request>>
  BY DEF Inv, AddFirst, At, Added
<1>2. PICK p \in PC : pc' = [pc EXCEPT ![t] = p]
  BY DEF AddFirst, Goto, PC
<1>3. pc'[t] = p /\ \A u \in Task \ {t} : pc'[u] = pc[u] /\ slot'[u] = slot[u]
  BY <1>1, <1>2 DEF TypeOK
<1>4. Adding = {slot[t]} /\ Adding' = (IF pc'[t] \in Linking THEN {slot'[t]} ELSE {})
  BY <1>1, <1>3, OneAdding DEF Linking
<1>5. Used' = Used
  BY <1>1 DEF Used
<1>6. CASE this_request # NULL
  <2>1. this_request' = this_request /\ pc'[t] = "second"
    BY <1>1, <1>6 DEF AddFirst, Goto, TypeOK
  <2>2. Adding' = Adding
    BY <1>1, <1>4, <2>1 DEF Linking
  <2> QED
    BY <1>1, <1>5, <2>1, <2>2
<1>7. CASE this_request = NULL
  <2>1. this_request' = slot[t] /\ pc'[t] = "sorted"
    BY <1>1, <1>7 DEF AddFirst, Goto, TypeOK
  <2>2. Adding' = {}
    BY <1>4, <2>1 DEF Linking
  <2>3. Linked = {} /\ slot[t] \in Used /\ slot[t] # NULL
    BY <1>1, <1>7, Numbers DEF Reached, AddedOf, Linking, Used
  <2>4. Linked' = {slot[t]}
    BY <1>4, <1>5, <2>2, <2>3 DEF Linked
  <2> HIDE DEF Linked
  <2> QED
    BY <1>1, <2>1, <2>3, <2>4
<1> QED
  BY <1>6, <1>7

(* The head is reached.                                                    *)
LEMMA AddFirstReached ==
  ASSUME Inv, Reached, NEW t \in Task, AddFirst(t)
  PROVE  Reached'
<1>1. UNCHANGED request
  BY AddFirstLinked
<1>2. CASE Used' = Used /\ Adding' = Adding /\ this_request' = this_request
  BY <1>1, <1>2, ReachedKept
<1>3. CASE this_request' # NULL /\ Linked' = {this_request'}
  <2> HIDE DEF Linked
  <2> QED
    BY <1>3 DEF Reached
<1> QED
  BY <1>2, <1>3, AddFirstLinked

(* The second follows the head, which is still the only one (hd.c:351-352).*)
LEMMA Append2Linked ==
  ASSUME Inv, Reached, Prompt, NEW t \in Task, Append2(t)
  PROVE  /\ this_request' = this_request /\ this_request # NULL
         /\ slot[t] \in Slot /\ slot[t] # this_request
         /\ Linked' = {this_request, slot[t]}
         /\ request'[this_request].next = slot[t] /\ request'[slot[t]].next = NULL
<1>1. /\ TypeOK /\ current = t /\ pc[t] = "append" /\ Chain /\ AddedOf(t) /\ EnteredOf(t)
      /\ UNCHANGED <<slot, this_request>> /\ tmp[t] = this_request
  BY DEF Inv, Append2, At, Added, Entered, Prompt
<1>2. pc'[t] = "sorted" /\ \A u \in Task \ {t} : pc'[u] = pc[u] /\ slot'[u] = slot[u]
  BY <1>1 DEF TypeOK, Append2, Goto
<1>3. Adding = {slot[t]} /\ Adding' = {}
  BY <1>1, <1>2, OneAdding DEF Linking
<1>4. /\ slot[t] \in Used /\ slot[t] \in Slot /\ this_request \in Slot /\ slot[t] # this_request
      /\ request[this_request].next = NULL /\ this_request # NULL
      /\ request[slot[t]].next = NULL
  BY <1>1, Numbers DEF AddedOf, EnteredOf, Linking, Used
<1>5. this_request \in Used
  BY <1>1, <1>4 DEF Chain
<1>6. /\ \A s \in Slot : request'[s].used = request[s].used
      /\ request'[this_request].next = slot[t] /\ request'[slot[t]].next = NULL
  <2>1. request' = [request EXCEPT ![this_request].next = slot[t]]
    BY <1>1 DEF Append2
  <2>2. request \in [Slot -> Request]
    BY <1>1 DEF TypeOK
  <2>3. \A s \in Slot : s # this_request => request'[s] = request[s]
    BY <2>1, <2>2
  <2>4. request'[this_request] = [request[this_request] EXCEPT !.next = slot[t]]
        /\ request[this_request] \in Request
    BY <1>4, <2>1, <2>2
  <2>5. request'[this_request].next = slot[t]
        /\ request'[this_request].used = request[this_request].used
    BY <2>4 DEF Request
  <2>6. \A s \in Slot : request'[s].used = request[s].used
    BY <2>3, <2>5
  <2>7. request'[slot[t]] = request[slot[t]]
    BY <1>4, <2>3
  <2> QED
    BY <1>4, <2>5, <2>6, <2>7
<1>7. Used' = Used
  BY <1>6 DEF Used
<1>8. Linked = {this_request}
  <2>1. Closed({this_request}) /\ {this_request} \in SUBSET Linked
    BY <1>3, <1>4, <1>5 DEF Closed, Linked
  <2> QED
    BY <2>1 DEF Reached
<1>9. Linked' = {this_request, slot[t]}
  BY <1>3, <1>4, <1>7, <1>8 DEF Linked
<1> QED
  BY <1>1, <1>4, <1>6, <1>9

(* So it is reached from it.                                               *)
LEMMA Append2Reached ==
  ASSUME Inv, Reached, Prompt, NEW t \in Task, Append2(t)
  PROVE  Reached'
<1>1. /\ this_request' = this_request /\ this_request # NULL
      /\ Linked' = {this_request, slot[t]}
      /\ request'[this_request].next = slot[t] /\ slot[t] # NULL
  BY Append2Linked, Numbers
<1>2. ASSUME NEW S \in SUBSET Linked', this_request' \in S, Closed(S)'
      PROVE  S = Linked'
  <2>1. slot[t] \in S
    BY <1>1, <1>2 DEF Closed
  <2> HIDE DEF Linked
  <2> QED
    BY <1>1, <1>2, <2>1
<1> HIDE DEF Linked, Closed
<1> QED
  BY <1>1, <1>2 DEF Reached

(* A list that one follows from its head, or from the second entry.        *)
Starts(s) ==
  /\ s \in Linked
  /\ \/ s = this_request
     \/ this_request # NULL /\ this_request # s /\ request[this_request].next = s

(* What the search of add_request does after the i-th entry of its list L: *)
(* the first place where the request fits, or the end (hd.c:354-361).      *)
Inserted(t, L, i) ==
  /\ Fits(L, i, slot[t]) /\ \A j \in 1 .. i - 1 : ~Fits(L, j, slot[t])
  /\ L[i] \in Linked /\ slot[t] \notin Linked
  /\ slot[t] \in Used /\ request[slot[t]].next = NULL
  /\ this_request' = this_request /\ this_request # NULL /\ slot[t] # this_request
  /\ \A r \in Used : request[r].next # slot[t]
  /\ \A s \in Slot :
       /\ request'[s].used = request[s].used /\ request'[s].bh = request[s].bh
       /\ s \notin {slot[t], L[i]} => request'[s].next = request[s].next
  /\ request'[slot[t]].next = request[L[i]].next /\ request'[L[i]].next = slot[t]
  /\ Linked' = Linked \union {slot[t]}

(* It searches a list from the head or the second entry on.                *)
LEMMA InsertLinked ==
  ASSUME Inv, NEW t \in Task, Insert(t)
  PROVE  /\ Starts(tmp[t])
         /\ \E i \in 1 .. Len(List(tmp[t])) : Inserted(t, List(tmp[t]), i)
<1>1. /\ TypeOK /\ current = t /\ pc[t] = "search" /\ Chain /\ AddedOf(t) /\ EnteredOf(t)
      /\ UNCHANGED <<slot, this_request>>
  BY DEF Inv, Insert, At, Added, Entered
<1>2. pc'[t] = "sorted" /\ \A u \in Task \ {t} : pc'[u] = pc[u] /\ slot'[u] = slot[u]
  BY <1>1 DEF TypeOK, Insert, Goto
<1>3. Adding = {slot[t]} /\ Adding' = {}
  BY <1>1, <1>2, OneAdding DEF Linking
<1>4. /\ slot[t] \in Used /\ slot[t] \in Slot /\ slot[t] # this_request /\ slot[t] # NULL
      /\ request[slot[t]].next = NULL
      /\ \A r \in Used : request[r].next # slot[t]
      /\ tmp[t] \in Used /\ slot[t] # tmp[t] /\ this_request # NULL
      /\ \/ this_request = tmp[t]
         \/ this_request # tmp[t] /\ request[this_request].next = tmp[t]
  BY <1>1, Numbers DEF AddedOf, EnteredOf, Linking, Used
<1>5. Starts(tmp[t])
  BY <1>3, <1>4 DEF Starts, Linked
<1> DEFINE L == List(tmp[t])
<1>6. PICK i \in 1 .. Len(L) :
        /\ Fits(L, i, slot[t]) /\ \A j \in 1 .. i - 1 : ~Fits(L, j, slot[t])
        /\ request' = [request EXCEPT ![slot[t]].next = request[L[i]].next, ![L[i]].next = slot[t]]
  BY DEF Insert
<1>7. L[i] \in Used /\ L[i] # slot[t]
  BY <1>4, SearchMembers
<1> HIDE DEF L
<1>8. PICK l \in Used : l = L[i]
  BY <1>7
<1>9. /\ \A s \in Slot :
           /\ request'[s].used = request[s].used /\ request'[s].bh = request[s].bh
           /\ s \notin {slot[t], l} => request'[s].next = request[s].next
      /\ request'[slot[t]].next = request[l].next /\ request'[l].next = slot[t]
  <2> DEFINE R == [request EXCEPT ![slot[t]].next = request[l].next]
  <2>0. l \in Slot /\ slot[t] \in Slot /\ l # slot[t]
    BY <1>4, <1>7, <1>8 DEF Used
  <2>1. request[l].next \in Slot \union {NULL}
    BY <1>1, <2>0 DEF TypeOK, Request
  <2>2. /\ R \in [Slot -> Request]
        /\ \A s \in Slot :
             /\ R[s].used = request[s].used /\ R[s].bh = request[s].bh
             /\ s # slot[t] => R[s].next = request[s].next
        /\ R[slot[t]].next = request[l].next
    BY <1>1, <2>0, <2>1, SMTT(60) DEF TypeOK, Request
  <2>3. request' = [R EXCEPT ![l].next = slot[t]]
    BY <1>6, <1>8
  <2> HIDE DEF R
  <2>4. /\ \A s \in Slot :
             /\ request'[s].used = R[s].used /\ request'[s].bh = R[s].bh
             /\ s # l => request'[s].next = R[s].next
        /\ request'[l].next = slot[t]
    BY <2>0, <2>2, <2>3 DEF Request
  <2> QED
    BY <2>0, <2>2, <2>4
<1>10. Used' = Used
  BY <1>9 DEF Used
<1>11. l \in Linked /\ slot[t] \notin Linked /\ Linked' = Linked \union {slot[t]}
  BY <1>3, <1>4, <1>7, <1>8, <1>10 DEF Linked
<1>12. Inserted(t, L, i)
  BY <1>1, <1>4, <1>6, <1>8, <1>9, <1>11 DEF Inserted
<1> QED
  BY <1>5, <1>12 DEF L

(* The new request is reached from the one before it, and what came after  *)
(* that from it (hd.c:360-361).                                            *)
LEMMA InsertReached ==
  ASSUME Inv, Reached, NEW t \in Task, Insert(t)
  PROVE  Reached'
<1>1. PICK i \in 1 .. Len(List(tmp[t])) : Inserted(t, List(tmp[t]), i)
  BY InsertLinked
<1>2. PICK l \in Linked : l = List(tmp[t])[i]
  BY <1>1 DEF Inserted
<1>3. /\ slot[t] \in Used /\ slot[t] # this_request /\ slot[t] # NULL
      /\ this_request' = this_request /\ this_request # NULL
      /\ \A r \in Used : request[r].next # slot[t]
      /\ \A s \in Slot : s \notin {slot[t], l} => request'[s].next = request[s].next
      /\ request'[slot[t]].next = request[l].next /\ request'[l].next = slot[t]
      /\ slot[t] \notin Linked /\ Linked' = Linked \union {slot[t]}
  BY <1>1, <1>2, Numbers DEF Inserted, Used
<1>4. ASSUME NEW S \in SUBSET Linked', this_request' \in S, Closed(S)'
      PROVE  S = Linked'
  <2> DEFINE B == S \ {slot[t]}
  <2>1. B \in SUBSET Linked /\ this_request \in B
    BY <1>3, <1>4
  <2>2. \A s \in S : s \in Used /\ s \in Slot /\ (request'[s].next # NULL => request'[s].next \in S)
    BY <1>3, <1>4 DEF Closed, Linked, Used
  <2>3. ASSUME NEW s \in B, request[s].next # NULL
        PROVE  request[s].next \in B
    <3>1. request[s].next # slot[t]
      BY <1>3, <2>2
    <3>2. CASE s = l
      <4>1. slot[t] \in S
        BY <1>3, <2>2, <3>2
      <4> QED
        BY <1>3, <2>2, <2>3, <3>1, <3>2, <4>1
    <3>3. CASE s # l
      BY <1>3, <2>2, <2>3, <3>1, <3>3
    <3> QED
      BY <3>2, <3>3
  <2>4. Closed(B)
    BY <2>3 DEF Closed
  <2>5. B = Linked
    <3> HIDE DEF B
    <3> QED
      BY <2>1, <2>4 DEF Reached
  <2>6. slot[t] \in S
    BY <1>2, <1>3, <2>2, <2>5
  <2> QED
    BY <1>3, <2>5, <2>6
<1> HIDE DEF Linked, Closed
<1> QED
  BY <1>3, <1>4 DEF Reached

(* The other steps leave the list alone.                                   *)
LEMMA OtherLinked ==
  ASSUME Inv, NEW t \in Task,
         \/ \E rw \in {"READ", "WRITE"} : RwAbsHd(t, rw)
         \/ ScanFull(t) \/ SlotLink(t) \/ SlotSleep(t) \/ SlotWoken(t)
         \/ SortBegin(t) \/ AddSecond(t) \/ SortEnd(t) \/ Restart(t) \/ WaitOnBuffer(t)
  PROVE  Used' = Used /\ Adding' = Adding /\ UNCHANGED <<request, this_request>>
<1>1. /\ TypeOK /\ current \in {t, NULL} /\ UNCHANGED <<request, this_request>>
  BY DEF Inv, RwAbsHd, ScanFull, SlotLink, SlotSleep, SlotWoken, SortBegin, AddSecond, SortEnd,
         Restart, WaitOnBuffer, At, queue
<1>2. PICK p \in PC : pc' = [pc EXCEPT ![t] = p] /\ (p \in Linking <=> pc[t] \in Linking)
  BY DEF RwAbsHd, ScanFull, SlotLink, SlotSleep, SlotWoken, SortBegin, AddSecond, SortEnd,
         Restart, WaitOnBuffer, At, Goto, PC, Linking
<1>3. slot' = slot \/ (pc[t] \notin Linking /\ slot' = [slot EXCEPT ![t] = NULL])
  BY DEF RwAbsHd, ScanFull, SlotLink, SlotSleep, SlotWoken, SortBegin, AddSecond, SortEnd,
         Restart, WaitOnBuffer, At, Linking
<1>4. pc'[t] = p /\ \A u \in Task \ {t} : pc'[u] = pc[u] /\ slot'[u] = slot[u]
  BY <1>1, <1>2, <1>3 DEF TypeOK
<1>5. /\ Adding = IF pc[t] \in Linking THEN {slot[t]} ELSE {}
      /\ Adding' = IF pc'[t] \in Linking THEN {slot'[t]} ELSE {}
  BY <1>1, <1>4, OneAdding
<1>6. Adding' = Adding
  BY <1>2, <1>3, <1>4, <1>5
<1>7. Used' = Used
  BY <1>1 DEF Used
<1> QED
  BY <1>1, <1>6, <1>7

(* Every step keeps tmp at the head while no interrupt comes               *)
(* (hd.c:348-352).                                                         *)
LEMMA PromptStep ==
  ASSUME {"second", "append"} \subseteq Quiet, Inv, Prompt, [Next]_vars
  PROVE  Prompt'
<1>1. ASSUME NEW t \in Task, pc'[t] \in {"second", "append"}
      PROVE  tmp'[t] = this_request'
  <2>1. CASE HdInterrupt
    <3>1. pc' = pc /\ (current = t => pc[t] \notin Quiet)
      BY <2>1 DEF HdInterrupt, MayInterrupt
    <3>2. current = t
      BY <1>1, <3>1 DEF Inv, Places, PlacesOf, Away
    <3> QED
      BY <1>1, <3>1, <3>2
  <2>2. CASE UNCHANGED vars
    BY <1>1, <2>2 DEF vars, code, queue, Prompt
  <2>3. ASSUME NEW u \in Task, Run(u) \/ \E rw \in {"READ", "WRITE"} : RwAbsHd(u, rw)
        PROVE  tmp'[t] = this_request'
    <3>1. u = t
      <4>1. SUFFICES ASSUME u # t PROVE FALSE
        OBVIOUS
      <4>2. current \in {u, NULL} /\ pc'[t] = pc[t]
        BY <2>3, <4>1 DEF Run, AddRequest, ScanFull, ScanFound, SlotLink, SlotSleep, SlotWoken,
           SortBegin, AddFirst, AddSecond, Append2, Insert, SortEnd, Restart, WaitOnBuffer, RwAbsHd,
           At, Goto, Inv, TypeOK
      <4>3. pc[t] \in Away
        BY <4>1, <4>2, Numbers DEF Inv, Places, PlacesOf
      <4> QED
        BY <1>1, <4>2, <4>3 DEF Away
    <3>2. AddFirst(t) \/ AddSecond(t)
      BY <1>1, <2>3, <3>1 DEF Run, AddRequest, ScanFull, ScanFound, SlotLink, SlotSleep, SlotWoken,
           SortBegin, Append2, Insert, SortEnd, Restart, WaitOnBuffer, RwAbsHd,
           At, Goto, Inv, TypeOK
    <3>3. CASE AddFirst(t)
      <4>1. this_request # NULL
        BY <1>1, <3>3 DEF AddFirst, Goto, Inv, TypeOK
      <4> QED
        BY <3>3, <4>1 DEF AddFirst, Inv, TypeOK
    <3>4. CASE AddSecond(t)
      <4>1. request[tmp[t]].next = NULL
        BY <1>1, <3>4 DEF AddSecond, Goto, Inv, TypeOK
      <4>2. UNCHANGED <<tmp, this_request>> /\ pc[t] = "second"
        BY <3>4, <4>1 DEF AddSecond, queue, At
      <4> QED
        BY <4>2 DEF Prompt
    <3> QED
      BY <3>2, <3>3, <3>4
  <2> QED
    BY <2>1, <2>2, <2>3 DEF Next
<1> QED
  BY <1>1 DEF Prompt

(* Every step keeps every added request within reach.                      *)
LEMMA ReachedStep ==
  ASSUME {"second", "append"} \subseteq Quiet, Inv, Prompt, Reached, [Next]_vars
  PROVE  Reached'
<1>1. ASSUME NEW t \in Task, Run(t) \/ \E rw \in {"READ", "WRITE"} : RwAbsHd(t, rw)
      PROVE  Reached'
  <2>1. CASE ScanFound(t) \/ AddFirst(t) \/ Append2(t) \/ Insert(t)
    BY <2>1, ScanFoundReached, AddFirstReached, Append2Reached, InsertReached
  <2>2. CASE ~(ScanFound(t) \/ AddFirst(t) \/ Append2(t) \/ Insert(t))
    BY <1>1, <2>2, OtherLinked, ReachedKept DEF Run, AddRequest
  <2> QED
    BY <2>1, <2>2
<1>2. CASE HdInterrupt
  BY <1>2, InterruptReached
<1>3. CASE UNCHANGED vars
  <2>1. UNCHANGED <<pc, slot, request, this_request>>
    BY <1>3 DEF vars, code, queue
  <2> QED
    BY <2>1, ReachedKept DEF Used, Adding
<1> QED
  BY <1>1, <1>2, <1>3 DEF Next

(* Such a list: each of its entries was added, leads to the next one, and  *)
(* comes once; the last leads nowhere, and with the head they are all that *)
(* were added.                                                             *)
Whole(L, s) ==
  /\ L \in Seq(Slot) /\ Len(L) \in 1 .. NR_REQUEST /\ L[1] = s
  /\ \A i \in 1 .. Len(L) : L[i] \in Linked
  /\ \A i \in 1 .. Len(L) - 1 : request[L[i]].next = L[i + 1]
  /\ \A i, j \in 1 .. Len(L) : L[i] = L[j] => i = j
  /\ request[L[Len(L)]].next = NULL
  /\ Linked = Members(L) \union {this_request}

(* From a request that was added next leads to another that was, never to  *)
(* the head.                                                               *)
LEMMA LinkedNext ==
  ASSUME Inv
  PROVE  /\ this_request # NULL => this_request \in Linked
         /\ \A s \in Linked : request[s].next # NULL =>
              request[s].next \in Linked /\ request[s].next # this_request
         /\ \A r, s \in Linked : request[r].next = request[s].next /\ request[r].next # NULL => r = s
<1>1. Chain
  BY DEF Inv
<1>2. \A s \in Used : \A u \in Task :
        pc[u] \in Linking => slot[u] # this_request /\ request[s].next # slot[u]
  BY DEF Inv, Added, AddedOf
<1> QED
  BY <1>1, <1>2 DEF Chain, Linked, Adding, Linking

(* A list of as many entries as there are slots, all different, has every  *)
(* slot.                                                                   *)
LEMMA FullList ==
  ASSUME NEW len \in Nat, NEW f, \A i \in 1 .. len : f[i] \in Slot,
         \A i, j \in 1 .. len : f[i] = f[j] => i = j
  PROVE  /\ IsFiniteSet({f[i] : i \in 1 .. len}) /\ Cardinality({f[i] : i \in 1 .. len}) = len
         /\ len = NR_REQUEST => {f[i] : i \in 1 .. len} = Slot
<1> DEFINE M == {f[i] : i \in 1 .. len}
           g == [i \in 1 .. len |-> f[i]]
<1>1. g \in Bijection(1 .. len, M)
  <2>1. g \in [1 .. len -> M] /\ (\A x \in M : \E i \in 1 .. len : g[i] = x)
        /\ \A i, j \in 1 .. len : g[i] = g[j] => i = j
    OBVIOUS
  <2> HIDE DEF g, M
  <2> QED
    BY <2>1 DEF Bijection, Injection, IsInjective, Surjection
<1>2. \A n \in Nat : IsFiniteSet(1 .. n) /\ Cardinality(1 .. n) = n
  <2>1. TAKE n \in Nat
  <2>2. 1 \in Int /\ n \in Int
    OBVIOUS
  <2> QED
    BY <2>2, FS_Interval
<1>3. ExistsBijection(1 .. len, M)
  BY <1>1 DEF ExistsBijection
<1>4. M \subseteq Slot
  OBVIOUS
<1> HIDE DEF g, M
<1>5. IsFiniteSet(M) /\ Cardinality(M) = len
  <2>1. IsFiniteSet(1 .. len) /\ Cardinality(1 .. len) = len
    BY <1>2
  <2> QED
    BY <1>3, <2>1, FS_Bijection
<1>6. IsFiniteSet(Slot) /\ Cardinality(Slot) = NR_REQUEST
  BY <1>2, Numbers DEF Slot
<1>7. len = NR_REQUEST => M = Slot
  BY <1>4, <1>5, <1>6, FS_Subset
<1> QED
  BY <1>5, <1>7 DEF M

(* When all are in reach, the list has each once: it cannot come back to   *)
(* one, as no two requests lead to the same one and none leads to the head.*)
LEMMA ListWhole ==
  ASSUME Inv, Reached, NEW s, Starts(s)
  PROVE  Whole(List(s), s)
<1>0. /\ TypeOK /\ s \in Slot /\ s \in Linked /\ s # NULL /\ NR_REQUEST \in Nat \ {0}
      /\ this_request # NULL
      /\ s = this_request \/ (this_request # s /\ request[this_request].next = s)
  BY Numbers DEF Inv, Starts, Linked, Used
<1> DEFINE L == List(s)
           w == WalkFrom(s)
<1>1. /\ w \in [0 .. NR_REQUEST -> Slot \union {NULL}] /\ w[0] = s
      /\ \A n \in 1 .. NR_REQUEST : w[n] = Following[w[n - 1]]
  BY <1>0, WalkFacts
<1> HIDE DEF w
<1>2. PICK len \in 0 .. NR_REQUEST :
         /\ L = [i \in 1 .. len |-> w[i - 1]]
         /\ L \in Seq(Slot) /\ Len(L) = len
         /\ len = NR_REQUEST \/ w[len] = NULL
         /\ \A n \in 0 .. len - 1 : w[n] \in Slot
  BY <1>0, ListFacts DEF w
<1>3. len \in 1 .. NR_REQUEST
  BY <1>0, <1>1, <1>2
<1> HIDE DEF L
<1>4. L[1] = s /\ \A i \in 1 .. len : L[i] \in Slot /\ L[i] # NULL
  BY <1>1, <1>2, <1>3, Numbers
<1>5. \A i \in 1 .. len - 1 : request[L[i]].next = L[i + 1]
  <2>1. TAKE i \in 1 .. len - 1
  <2>2. /\ i \in 1 .. NR_REQUEST /\ i - 1 \in 0 .. len - 1
        /\ L[i] = w[i - 1] /\ L[i + 1] = w[i]
    <3>1. i \in 1 .. len /\ i + 1 \in 1 .. len /\ (i + 1) - 1 = i /\ i - 1 \in 0 .. len - 1
      BY <1>3
    <3>2. L[i] = w[i - 1] /\ L[i + 1] = w[(i + 1) - 1]
      BY <1>2, <3>1
    <3>3. i \in 1 .. NR_REQUEST
      BY <1>0, <1>3
    <3> QED
      BY <3>1, <3>2, <3>3
  <2>3. w[i] = Following[w[i - 1]] /\ w[i - 1] \in Slot /\ w[i - 1] # NULL
    BY <1>1, <1>2, <2>2, Numbers
  <2> QED
    BY <2>2, <2>3 DEF Following
<1>6. len # NR_REQUEST => request[L[len]].next = NULL
  <2>1. SUFFICES ASSUME len # NR_REQUEST PROVE request[L[len]].next = NULL
    OBVIOUS
  <2>2. /\ len \in 1 .. NR_REQUEST /\ len - 1 \in 0 .. len - 1
        /\ L[len] = w[len - 1] /\ w[len] = NULL
    BY <1>2, <1>3, <2>1
  <2>3. w[len] = Following[w[len - 1]] /\ w[len - 1] \in Slot /\ w[len - 1] # NULL
    BY <1>1, <1>2, <2>2, Numbers
  <2> QED
    BY <2>2, <2>3 DEF Following
<1>7. \A i \in 1 .. len : L[i] \in Linked
  <2> DEFINE T == {n \in 1 .. len : L[n] \notin Linked}
  <2>1. SUFFICES ASSUME T # {} PROVE FALSE
    OBVIOUS
  <2>2. PICK n \in T : \A m \in T : ~(m < n)
    <3>1. T \subseteq Nat
      OBVIOUS
    <3> HIDE DEF T
    <3> QED
      BY <2>1, <3>1, LeastNumber
  <2>3. n - 1 \in 1 .. len - 1 /\ (n - 1) + 1 = n
    BY <1>0, <1>4, <2>2
  <2>4. L[n - 1] \in Linked /\ request[L[n - 1]].next = L[n]
    BY <1>5, <2>2, <2>3
  <2>5. L[n] # NULL
    BY <1>4, <2>2
  <2> QED
    BY <2>2, <2>4, <2>5, LinkedNext
<1>8. \A i \in 1 .. len : L[i] = this_request => i = 1
  <2>1. ASSUME NEW i \in 1 .. len, L[i] = this_request, i # 1 PROVE FALSE
    <3>1. i - 1 \in 1 .. len - 1 /\ (i - 1) + 1 = i /\ i - 1 \in 1 .. len
      BY <1>3, <2>1
    <3>2. L[i - 1] \in Linked /\ request[L[i - 1]].next = this_request
      BY <1>5, <1>7, <2>1, <3>1
    <3> QED
      BY <1>0, <3>2, LinkedNext
  <2> QED
    BY <2>1
<1>9. \A i \in 2 .. len : L[i] # s
  <2>1. ASSUME NEW i \in 2 .. len, L[i] = s PROVE FALSE
    <3>1. i - 1 \in 1 .. len - 1 /\ (i - 1) + 1 = i /\ i - 1 \in 1 .. len /\ i \in 1 .. len
      BY <1>3, <2>1
    <3>2. L[i - 1] \in Linked /\ request[L[i - 1]].next = s
      BY <1>5, <1>7, <2>1, <3>1
    <3>3. s # this_request /\ L[i - 1] = this_request
      BY <1>0, <3>2, LinkedNext
    <3>4. i - 1 = 1
      BY <1>8, <3>1, <3>3
    <3> QED
      BY <1>4, <3>3, <3>4
  <2> QED
    BY <2>1
<1>10. \A i, j \in 1 .. len : i < j => L[i] # L[j]
  <2> DEFINE T == {i \in 1 .. len : \E j \in 1 .. len : i < j /\ L[i] = L[j]}
  <2>1. SUFFICES ASSUME T # {} PROVE FALSE
    OBVIOUS
  <2>2. PICK i \in T : \A m \in T : ~(m < i)
    <3>1. T \subseteq Nat
      OBVIOUS
    <3> HIDE DEF T
    <3> QED
      BY <2>1, <3>1, LeastNumber
  <2>3. PICK j \in 1 .. len : i < j /\ L[i] = L[j]
    BY <2>2
  <2>4. i # 1
    BY <1>4, <1>9, <2>3
  <2>5. /\ i - 1 \in 1 .. len - 1 /\ (i - 1) + 1 = i /\ i - 1 \in 1 .. len /\ i - 1 < i
        /\ j - 1 \in 1 .. len - 1 /\ (j - 1) + 1 = j /\ j - 1 \in 1 .. len /\ i - 1 < j - 1
    BY <1>3, <2>2, <2>3, <2>4
  <2>6. request[L[i - 1]].next = L[i] /\ request[L[j - 1]].next = L[j] /\ L[j] # NULL
    BY <1>4, <1>5, <2>3, <2>5
  <2>7. L[i - 1] \in Linked /\ L[j - 1] \in Linked
    BY <1>7, <2>5
  <2>8. L[i - 1] = L[j - 1]
    BY <2>3, <2>6, <2>7, LinkedNext
  <2>9. i - 1 \in T
    BY <2>5, <2>8
  <2> QED
    BY <2>2, <2>5, <2>9
<1>11. \A i, j \in 1 .. len : L[i] = L[j] => i = j
  <2>1. ASSUME NEW i \in 1 .. len, NEW j \in 1 .. len, L[i] = L[j], i # j PROVE FALSE
    <3>1. i < j \/ j < i
      BY <2>1
    <3> QED
      BY <1>10, <2>1, <3>1
  <2> QED
    BY <2>1
<1>12. Members(L) = {L[i] : i \in 1 .. len}
  BY <1>2 DEF Members
<1>13. request[L[len]].next = NULL
  <2>1. SUFFICES ASSUME len = NR_REQUEST, request[L[len]].next # NULL PROVE FALSE
    BY <1>6
  <2>2. \A i \in 1 .. len : L[i] \in Slot
    BY <1>4
  <2>3. Members(L) = Slot
    BY ONLY <1>0, <1>11, <1>12, <2>1, <2>2, FullList
  <2>4. len \in 1 .. len
    BY <1>3
  <2>5. /\ L[len] \in Linked /\ request[L[len]].next \in Linked
        /\ request[L[len]].next # this_request
    BY <1>7, <2>1, <2>4, LinkedNext
  <2>6. PICK k \in 1 .. len : request[L[len]].next = L[k]
    BY <1>12, <2>3, <2>5 DEF Linked, Used
  <2>7. CASE k = 1
    <3>1. s # this_request /\ request[L[len]].next = request[this_request].next
          /\ this_request \in Linked
      BY <1>0, <1>4, <2>5, <2>6, <2>7, LinkedNext
    <3>2. L[len] = this_request
      BY <2>1, <2>5, <3>1, LinkedNext
    <3>3. len = 1
      BY <1>8, <2>4, <3>2
    <3> QED
      BY <1>4, <3>1, <3>2, <3>3
  <2>8. CASE k # 1
    <3>1. k - 1 \in 1 .. len - 1 /\ (k - 1) + 1 = k /\ k - 1 \in 1 .. len /\ k - 1 # len
      BY <2>6, <2>8
    <3>2. L[k - 1] \in Linked /\ request[L[k - 1]].next = request[L[len]].next
      BY <1>5, <1>7, <2>6, <3>1
    <3>3. L[k - 1] = L[len]
      BY <2>1, <2>5, <3>2, LinkedNext
    <3> QED
      BY <1>11, <2>4, <3>1, <3>3
  <2> QED
    BY <2>7, <2>8
<1>14. Linked = Members(L) \union {this_request}
  <2> DEFINE S == Members(L) \union {this_request}
  <2>1. S \in SUBSET Linked
    BY <1>0, <1>7, <1>12, LinkedNext
  <2>2. \A i \in 1 .. len : request[L[i]].next # NULL => request[L[i]].next \in S
    <3>1. TAKE i \in 1 .. len
    <3>2. CASE i = len
      BY <1>13, <3>2
    <3>3. CASE i # len
      <4>1. i \in 1 .. len - 1 /\ i + 1 \in 1 .. len
        BY <3>3
      <4> QED
        BY <1>5, <1>12, <4>1
    <3> QED
      BY <3>2, <3>3
  <2>3. request[this_request].next # NULL => request[this_request].next \in S
    <3>1. 1 \in 1 .. len
      BY <1>3
    <3>2. s \in S
      BY <1>4, <1>12, <3>1
    <3>3. s = this_request => L[1] = this_request
      BY <1>4
    <3> QED
      BY <1>0, <2>2, <3>1, <3>2, <3>3
  <2>4. Closed(S)
    BY <1>12, <2>2, <2>3 DEF Closed
  <2> HIDE DEF S
  <2>5. S = Linked
    BY <2>1, <2>4 DEF Reached, S
  <2> QED
    BY <2>5 DEF S
<1> QED
  BY <1>2, <1>3, <1>4, <1>5, <1>7, <1>11, <1>13, <1>14 DEF Whole, L

(* So the list, followed from its head, has each request that was added    *)
(* once.                                                                   *)
LEMMA ReachedMeansIntact ==
  ASSUME Inv, Reached
  PROVE  QueueIntact
<1> DEFINE L == List(this_request)
<1>1. Members(L) = Linked /\ Cardinality(Members(L)) = Len(L)
  <2>1. CASE this_request = NULL
    <3>1. TypeOK /\ this_request \in Slot \union {NULL} /\ Linked = {}
      BY <2>1 DEF Inv, Reached
    <3>2. PICK len \in 0 .. NR_REQUEST :
             Len(L) = len /\ L \in Seq(Slot) /\ \A n \in 0 .. len - 1 : WalkFrom(this_request)[n] \in Slot
      BY <3>1, ListFacts
    <3>3. WalkFrom(this_request)[0] = NULL
      BY <2>1, <3>1, WalkFacts
    <3> HIDE DEF L
    <3>4. Len(L) = 0 /\ DOMAIN L = {}
      BY <3>2, <3>3, Numbers
    <3>5. Members(L) = {}
      BY <3>4 DEF Members
    <3> QED
      BY <3>1, <3>4, <3>5, FS_EmptySet
  <2>2. CASE this_request # NULL
    <3>1. Starts(this_request) /\ this_request \in Linked
      BY <2>2, LinkedNext DEF Starts
    <3>2. Whole(L, this_request)
      BY <3>1, ListWhole
    <3> HIDE DEF L
    <3>3. /\ L \in Seq(Slot) /\ Len(L) \in Nat /\ DOMAIN L = 1 .. Len(L) /\ 1 \in 1 .. Len(L)
          /\ L[1] = this_request /\ Linked = Members(L) \union {this_request}
          /\ \A i \in 1 .. Len(L) : L[i] \in Slot
          /\ \A i, j \in 1 .. Len(L) : L[i] = L[j] => i = j
      BY <3>2 DEF Whole
    <3>4. Members(L) = {L[i] : i \in 1 .. Len(L)}
      BY <3>3 DEF Members
    <3>5. Cardinality(Members(L)) = Len(L)
      <4> DEFINE n == Len(L)
      <4>1. /\ n \in Nat /\ Members(L) = {L[i] : i \in 1 .. n}
            /\ \A i \in 1 .. n : L[i] \in Slot
            /\ \A i, j \in 1 .. n : L[i] = L[j] => i = j
        BY <3>3, <3>4
      <4> HIDE DEF n
      <4>2. Cardinality(Members(L)) = n
        BY ONLY <4>1, FullList
      <4> QED
        BY <4>2 DEF n
    <3> QED
      BY <3>3, <3>4, <3>5
  <2> QED
    BY <2>1, <2>2
<1> HIDE DEF L
<1>2. \A s \in Slot \ Adding : request[s].used <=> s \in Members(L)
  <2>1. request \in [Slot -> Request]
    BY DEF Inv, TypeOK
  <2>2. \A s \in Slot : request[s].used \in BOOLEAN
    BY <2>1 DEF Request
  <2> QED
    BY <1>1, <2>2 DEF Linked, Used
<1> QED
  BY <1>1, <1>2 DEF QueueIntact, L

(* If the disk does not interrupt add_request between its lines 348 and    *)
(* 352, no request is ever lost from the list, or in it twice, or there    *)
(* when free. That the disk may interrupt there is what loses one: the run *)
(* lost shows it (hd.c:340-363).                                           *)
THEOREM QueueStaysIntact ==
  ASSUME {"second", "append"} \subseteq Quiet
  PROVE  Spec => []QueueIntact
<1> DEFINE I == Inv /\ Prompt /\ Reached
<1>1. Init => I
  <2> SUFFICES ASSUME Init PROVE I
    OBVIOUS
  <2>1. Used = {} /\ \A t \in Task : pc[t] = "user"
    BY DEF Init, Used, Empty
  <2> QED
    BY <2>1, InitInv DEF Prompt, Reached, Linked
<1>2. I /\ [Next]_vars => I'
  BY StepInv, PromptStep, ReachedStep
<1>3. I => QueueIntact
  BY ReachedMeansIntact
<1> QED
  BY <1>1, <1>2, <1>3, PTL DEF Spec

(* Where the list behind its head goes down, and the next sweep over the   *)
(* disk starts (hd.c:356).                                                 *)
Descents ==
  {s \in Linked \ {this_request} : request[s].next # NULL /\ ~InOrder(s, request[s].next)}

(* It does so once at most. TwoSweeps alone is not inductive: it says so   *)
(* only of the list as one reads it.                                       *)
OneDescent == \A r, s \in Descents : r = s

(* A step that takes from the list at most its head.                       *)
LEMMA DescentsKept ==
  ASSUME Inv, OneDescent, Linked' \ {this_request'} \subseteq Linked \ {this_request},
         \A s \in Linked \ {this_request} :
           request'[s].next = request[s].next /\ request'[s].bh = request[s].bh
  PROVE  OneDescent'
<1>1. ASSUME NEW s \in Linked' \ {this_request'}, request'[s].next # NULL,
             ~(request'[s].bh < request'[request'[s].next].bh)
      PROVE  s \in Descents
  <2>1. s \in Linked /\ s # this_request /\ request'[s].next = request[s].next
        /\ request'[s].bh = request[s].bh
    OBVIOUS
  <2>2. request[s].next \in Linked \ {this_request}
    BY <1>1, <2>1, LinkedNext
  <2>3. request'[request[s].next].bh = request[request[s].next].bh
    BY <2>2
  <2> QED
    BY <1>1, <2>1, <2>3 DEF Descents, InOrder
<1>2. Descents' \subseteq Descents
  BY <1>1 DEF Descents, InOrder
<1> QED
  BY <1>2 DEF OneDescent

(* Behind a head alone, or a head and its next, the list does not go down. *)
LEMMA DescentsFew ==
  ASSUME NEW s, Linked' \subseteq {this_request', s}
  PROVE  OneDescent'
BY DEF OneDescent, Descents

(* While the search goes on to the end of the list and the request fits    *)
(* before its last entry, the whole list is one sweep above it             *)
(* (hd.c:356-358).                                                         *)
LEMMA EndOfSweep ==
  ASSUME Inv, NEW L, NEW s, Whole(L, s), NEW r \in Used, r \notin Linked,
         \A j \in 1 .. Len(L) - 1 : ~Fits(L, j, r), ~InOrder(L[Len(L)], r)
  PROVE  \A j \in 1 .. Len(L) - 1 : InOrder(L[j], L[j + 1])
<1>0. /\ Len(L) \in Nat \ {0} /\ \A i \in 1 .. Len(L) : L[i] \in Linked
  BY Numbers DEF Whole
<1>1. \A q \in Linked : InOrder(q, r) \/ InOrder(r, q)
  <2>1. TAKE q \in Linked
  <2>2. q \in Used /\ q # r
    BY DEF Linked
  <2>3. request[q].bh \in Nat /\ request[r].bh \in Nat /\ request[q].bh # request[r].bh
    BY <2>2, Numbers DEF Inv, Locks
  <2> QED
    BY <2>3 DEF InOrder
<1>2. ASSUME NEW j \in 1 .. Len(L) - 1, InOrder(r, L[j + 1])
      PROVE  InOrder(L[j], L[j + 1]) /\ InOrder(r, L[j])
  <2>1. j < Len(L) /\ j \in 1 .. Len(L)
    BY <1>0
  <2>2. ~InOrder(L[j], r) /\ InOrder(L[j], L[j + 1])
    BY <1>2, <2>1 DEF Fits
  <2> QED
    BY <1>0, <1>1, <2>1, <2>2
<1> DEFINE n == Len(L)
           T == {k \in 0 .. n - 1 : ~InOrder(r, L[n - k])}
<1>3. T = {}
  <2>1. SUFFICES ASSUME T # {} PROVE FALSE
    OBVIOUS
  <2>2. PICK k \in T : \A m \in T : ~(m < k)
    <3>1. T \subseteq Nat
      OBVIOUS
    <3> HIDE DEF T
    <3> QED
      BY <2>1, <3>1, LeastNumber
  <2>3. InOrder(r, L[n])
    <3>1. n \in 1 .. n
      BY <1>0
    <3> QED
      BY <1>0, <1>1, <3>1
  <2>4. k # 0 /\ k \in 1 .. n - 1
    BY <1>0, <2>2, <2>3
  <2>5. k - 1 \in 0 .. n - 1 /\ k - 1 < k /\ n - k \in 1 .. n - 1 /\ (n - k) + 1 = n - (k - 1)
    BY <1>0, <2>4
  <2>6. InOrder(r, L[(n - k) + 1])
    BY <2>2, <2>5
  <2>7. InOrder(r, L[n - k])
    BY <1>2, <2>5, <2>6
  <2> QED
    BY <2>2, <2>7
<1>4. ASSUME NEW j \in 1 .. n - 1 PROVE InOrder(L[j], L[j + 1])
  <2>1. n - (j + 1) \in 0 .. n - 1 /\ n - (n - (j + 1)) = j + 1
    BY <1>0
  <2>2. InOrder(r, L[j + 1])
    BY <1>3, <2>1
  <2> QED
    BY <1>2, <2>2
<1> QED
  BY <1>4

(* Between two entries the request goes up from the first or takes the     *)
(* place of a descent, and up to the second; at the end of the list it     *)
(* goes up from the last, or begins the second sweep (hd.c:354-361).       *)
LEMMA InsertDescents ==
  ASSUME Inv, Reached, OneDescent, NEW t \in Task, Insert(t)
  PROVE  OneDescent'
<1>1. PICK L : Whole(L, tmp[t]) /\ \E i \in 1 .. Len(L) : Inserted(t, L, i)
  BY InsertLinked, ListWhole
<1>2. PICK i \in 1 .. Len(L) : Inserted(t, L, i)
  BY <1>1
<1>3. PICK l : l = L[i]
  OBVIOUS
<1>4. PICK r : r = slot[t]
  OBVIOUS
<1>5. /\ r \in Used /\ r \in Slot /\ r \notin Linked /\ l \in Linked /\ l \in Slot
      /\ this_request' = this_request /\ Linked' = Linked \union {r}
      /\ \A s \in Slot : request'[s].bh = request[s].bh
      /\ \A s \in Slot : s \notin {r, l} => request'[s].next = request[s].next
      /\ request'[r].next = request[l].next /\ request'[l].next = r
  BY <1>2, <1>3, <1>4 DEF Inserted, Linked, Used
<1>6. /\ Fits(L, i, r) /\ \A j \in 1 .. i - 1 : ~Fits(L, j, r)
  BY <1>2, <1>4 DEF Inserted
<1>7. /\ Len(L) \in Nat \ {0} /\ L \in Seq(Slot) /\ i \in Nat \ {0} /\ i <= Len(L)
      /\ \A j \in 1 .. Len(L) - 1 : request[L[j]].next = L[j + 1]
      /\ request[L[Len(L)]].next = NULL
      /\ Linked = Members(L) \union {this_request}
  BY <1>1, Numbers DEF Whole
<1>8. \A s \in Linked : s \in Slot /\ (request[s].next # NULL => request[s].next \in Slot)
  BY LinkedNext DEF Linked, Used
<1>9. ASSUME NEW a \in Descents', a \notin {r, l}
      PROVE  a \in Descents
  <2>1. a \in Linked /\ a # this_request /\ a \in Slot
    BY <1>5, <1>8, <1>9 DEF Descents
  <2>2. request'[a].next = request[a].next
    BY <1>5, <1>9, <2>1
  <2>3. request[a].next # NULL /\ ~(request'[a].bh < request'[request[a].next].bh)
    BY <2>2 DEF Descents, InOrder
  <2>4. ~(request[a].bh < request[request[a].next].bh)
    BY <1>5, <1>8, <2>1, <2>3
  <2> QED
    BY <2>1, <2>3, <2>4 DEF Descents, InOrder
<1>10. ASSUME r \in Descents'
       PROVE  request[l].next \in Slot /\ ~InOrder(r, request[l].next)
  <2>1. request[l].next # NULL /\ ~(request'[r].bh < request'[request[l].next].bh)
    BY <1>5, <1>10 DEF Descents, InOrder
  <2> QED
    BY <1>5, <1>8, <2>1 DEF InOrder
<1>11. l \in Descents' => ~InOrder(l, r) /\ l # this_request
  BY <1>5 DEF Descents, InOrder
<1>12. CASE i < Len(L)
  <2>1. i \in 1 .. Len(L) - 1 /\ request[l].next = L[i + 1]
    BY <1>3, <1>7, <1>12
  <2>2. (InOrder(l, r) \/ ~InOrder(l, L[i + 1])) /\ InOrder(r, L[i + 1])
    BY <1>3, <1>6, <1>12 DEF Fits
  <2>3. r \notin Descents'
    BY <1>10, <2>1, <2>2
  <2>4. l \in Descents' => l \in Descents
    <3>1. i + 1 \in 1 .. Len(L)
      BY <1>7, <2>1
    <3>2. L[i + 1] # NULL
      BY <1>7, <3>1, Numbers
    <3> QED
      BY <1>5, <1>11, <2>1, <2>2, <3>2 DEF Descents
  <2> QED
    BY <1>9, <2>3, <2>4 DEF OneDescent
<1>13. CASE i = Len(L)
  <2>1. request[l].next = NULL
    BY <1>3, <1>7, <1>13
  <2>2. r \notin Descents'
    BY <1>10, <2>1, Numbers
  <2>3. CASE InOrder(l, r)
    BY <1>9, <1>11, <2>2, <2>3 DEF OneDescent
  <2>4. CASE ~InOrder(l, r)
    <3>1. \A j \in 1 .. Len(L) - 1 : InOrder(L[j], L[j + 1])
      BY <1>1, <1>3, <1>5, <1>6, <1>13, <2>4, EndOfSweep
    <3>2. ASSUME NEW a \in Descents PROVE FALSE
      <4>1. a \in Members(L) /\ request[a].next # NULL /\ ~InOrder(a, request[a].next)
        BY <1>7 DEF Descents
      <4>2. PICK j \in 1 .. Len(L) : a = L[j]
        BY <1>7, <4>1 DEF Members
      <4>3. CASE j = Len(L)
        BY <1>7, <4>1, <4>2, <4>3
      <4>4. CASE j # Len(L)
        <5>1. j \in 1 .. Len(L) - 1
          BY <4>4
        <5> QED
          BY <1>7, <3>1, <4>1, <4>2, <5>1
      <4> QED
        BY <4>3, <4>4
    <3> QED
      BY <1>9, <2>2, <3>2 DEF OneDescent
  <2> QED
    BY <2>3, <2>4
<1> QED
  BY <1>7, <1>12, <1>13

(* Every step keeps the list behind its head at two sweeps.                *)
LEMMA DescentsStep ==
  ASSUME Inv, Prompt, Reached, OneDescent, [Next]_vars
  PROVE  OneDescent'
<1>0. \A s \in Linked : s \in Slot
  BY DEF Linked, Used
<1>1. ASSUME Used' = Used, Adding' = Adding, UNCHANGED <<request, this_request>>
      PROVE  OneDescent'
  <2>1. Linked' = Linked
    BY <1>1 DEF Linked
  <2> QED
    BY <1>1, <2>1, DescentsKept
<1>2. ASSUME NEW t \in Task, Run(t) \/ \E rw \in {"READ", "WRITE"} : RwAbsHd(t, rw)
      PROVE  OneDescent'
  <2>1. CASE ScanFound(t)
    BY <2>1, ScanFoundLinked, DescentsKept
  <2>2. CASE AddFirst(t)
    BY <1>1, <2>2, AddFirstLinked, DescentsFew
  <2>3. CASE Append2(t)
    BY <2>3, Append2Linked, DescentsFew
  <2>4. CASE Insert(t)
    BY <2>4, InsertDescents
  <2>5. CASE ~(ScanFound(t) \/ AddFirst(t) \/ Append2(t) \/ Insert(t))
    BY <1>1, <1>2, <2>5, OtherLinked DEF Run, AddRequest
  <2> QED
    BY <2>1, <2>2, <2>3, <2>4, <2>5
<1>3. CASE HdInterrupt
  <2>1. /\ \/ Linked' = Linked /\ this_request' = this_request
           \/ Linked' = Linked \ {this_request}
        /\ \A s \in Slot : request'[s].next = request[s].next
        /\ \A s \in Slot \ {this_request} : request'[s].bh = request[s].bh
    BY <1>3, InterruptLinked
  <2>2. Linked' \ {this_request'} \subseteq Linked \ {this_request}
    BY <2>1
  <2> QED
    BY <1>0, <2>1, <2>2, DescentsKept
<1>4. CASE UNCHANGED vars
  BY <1>1, <1>4 DEF vars, code, queue, Used, Adding
<1> QED
  BY <1>2, <1>3, <1>4 DEF Next

(* One descent among the requests is one in the list.                      *)
LEMMA OneDescentSweeps ==
  ASSUME Inv, Reached, OneDescent
  PROVE  TwoSweeps
<1>1. PICK L : L = List(this_request)
  OBVIOUS
<1>2. PICK D : D = {i \in 2 .. Len(L) - 1 : ~InOrder(L[i], L[i + 1])}
  OBVIOUS
<1>3. Len(L) \in Nat /\ \A i, j \in D : i = j
  <2>1. CASE this_request = NULL
    <3>1. TypeOK /\ this_request \in Slot \union {NULL}
      BY <2>1 DEF Inv
    <3>2. PICK len \in 0 .. NR_REQUEST :
             Len(L) = len /\ \A n \in 0 .. len - 1 : WalkFrom(this_request)[n] \in Slot
      BY <1>1, <3>1, ListFacts
    <3>3. WalkFrom(this_request)[0] = NULL
      BY <2>1, <3>1, WalkFacts
    <3>4. Len(L) = 0
      BY <3>2, <3>3, Numbers
    <3> QED
      BY <1>2, <3>4
  <2>2. CASE this_request # NULL
    <3>1. Starts(this_request)
      BY <2>2, LinkedNext DEF Starts
    <3>2. Whole(L, this_request)
      BY <1>1, <3>1, ListWhole
    <3>3. /\ Len(L) \in Nat \ {0} /\ L \in Seq(Slot) /\ L[1] = this_request
          /\ \A i \in 1 .. Len(L) : L[i] \in Linked
          /\ \A i \in 1 .. Len(L) - 1 : request[L[i]].next = L[i + 1]
          /\ \A i, j \in 1 .. Len(L) : L[i] = L[j] => i = j
      BY <3>2, Numbers DEF Whole
    <3>4. ASSUME NEW i \in D PROVE L[i] \in Descents /\ i \in 1 .. Len(L)
      <4>1. /\ i \in 1 .. Len(L) - 1 /\ i \in 1 .. Len(L) /\ i + 1 \in 1 .. Len(L) /\ i # 1
            /\ 1 \in 1 .. Len(L) /\ ~InOrder(L[i], L[i + 1])
        BY <1>2, <3>3
      <4>2. L[i] # this_request /\ L[i] \in Linked /\ L[i + 1] \in Slot
        BY <3>3, <4>1
      <4> QED
        BY <3>3, <4>1, <4>2, Numbers DEF Descents
    <3> QED
      BY <3>3, <3>4 DEF OneDescent
  <2> QED
    BY <2>1, <2>2
<1>4. Cardinality(D) <= 1
  <2>1. CASE D = {}
    BY <2>1, FS_EmptySet
  <2>2. CASE D # {}
    <3>1. PICK i \in D : TRUE
      BY <2>2
    <3>2. D = {i}
      BY <1>3, <3>1
    <3> QED
      BY <3>2, FS_Singleton
  <2> QED
    BY <2>1, <2>2
<1> QED
  BY <1>1, <1>2, <1>4 DEF TwoSweeps

(* If the disk does not interrupt add_request between its lines 348 and    *)
(* 352, the list behind its first entry is never more than two upward      *)
(* sweeps over the disk, however requests are added and finished meanwhile *)
(* (hd.c:354-361).                                                         *)
THEOREM SweepsStayTwo ==
  ASSUME {"second", "append"} \subseteq Quiet
  PROVE  Spec => []TwoSweeps
<1> DEFINE I == Inv /\ Prompt /\ Reached /\ OneDescent
<1>1. Init => I
  <2> SUFFICES ASSUME Init PROVE I
    OBVIOUS
  <2>1. Used = {} /\ \A t \in Task : pc[t] = "user"
    BY DEF Init, Used, Empty
  <2> QED
    BY <2>1, InitInv DEF Prompt, Reached, Linked, OneDescent, Descents
<1>2. I /\ [Next]_vars => I'
  BY StepInv, PromptStep, ReachedStep, DescentsStep
<1>3. I => TwoSweeps
  BY OneDescentSweeps
<1> QED
  BY <1>1, <1>2, <1>3, PTL DEF Spec

(* Who just linked itself into the queue is at its head.                   *)
LinkShown == \A t \in Task : pc[t] = "link" => wait_for_request = t

(* The queue of those who wait for a free request: a sleeper is at its     *)
(* head or remembered by one that will run (hd.c:252, 273, 292, 388;       *)
(* sched.c:116-136).                                                       *)
LEMMA WaiterStep ==
  ASSUME "link" \in Quiet, Inv, LinkShown, SlotWaiterReached, [Next]_vars
  PROVE  LinkShown' /\ SlotWaiterReached'
<1>1. CASE HdInterrupt
  <2>1. UNCHANGED <<current, pc, tmp>> /\ \A t \in Task : current = t => pc[t] # "link"
    BY <1>1 DEF HdInterrupt, MayInterrupt
  <2>2. \A t \in Task : pc[t] # "link"
    BY <2>1 DEF Inv, Places, PlacesOf, Away
  <2>3. Keeps \/ Finishes
    BY <1>1, InterruptKeeps DEF Interrupted
  <2>4. \A t \in asleep' : t \in asleep /\ (wait_for_request = t => wait_for_request' = t)
    BY <2>3 DEF Keeps, Finishes
  <2> QED
    BY <2>1, <2>2, <2>4 DEF LinkShown, SlotWaiterReached
<1>2. CASE UNCHANGED vars
  BY <1>2 DEF vars, code, LinkShown, SlotWaiterReached
<1>3. ASSUME NEW t \in Task, SlotLink(t)
      PROVE  LinkShown' /\ SlotWaiterReached'
  <2>1. /\ wait_for_request' = t /\ asleep' = asleep /\ current = t /\ pc[t] = "full"
        /\ pc'[t] = "link" /\ tmp'[t] = wait_for_request
        /\ \A u \in Task \ {t} : pc'[u] = pc[u] /\ tmp'[u] = tmp[u]
    BY <1>3 DEF SlotLink, At, Goto, Inv, TypeOK
  <2>2. \A u \in Task \ {t} : pc[u] # "link"
    BY <2>1 DEF Inv, Places, PlacesOf, Away
  <2>3. asleep \subseteq Task
    BY DEF Inv, TypeOK
  <2> QED
    BY <2>1, <2>2, <2>3 DEF LinkShown, SlotWaiterReached
<1>4. ASSUME NEW t \in Task, SlotSleep(t)
      PROVE  LinkShown' /\ SlotWaiterReached'
  <2>1. /\ wait_for_request' = wait_for_request /\ asleep' = asleep \union {t} /\ current = t
        /\ pc[t] = "link" /\ pc'[t] = "slept" /\ tmp' = tmp
        /\ \A u \in Task \ {t} : pc'[u] = pc[u]
    BY <1>4 DEF SlotSleep, At, Goto, Inv, TypeOK
  <2>2. asleep \subseteq Task
    BY DEF Inv, TypeOK
  <2> QED
    BY <2>1, <2>2 DEF LinkShown, SlotWaiterReached
<1>5. ASSUME NEW t \in Task, SlotWoken(t)
      PROVE  LinkShown' /\ SlotWaiterReached'
  <2>1. /\ wait_for_request' = wait_for_request /\ asleep' = asleep \ {tmp[t]}
        /\ pc[t] = "slept" /\ t \notin asleep /\ pc'[t] = "scan"
        /\ \A u \in Task \ {t} : pc'[u] = pc[u] /\ tmp'[u] = tmp[u]
    BY <1>5 DEF SlotWoken, Goto, Inv, TypeOK
  <2>2. asleep \subseteq Task
    BY DEF Inv, TypeOK
  <2> QED
    BY <2>1, <2>2 DEF LinkShown, SlotWaiterReached
<1>6. ASSUME NEW t \in Task,
             \/ \E rw \in {"READ", "WRITE"} : RwAbsHd(t, rw)
             \/ ScanFull(t) \/ ScanFound(t) \/ AddRequest(t) \/ WaitOnBuffer(t)
      PROVE  LinkShown' /\ SlotWaiterReached'
  <2>1. /\ pc[t] \notin {"link", "slept"} /\ pc'[t] \notin {"link", "slept"}
        /\ \A u \in Task \ {t} : pc'[u] = pc[u]
    BY <1>6 DEF RwAbsHd, ScanFull, ScanFound, AddRequest, SortBegin, AddFirst, AddSecond, Append2,
       Insert, SortEnd, Restart, WaitOnBuffer, At, Goto, Inv, TypeOK
  <2>2. \A u \in Task \ {t} : tmp'[u] = tmp[u]
    BY <1>6 DEF RwAbsHd, ScanFull, ScanFound, AddRequest, SortBegin, AddFirst, AddSecond, Append2,
       Insert, SortEnd, Restart, WaitOnBuffer, Inv, TypeOK
  <2>3. wait_for_request' = wait_for_request /\ asleep' \subseteq asleep \union {t}
    BY <1>6 DEF RwAbsHd, ScanFull, ScanFound, AddRequest, SortBegin, AddFirst, AddSecond, Append2,
       Insert, SortEnd, Restart, WaitOnBuffer
  <2>4. asleep \subseteq Task
    BY DEF Inv, TypeOK
  <2> QED
    BY <2>1, <2>2, <2>3, <2>4 DEF LinkShown, SlotWaiterReached
<1> QED
  BY <1>1, <1>2, <1>3, <1>4, <1>5, <1>6 DEF Next, Run

(* If the disk does not interrupt sleep_on between linking a task and      *)
(* letting it sleep, no task waits for a request that no wake_up will find *)
(* (hd.c:388).                                                             *)
THEOREM SlotWaiterFound ==
  ASSUME "link" \in Quiet
  PROVE  Spec => []SlotWaiterReached
<1> DEFINE I == Inv /\ LinkShown /\ SlotWaiterReached
<1>1. Init => I
  BY InitInv DEF Init, LinkShown, SlotWaiterReached
<1>2. I /\ [Next]_vars => I'
  BY StepInv, WaiterStep
<1> QED
  BY <1>1, <1>2, PTL DEF Spec

(* A buffer that is up to date has its block, and so has the disk.         *)
Stored == \A t \in Task : (buffer[t].uptodate => buffer[t].data = Block) /\ disk[t] = Block

(* What a write sends is the block.                                        *)
Written == \A s \in Used : request[s].cmd = "WRITE" => buffer[request[s].bh].data = Block

(* Only the head of the list is half through, while its command is carried *)
(* out; of a read the first half has come.                                 *)
Halfway ==
  \A s \in Used : request[s].nsector = 1 =>
    /\ s = this_request /\ ~Idle
    /\ request[s].cmd = "READ" => buffer[request[s].bh].data[0] = 0

(* The command is that of the head of the list, and the sectors go in      *)
(* order, each with its data.                                              *)
Transferring ==
  ~Idle => /\ drive.op = First.cmd /\ drive.left = 2 - drive.at
           /\ drive.op = "WRITE" => drive.data = drive.at

(* Where the data are, whatever is interrupted.                            *)
Data == Stored /\ Written /\ Halfway /\ Transferring

(* A block is made of its two halves.                                      *)
LEMMA BlockContent == Block \in Content /\ Block[0] = 0 /\ Block[1] = 1
BY DEF Block, Content, Half

(* do_request() begins with the first sector, and sends the first half     *)
(* (hd.c:309-324).                                                         *)
LEMMA DoRequestData ==
  ASSUME NEW s, NEW R, DoRequest(s, R),
         s # NULL => /\ R[s].nsector = 2
                     /\ R[s].cmd = "WRITE" => buffer[R[s].bh].data = Block
  PROVE  ~Idle' =>
           /\ ~sorting /\ s # NULL /\ drive'.op = R[s].cmd /\ drive'.left = 2 - drive'.at
           /\ drive'.op = "WRITE" => drive'.data = drive'.at
<1>1. SUFFICES ASSUME ~Idle'
               PROVE  /\ ~sorting /\ s # NULL /\ drive'.op = R[s].cmd /\ drive'.left = 2 - drive'.at
                      /\ drive'.op = "WRITE" => drive'.data = drive'.at
  OBVIOUS
<1>2. Specify.op = "SPECIFY"
  BY DEF Specify
<1>3. ~sorting /\ s # NULL /\ drive' = Start(R[s])
  BY <1>1, <1>2 DEF DoRequest, Reset, Idle
<1>4. HalfOf(R[s]) = 0
  BY <1>3 DEF HalfOf
<1>5. /\ Start(R[s]).op = R[s].cmd /\ Start(R[s]).left = 2 /\ Start(R[s]).at = 0
      /\ R[s].cmd = "WRITE" => Start(R[s]).data = 0
  BY <1>3, <1>4, BlockContent DEF Start
<1> QED
  BY <1>3, <1>5

(* The first sector went to, or came from, the first half (hd.c:265-270,   *)
(* 286-289).                                                               *)
LEMMA MoreToComeData ==
  ASSUME Inv, Data, ~Idle, First.nsector > 1, NEW e \in 0 .. MAX_ERRORS, NEW b \in BufferHead,
         b.lock = buffer[First.bh].lock, MoreToCome(e, b), b.uptodate \/ First.cmd = "WRITE" => b.data = Block,
         First.cmd = "READ" => b.data[0] = 0, \A t \in Task : disk'[t] = Block
  PROVE  Data'
<1>1. /\ Keeps
      /\ drive' # NULL /\ drive'.op = drive.op /\ drive'.left = 1
      /\ request'[this_request].nsector = 1
      /\ drive'.at = 1 /\ drive'.data = buffer[First.bh].data[1]
  BY MoreToComeKeeps
<1>2. /\ this_request \in Used /\ this_request \in Slot /\ First.bh \in Task
      /\ buffer[First.bh] \in BufferHead
  BY Serves
<1>3. buffer' = [buffer EXCEPT ![First.bh] = b]
  BY DEF MoreToCome
<1>4. /\ buffer'[First.bh] = b
      /\ \A t \in Task : t # First.bh => buffer'[t] = buffer[t]
  BY <1>2, <1>3 DEF Inv, TypeOK
<1>5. /\ this_request' = this_request
      /\ \A s \in Slot : /\ request'[s].used = request[s].used /\ request'[s].bh = request[s].bh
                         /\ request'[s].cmd = request[s].cmd
                         /\ s # this_request => request'[s].nsector = request[s].nsector
  BY <1>1 DEF Keeps
<1>6. Used' = Used /\ \A s \in Used : s \in Slot
  BY <1>5 DEF Used
<1>7. ~Idle'
  BY <1>1 DEF Idle
<1>8. Stored'
  BY <1>4 DEF Stored, Data
<1>9. \A s \in Used : s # this_request => request[s].bh \in Task /\ request[s].bh # First.bh
  BY <1>2 DEF Inv, Locks, First
<1> HIDE DEF Used, Idle
<1>10. Written'
  BY <1>2, <1>4, <1>5, <1>6, <1>9 DEF Written, Data, First
<1>11. Halfway'
  BY <1>1, <1>2, <1>4, <1>5, <1>6, <1>7, <1>9 DEF Halfway, Data, First
<1>12. Transferring'
  <2>1. First'.cmd = First.cmd
    BY <1>2, <1>5 DEF First
  <2>2. drive.op = First.cmd
    BY DEF Data, Transferring
  <2>3. drive.op = "WRITE" => drive'.data = 1
    BY <1>1, <1>2, <2>2, BlockContent DEF Data, Written, First
  <2> QED
    BY <1>1, <2>1, <2>2, <2>3 DEF Transferring
<1> QED
  BY <1>8, <1>10, <1>11, <1>12 DEF Data

(* The end of a request whose buffer is either whole or not marked up to   *)
(* date (hd.c:249-255, 271-277, 290-296).                                  *)
LEMMA FinishData ==
  ASSUME Inv, Data, ~Idle, NEW b \in BufferHead, b.lock = FALSE, Finish(b), b.uptodate => b.data = Block,
         request' = [request EXCEPT ![this_request] = Empty(@.next)],
         \A t \in Task : disk'[t] = Block, 
         Idle' \/ DoRequest(this_request', request')
  PROVE  Data'
<1>1. /\ this_request' = First.next
      /\ this_request' # NULL => /\ this_request' # this_request
                                 /\ request'[this_request'] = request[this_request']
                                 /\ this_request' \in Used
  BY FinishFacts
<1>2. /\ this_request \in Used /\ this_request \in Slot /\ First.bh \in Task
  BY Serves
<1>3. /\ buffer'[First.bh] = b
      /\ \A t \in Task : t # First.bh => buffer'[t] = buffer[t]
  BY <1>2 DEF Inv, TypeOK, Finish
<1>4. /\ ~request'[this_request].used
      /\ \A s \in Slot : s # this_request => request'[s] = request[s]
  BY <1>2 DEF Inv, TypeOK, Empty
<1>5. Used' = Used \ {this_request} /\ \A s \in Used : s \in Slot
  BY <1>4 DEF Used
<1>6. \A s \in Used : s # this_request =>
         request[s].bh \in Task /\ request[s].bh # First.bh /\ request[s].nsector # 1
  BY <1>2 DEF Inv, Locks, First, Data, Halfway
<1>7. Stored'
  BY <1>3 DEF Stored, Data
<1> HIDE DEF Used
<1>8. Written'
  BY <1>3, <1>4, <1>5, <1>6 DEF Written, Data
<1>9. Halfway'
  BY <1>4, <1>5, <1>6 DEF Halfway
<1>10. Transferring'
  <2>1. CASE Idle'
    BY <2>1 DEF Transferring
  <2>2. CASE DoRequest(this_request', request')
    <3>1. this_request' # NULL =>
            /\ request'[this_request'].nsector = 2
            /\ request'[this_request'].cmd = "WRITE" => buffer[request'[this_request'].bh].data = Block
      <4>1. SUFFICES ASSUME this_request' # NULL
                     PROVE  /\ request[this_request'].nsector = 2
                            /\ request[this_request'].cmd = "WRITE" => buffer[request[this_request'].bh].data = Block
        BY <1>1
      <4>2. request[this_request'].nsector # 1 /\ request[this_request'].nsector # 0
        BY <1>1, <1>6, <4>1 DEF Inv, Locks
      <4>3. request[this_request'] \in Request
        BY <1>1, <1>5, <4>1 DEF Inv, TypeOK
      <4>4. request[this_request'].nsector = 2
        BY <4>2, <4>3 DEF Request
      <4> QED
        BY <1>1, <4>1, <4>4 DEF Data, Written
    <3>2. PICK s, R : s = this_request' /\ R = request'
      OBVIOUS
    <3>3. ~Idle' => /\ drive'.op = R[s].cmd /\ drive'.left = 2 - drive'.at
                    /\ drive'.op = "WRITE" => drive'.data = drive'.at
      <4>1. DoRequest(s, R) /\ (s # NULL => R[s].nsector = 2 /\ (R[s].cmd = "WRITE" => buffer[R[s].bh].data = Block))
        BY <2>2, <3>1, <3>2
      <4> QED
        BY <4>1, DoRequestData
    <3> QED
      BY <3>2, <3>3 DEF Transferring, First
  <2> QED
    BY <2>1, <2>2
<1> QED
  BY <1>7, <1>8, <1>9, <1>10 DEF Data

(* read_intr() puts each half in its place (hd.c:265-272).                 *)
LEMMA ReadIntrData ==
  ASSUME Inv, Data, drive # NULL, ReadIntr, UNCHANGED sorting
  PROVE  Data'
<1> DEFINE c == [buffer[First.bh].data EXCEPT ![HalfOf(First)] = disk[drive.bh][drive.at]]
           b == Transferred(c)
<1>1. ~Idle
  BY NullAssumption DEF Idle, ReadIntr, Inv, Drive, HandlerReady
<1>2. HalfOf(First) \in Half /\ drive.at \in Half /\ drive.bh \in Task
  BY <1>1, HalfSent
<1>3. /\ First.bh \in Task /\ First.nsector \in {1, 2} /\ buffer[First.bh] \in BufferHead
      /\ First.nsector = drive.left /\ this_request \in Used /\ First \in Request /\ drive \in Command
  BY <1>1, Serves
<1>4. /\ drive.op = First.cmd /\ drive.left = 2 - drive.at /\ disk[drive.bh] = Block
  BY <1>1, <1>2 DEF Data, Stored, Transferring
<1>5. (IF First.nsector > 1 THEN MoreToCome(0, b) ELSE LastOne(b)) /\ UNCHANGED disk
  BY DEF ReadIntr
<1>6. First.cmd = "READ"
  BY <1>1, <1>3, <1>4, Serves DEF ReadIntr, Request
<1>7. /\ c \in Content /\ c[HalfOf(First)] = drive.at
      /\ \A h \in Half : h # HalfOf(First) => c[h] = buffer[First.bh].data[h]
  BY <1>2, <1>3, <1>4, BlockContent DEF BufferHead, Content, Block
<1>8. b \in BufferHead /\ b.data = c /\ b.lock = buffer[First.bh].lock /\ b.uptodate = buffer[First.bh].uptodate
  <2> HIDE DEF c
  <2> QED
    BY <1>3, <1>7 DEF Transferred, BufferHead
<1>9. buffer[First.bh].uptodate => buffer[First.bh].data = Block
  BY <1>3 DEF Data, Stored
<1>10. \A t \in Task : disk'[t] = Block
  BY <1>5 DEF Data, Stored
<1> HIDE DEF c, b
<1>11. CASE First.nsector > 1
  <2>1. drive.at = 0 /\ HalfOf(First) = 0 /\ c[0] = 0
    BY <1>2, <1>3, <1>4, <1>7, <1>11 DEF HalfOf, Half
  <2>2. b.uptodate => b.data = Block
    <3>1. SUFFICES ASSUME b.uptodate PROVE c = Block
      BY <1>8
    <3>2. \A h \in Half : c[h] = Block[h]
      BY <1>7, <1>8, <1>9, <2>1, <3>1, BlockContent
    <3> QED
      BY <1>7, <3>2, BlockContent DEF Content
  <2>3. 0 \in 0 .. MAX_ERRORS /\ MoreToCome(0, b)
    BY <1>5, <1>11, HdAssumption
  <2>4. /\ b.uptodate \/ First.cmd = "WRITE" => b.data = Block
        /\ First.cmd = "READ" => b.data[0] = 0
    BY <1>6, <1>8, <2>1, <2>2
  <2> QED
    BY <1>1, <1>8, <1>10, <1>11, <2>3, <2>4, MoreToComeData
<1>12. CASE ~(First.nsector > 1)
  <2>1. First.nsector = 1 /\ drive.at = 1 /\ HalfOf(First) = 1 /\ c[1] = 1
    BY <1>2, <1>3, <1>4, <1>7, <1>12 DEF HalfOf, Half
  <2>2. buffer[First.bh].data[0] = 0
    BY <1>3, <1>6, <2>1 DEF Data, Halfway, First
  <2>3. c = Block
    <3>1. \A h \in Half : c[h] = Block[h]
      BY <1>7, <2>1, <2>2, BlockContent DEF Half
    <3> QED
      BY <1>7, <3>1, BlockContent DEF Content
  <2> DEFINE d == Done(b)
  <2>4. d \in BufferHead /\ d.lock = FALSE /\ (d.uptodate => d.data = Block)
    BY <1>8, <2>3 DEF Done, BufferHead
  <2>5. Finish(d) /\ request' = [request EXCEPT ![this_request] = Empty(@.next)]
        /\ DoRequest(this_request', request')
    BY <1>5, <1>12 DEF LastOne
  <2> HIDE DEF d
  <2> QED
    BY <1>1, <1>10, <2>4, <2>5, FinishData
<1> QED
  BY <1>11, <1>12

(* write_intr() has the second half sent (hd.c:286-291).                   *)
LEMMA WriteIntrData ==
  ASSUME Inv, Data, drive # NULL, WriteIntr, UNCHANGED sorting
  PROVE  Data'
<1> DEFINE b == buffer[First.bh]
           e == First.errors
<1>1. ~Idle
  BY NullAssumption DEF Idle, WriteIntr, Inv, Drive, HandlerReady
<1>2. drive.at \in Half /\ drive.bh \in Task /\ e \in 0 .. MAX_ERRORS
  BY <1>1, HalfSent
<1>3. /\ First.bh \in Task /\ First.nsector \in {1, 2} /\ b \in BufferHead
      /\ First.nsector = drive.left /\ this_request \in Used /\ First \in Request /\ drive \in Command
      /\ drive.op # "READ"
  BY <1>1, Serves DEF WriteIntr
<1>4. drive.op = First.cmd /\ First.cmd = "WRITE" /\ drive.data = drive.at /\ disk[drive.bh] = Block
  BY <1>1, <1>2, <1>3 DEF Data, Stored, Transferring, Request
<1>5. \A t \in Task : disk'[t] = Block
  <2>1. disk' = [disk EXCEPT ![drive.bh] = [disk[drive.bh] EXCEPT ![drive.at] = drive.data]]
    BY DEF WriteIntr
  <2>2. disk \in [Task -> Content]
    BY DEF Inv, TypeOK
  <2>3. [Block EXCEPT ![drive.at] = drive.at] = Block
    BY <1>2 DEF Block
  <2> QED
    BY <1>2, <1>4, <2>1, <2>2, <2>3 DEF Data, Stored
<1>6. b.data = Block
  BY <1>3, <1>4 DEF Data, Written, First
<1>7. IF First.nsector > 1 THEN MoreToCome(e, b) ELSE LastOne(b)
  BY DEF WriteIntr
<1>8. b.lock = buffer[First.bh].lock
  OBVIOUS
<1> HIDE DEF b, e
<1>9. CASE First.nsector > 1
  <2>1. /\ b.uptodate \/ First.cmd = "WRITE" => b.data = Block
        /\ First.cmd = "READ" => b.data[0] = 0
    BY <1>6, BlockContent
  <2> QED
    BY <1>1, <1>2, <1>3, <1>5, <1>7, <1>8, <1>9, <2>1, MoreToComeData
<1>10. CASE ~(First.nsector > 1)
  <2> DEFINE d == Done(b)
  <2>1. d \in BufferHead /\ d.lock = FALSE /\ (d.uptodate => d.data = Block)
    BY <1>3, <1>6 DEF Done, BufferHead
  <2>2. Finish(d) /\ request' = [request EXCEPT ![this_request] = Empty(@.next)]
        /\ DoRequest(this_request', request')
    BY <1>7, <1>10 DEF LastOne
  <2> HIDE DEF d
  <2> QED
    BY <1>1, <1>5, <2>1, <2>2, FinishData
<1> QED
  BY <1>9, <1>10

(* bad_rw_intr(), if only a first sector fails: the request is tried again *)
(* from its beginning, or given up and not marked up to date               *)
(* (hd.c:245-257).                                                         *)
LEMMA BadRwIntrData ==
  ASSUME 1 \notin FaultySector, Inv, Data, drive # NULL, BadRwIntr
  PROVE  Data'
<1>1. ~Idle
  BY NullAssumption DEF Idle, BadRwIntr, Inv, Drive, HandlerReady
<1>2. /\ this_request \in Slot /\ First \in Request /\ First.bh \in Task /\ buffer[First.bh] \in BufferHead
      /\ this_request \in Used /\ First.nsector = drive.left /\ drive.at \in Half
  BY <1>1, Serves, HalfSent
<1>3. First.nsector = 2
  BY <1>1, <1>2 DEF BadRwIntr, Half, Data, Transferring
<1>4. Idle' /\ \A t \in Task : disk'[t] = Block
  BY ResetReady DEF BadRwIntr, Data, Stored
<1>5. request \in [Slot -> Request]
  BY DEF Inv, TypeOK
<1>6. CASE GivesUp
  <2> DEFINE b == [buffer[First.bh] EXCEPT !.lock = FALSE, !.uptodate = FALSE]
             c == [buffer[First.bh] EXCEPT !.lock = FALSE]
             d == [c EXCEPT !.uptodate = FALSE]
             R == [request EXCEPT ![this_request].errors = @ + 1]
  <2>1. c \in BufferHead /\ c.lock = FALSE
    BY <1>2 DEF BufferHead
  <2>2. d = b
    OBVIOUS
  <2>3. d \in BufferHead /\ d.lock = FALSE /\ ~d.uptodate
    <3> HIDE DEF c
    <3> QED
      BY <2>1 DEF BufferHead
  <2>4. Finish(b) /\ request' = [R EXCEPT ![this_request] = Empty(R[this_request].next)]
    BY <1>6 DEF BadRwIntr
  <2>5. R = [request EXCEPT ![this_request] = R[this_request]]
        /\ R[this_request].next = request[this_request].next
    BY <1>2, <1>5 DEF Request
  <2>6. request' = [request EXCEPT ![this_request] = Empty(@.next)]
    <3> HIDE DEF R
    <3> QED
      BY <1>2, <1>5, <2>4, <2>5
  <2>7. b \in BufferHead /\ b.lock = FALSE /\ (b.uptodate => b.data = Block)
    BY <2>2, <2>3
  <2> HIDE DEF b
  <2> QED
    BY <1>1, <1>4, <2>4, <2>6, <2>7, FinishData
<1>7. CASE ~GivesUp
  <2> DEFINE r == [First EXCEPT !.errors = First.errors + 1]
  <2>1. r.used = First.used /\ r.bh = First.bh /\ r.cmd = First.cmd /\ r.nsector = First.nsector
    BY <1>2 DEF Request
  <2>2. request' = [request EXCEPT ![this_request] = r]
    <3>1. request' = [request EXCEPT ![this_request].errors = @ + 1]
      BY <1>7 DEF BadRwIntr
    <3> QED
      BY <3>1, <1>2, <1>5 DEF First
  <2>3. UNCHANGED <<buffer, this_request>>
    BY <1>7 DEF BadRwIntr
  <2> HIDE DEF r
  <2>4. \A s \in Slot :
           /\ request'[s].used = request[s].used /\ request'[s].bh = request[s].bh
           /\ request'[s].cmd = request[s].cmd
           /\ request'[s].nsector = request[s].nsector
    BY <1>2, <1>5, <2>1, <2>2 DEF First
  <2>5. Used' = Used /\ \A s \in Used : s \in Slot
    BY <2>4 DEF Used
  <2>6. \A s \in Used : request[s].nsector # 1
    BY <1>3 DEF Data, Halfway, First
  <2> HIDE DEF Used
  <2> QED
    BY <1>4, <2>3, <2>4, <2>5, <2>6 DEF Data, Stored, Written, Halfway, Transferring
<1> QED
  BY <1>6, <1>7

(* do_request() with the controller idle.                                  *)
LEMMA StartedData ==
  ASSUME Inv, Data, Idle, DoRequest(this_request, request), UNCHANGED <<request, this_request, buffer, disk>>
  PROVE  Data'
<1>1. \A s \in Used : request[s].nsector # 1
  BY DEF Data, Halfway
<1>2. this_request # NULL => /\ request[this_request].nsector = 2
                             /\ request[this_request].cmd = "WRITE" => buffer[request[this_request].bh].data = Block
  <2>1. SUFFICES ASSUME this_request # NULL
                 PROVE  /\ request[this_request].nsector = 2
                        /\ request[this_request].cmd = "WRITE" => buffer[request[this_request].bh].data = Block
    OBVIOUS
  <2>2. this_request \in Used /\ request[this_request].nsector # 0
    BY <2>1 DEF Inv, Chain, Locks
  <2>3. request[this_request] \in Request
    BY <2>2 DEF Inv, TypeOK, Used
  <2>4. request[this_request].nsector = 2
    BY <1>1, <2>2, <2>3 DEF Request
  <2> QED
    BY <2>2, <2>4 DEF Data, Written
<1>3. ~Idle' => /\ drive'.op = First.cmd /\ drive'.left = 2 - drive'.at
                /\ drive'.op = "WRITE" => drive'.data = drive'.at
  BY <1>2, DoRequestData DEF First
<1> QED
  BY <1>1, <1>3 DEF Data, Stored, Written, Halfway, Transferring, Used, First

(* Every interrupt keeps the data where the flags say.                     *)
LEMMA InterruptData ==
  ASSUME 1 \notin FaultySector, Inv, Data, HdInterrupt
  PROVE  Data'
<1>1. drive # NULL /\ UNCHANGED sorting /\ (ReadIntr \/ WriteIntr \/ BadRwIntr \/ ResetIntr)
  BY DEF HdInterrupt
<1>2. CASE ResetIntr
  <2>1. Idle
    BY <1>1, <1>2 DEF Idle, Inv, Drive, HandlerReady, ResetIntr
  <2> QED
    BY <1>2, <2>1, StartedData DEF ResetIntr
<1> QED
  BY <1>1, <1>2, ReadIntrData, WriteIntrData, BadRwIntrData

(* A step that moves no data, nor a request in the middle of its transfer. *)
LEMMA SameData ==
  ASSUME Inv, Data, UNCHANGED <<buffer, disk, drive>>, Used' = Used,
         this_request' = this_request \/ this_request = NULL,
         \A s \in Slot : /\ request'[s].cmd = request[s].cmd /\ request'[s].bh = request[s].bh
                         /\ request'[s].nsector = request[s].nsector
  PROVE  Data'
<1>1. this_request = NULL => Idle /\ \A s \in Used : request[s].nsector # 1
  BY DEF Inv, Drive, HandlerReady, Data, Halfway, Idle
<1>2. Idle' = Idle /\ \A s \in Used : s \in Slot
  BY DEF Idle, Used
<1>3. ~Idle => this_request \in Slot
  BY Serves
<1> HIDE DEF Used, Idle
<1>4. Halfway'
  BY <1>1, <1>2 DEF Data, Halfway
<1>5. Transferring'
  BY <1>1, <1>2, <1>3 DEF Data, Transferring, First
<1> QED
  BY <1>2, <1>4, <1>5 DEF Data, Stored, Written

(* No step of a task moves data, but to fill its buffer before it writes   *)
(* (hd.c:375-402).                                                         *)
LEMMA TaskData ==
  ASSUME Inv, Data, NEW t \in Task, Run(t) \/ \E rw \in {"READ", "WRITE"} : RwAbsHd(t, rw)
  PROVE  Data'
<1>0. TypeOK
  BY DEF Inv
<1>1. ASSUME NEW rw \in {"READ", "WRITE"}, RwAbsHd(t, rw) PROVE Data'
  <2>1. /\ pc[t] = "user" /\ UNCHANGED <<request, this_request, drive, disk>>
        /\ \A u \in Task \ {t} : buffer'[u] = buffer[u]
        /\ buffer'[t].uptodate => buffer'[t].data = Block
    BY <1>0, <1>1 DEF RwAbsHd, queue, hardware, TypeOK
  <2>2. \A s \in Used : request[s].bh # t /\ request[s].bh \in Task
    BY <2>1 DEF Inv, Places, PlacesOf, Locks
  <2>3. Used' = Used /\ Idle' = Idle /\ First' = First
    BY <2>1 DEF Used, Idle, First
  <2> HIDE DEF Used, Idle, First
  <2> QED
    BY <2>1, <2>2, <2>3 DEF Data, Stored, Written, Halfway, Transferring
<1>2. ASSUME ScanFound(t) PROVE Data'
  <2> DEFINE c == IF buffer[t].uptodate THEN "WRITE" ELSE "READ"
             new == [used |-> TRUE, cmd |-> c, nsector |-> 2, bh |-> t, errors |-> 0, next |-> NULL]
  <2>1. PICK s \in Unused : request' = [request EXCEPT ![s] = new]
    BY <1>2 DEF ScanFound
  <2>2. new.used /\ new.bh = t /\ new.cmd = c /\ new.nsector = 2
    OBVIOUS
  <2> HIDE DEF new
  <2>3. s \in Slot /\ s \notin Used /\ request'[s] = new /\ \A r \in Slot \ {s} : request'[r] = request[r]
    BY <1>0, <2>1 DEF Unused, Used, TypeOK
  <2>4. \A r \in Used' : r = s \/ (r \in Used /\ request'[r] = request[r])
    BY <2>2, <2>3 DEF Used
  <2>5. UNCHANGED <<buffer, disk, drive, this_request>>
    BY <1>2 DEF ScanFound, hardware
  <2>6. Written'
    BY <2>2, <2>3, <2>4, <2>5 DEF Data, Stored, Written
  <2>7. Halfway'
    BY <2>2, <2>3, <2>4, <2>5 DEF Data, Halfway, Idle
  <2>8. Transferring'
    <3>1. ~Idle => request'[this_request] = request[this_request]
      BY <2>3, Serves
    <3> QED
      BY <2>5, <3>1 DEF Data, Transferring, Idle, First
  <2>9. Stored'
    BY <2>5 DEF Data, Stored
  <2> QED
    BY <2>6, <2>7, <2>8, <2>9 DEF Data
<1>3. ASSUME Restart(t) PROVE Data'
  <2>1. UNCHANGED <<request, this_request, buffer, disk>>
    BY <1>3 DEF Restart, queue
  <2>2. CASE do_hd = NULL
    <3>1. DoRequest(this_request, request) /\ Idle
      BY <1>3, <2>2 DEF Restart, Idle, Inv, Drive
    <3> QED
      BY <2>1, <3>1, StartedData
  <2>3. CASE do_hd # NULL
    <3>1. UNCHANGED drive
      BY <1>3, <2>3 DEF Restart, hardware
    <3> QED
      BY <2>1, <3>1, SameData DEF Used
  <2> QED
    BY <2>2, <2>3
<1>4. ASSUME \/ ScanFull(t) \/ SlotLink(t) \/ SlotSleep(t) \/ SlotWoken(t) \/ SortBegin(t) \/ AddFirst(t)
             \/ AddSecond(t) \/ SortEnd(t) \/ WaitOnBuffer(t)
      PROVE  Data'
  <2>1. /\ UNCHANGED <<buffer, disk, drive, request>>
        /\ this_request' = this_request \/ this_request = NULL
    BY <1>4 DEF ScanFull, SlotLink, SlotSleep, SlotWoken, SortBegin, AddFirst, AddSecond, SortEnd,
       WaitOnBuffer, queue, hardware
  <2>2. Used' = Used
    BY <2>1 DEF Used
  <2> QED
    BY <2>1, <2>2, SameData
<1>5. ASSUME Append2(t) PROVE Data'
  <2>1. UNCHANGED <<buffer, disk, drive, this_request>> /\ request' = [request EXCEPT ![tmp[t]].next = slot[t]]
    BY <1>5 DEF Append2, hardware
  <2>2. \A s \in Slot : /\ request'[s].cmd = request[s].cmd /\ request'[s].bh = request[s].bh
                        /\ request'[s].nsector = request[s].nsector /\ request'[s].used = request[s].used
    BY <1>0, <2>1 DEF TypeOK, Request
  <2>3. Used' = Used
    BY <2>2 DEF Used
  <2> QED
    BY <2>1, <2>2, <2>3, SameData
<1>6. ASSUME Insert(t) PROVE Data'
  <2>1. UNCHANGED <<buffer, disk, drive, this_request>>
    BY <1>6 DEF Insert, hardware
  <2>2. PICK i \in 1 .. Len(List(tmp[t])) :
          request' = [request EXCEPT ![slot[t]].next = request[List(tmp[t])[i]].next,
                                     ![List(tmp[t])[i]].next = slot[t]]
    BY <1>6 DEF Insert
  <2> DEFINE l == List(tmp[t])[i]
             n == request[l].next
             R == [request EXCEPT ![slot[t]].next = n]
  <2>3. request' = [R EXCEPT ![l].next = slot[t]]
    BY <2>2
  <2> HIDE DEF l, n
  <2>4. DOMAIN R = Slot /\ \A s \in Slot : /\ R[s].cmd = request[s].cmd /\ R[s].bh = request[s].bh
                        /\ R[s].nsector = request[s].nsector /\ R[s].used = request[s].used
    BY <1>0 DEF TypeOK, Request
  <2>5. R = [s \in Slot |-> R[s]] /\ \A s \in Slot : R[s] = [request[s] EXCEPT !.next = n] \/ R[s] = request[s]
    BY <1>0 DEF TypeOK
  <2>6. \A s \in Slot : request'[s] = [R[s] EXCEPT !.next = slot[t]] \/ request'[s] = R[s]
    <3> HIDE DEF R
    <3> QED
      BY <2>3, <2>5
  <2>7. \A s \in Slot : /\ request'[s].cmd = request[s].cmd /\ request'[s].bh = request[s].bh
                        /\ request'[s].nsector = request[s].nsector /\ request'[s].used = request[s].used
    <3>1. TAKE s \in Slot
    <3>2. request[s] \in Request
      BY <1>0 DEF TypeOK
    <3>3. DOMAIN R[s] = DOMAIN request[s]
      BY <2>5, <3>2 DEF Request
    <3> HIDE DEF R
    <3> QED
      BY <2>4, <2>6, <3>2, <3>3, ZenonT(60) DEF Request
  <2>8. Used' = Used
    BY <2>7 DEF Used
  <2> QED
    BY <2>1, <2>7, <2>8, SameData
<1> QED
  BY <1>1, <1>2, <1>3, <1>4, <1>5, <1>6 DEF Run, AddRequest

(* Every step keeps the data.                                              *)
LEMMA DataStep ==
  ASSUME 1 \notin FaultySector, Inv, Data, [Next]_vars
  PROVE  Data'
<1>1. CASE UNCHANGED vars
  <2>1. UNCHANGED <<buffer, disk, drive, request, this_request>>
    BY <1>1 DEF vars, queue, hardware
  <2> QED
    BY <2>1, SameData DEF Used
<1> QED
  BY <1>1, InterruptData, TaskData DEF Next

(* Where sorting is set (hd.c:347-364).                                    *)
Sorting == {"first", "second", "append", "search", "sorted"}

(* The controller has a command exactly when it has a handler; sorting is  *)
(* set for a task that will clear it; the list is being served.            *)
Work ==
  /\ do_hd = NULL <=> drive = NULL
  /\ sorting => \E t \in Task : pc[t] \in Sorting
  /\ QueueServed

(* An interrupt while nobody sorts begins the next request (hd.c:277, 296, *)
(* 303).                                                                   *)
LEMMA InterruptWork ==
  ASSUME Sorting \subseteq Quiet, Inv, Inv', Work, HdInterrupt
  PROVE  Work'
<1>1. /\ drive # NULL /\ UNCHANGED <<current, pc, slot, tmp, sorting>>
      /\ \A t \in Task : current = t => pc[t] \notin Quiet
      /\ ReadIntr \/ WriteIntr \/ BadRwIntr \/ ResetIntr
  BY DEF HdInterrupt, MayInterrupt
<1>2. \A t \in Task : pc[t] \notin Sorting
  <2>1. \A t \in Task : pc[t] \in Sorting => current = t
    BY DEF Inv, Places, PlacesOf, Sorting, Away
  <2> QED
    BY <1>1, <2>1
<1>3. ~sorting
  BY <1>2 DEF Work
<1>4. /\ do_hd' = NULL => drive' = NULL
      /\ drive' = NULL => sorting \/ (do_hd' = NULL /\ this_request' = NULL)
  BY InterruptKeeps DEF Interrupted, Drive
<1> QED
  BY <1>1, <1>3, <1>4 DEF Work, QueueServed

(* Who added a request starts the controller if it stands still            *)
(* (hd.c:365-372).                                                         *)
LEMMA TaskWork ==
  ASSUME Inv, Work, NEW t \in Task, Run(t) \/ \E rw \in {"READ", "WRITE"} : RwAbsHd(t, rw)
  PROVE  Work'
<1>0. TypeOK /\ \A u \in Task \ {t} : current \in {t, NULL} => pc[u] \in Away
  BY Numbers DEF Inv, Places, PlacesOf
<1>1. ASSUME \/ \E rw \in {"READ", "WRITE"} : RwAbsHd(t, rw)
             \/ ScanFull(t) \/ ScanFound(t) \/ SlotLink(t) \/ SlotSleep(t) \/ SlotWoken(t)
             \/ WaitOnBuffer(t)
      PROVE  Work'
  <2>1. UNCHANGED <<sorting, this_request, do_hd, drive>>
    BY <1>1 DEF RwAbsHd, ScanFull, ScanFound, SlotLink, SlotSleep, SlotWoken, WaitOnBuffer, queue,
       hardware
  <2>2. PICK p \in PC : pc' = [pc EXCEPT ![t] = p] /\ p \notin Sorting \union {"restart"}
                       /\ pc[t] \notin Sorting \union {"restart"}
    BY <1>1 DEF RwAbsHd, ScanFull, ScanFound, SlotLink, SlotSleep, SlotWoken, WaitOnBuffer, At, Goto,
       Sorting, PC
  <2>3. \A u \in Task : pc'[u] = pc[u] \/ (u = t /\ pc'[u] = p)
    BY <1>0, <2>2 DEF TypeOK
  <2>4. \A u \in Task : pc'[u] \in Sorting \union {"restart"} <=> pc[u] \in Sorting \union {"restart"}
    BY <2>2, <2>3
  <2>5. (\E u \in Task : pc[u] \in Sorting) => \E u \in Task : pc'[u] \in Sorting
    BY <2>2, <2>3
  <2> QED
    BY <2>1, <2>4, <2>5 DEF Work, QueueServed, Sorting
<1>2. ASSUME SortBegin(t) \/ AddFirst(t) \/ AddSecond(t) \/ Append2(t) \/ Insert(t) PROVE Work'
  <2>1. pc'[t] \in Sorting /\ UNCHANGED <<do_hd, drive>>
    BY <1>0, <1>2 DEF SortBegin, AddFirst, AddSecond, Append2, Insert, Goto, Sorting, TypeOK, queue,
       hardware
  <2> QED
    BY <2>1 DEF Work, QueueServed, Sorting
<1>3. ASSUME SortEnd(t) PROVE Work'
  <2>1. pc'[t] = "restart" /\ ~sorting' /\ UNCHANGED <<do_hd, drive>>
    BY <1>0, <1>3 DEF SortEnd, Goto, TypeOK, hardware
  <2> QED
    BY <2>1 DEF Work, QueueServed
<1>4. ASSUME Restart(t) PROVE Work'
  <2>1. /\ current = t /\ pc[t] = "restart" /\ UNCHANGED <<request, this_request, sorting>>
    BY <1>4 DEF Restart, At, queue
  <2>2. \A u \in Task : pc[u] \notin Sorting
    BY <1>0, <2>1 DEF Sorting, Away
  <2>3. ~sorting
    BY <2>2 DEF Work
  <2>4. CASE do_hd = NULL
    <3>1. DoRequest(this_request, request)
      BY <1>4, <2>4 DEF Restart
    <3>2. this_request \in Slot \union {NULL} /\ request \in [Slot -> Request]
      BY <1>0 DEF TypeOK
    <3>3. this_request # NULL => /\ request[this_request].used /\ request[this_request].bh \in Task
                                 /\ request[this_request].nsector # 0
      BY DEF Inv, Chain, Locks, Used
    <3>4. this_request' = this_request /\ request' = request
      BY <2>1
    <3>5. /\ Drive' \/ (drive' = NULL /\ do_hd' = do_hd)
          /\ drive' = NULL => sorting \/ (do_hd' = NULL /\ this_request = NULL)
      BY <1>0, <3>1, <3>2, <3>3, <3>4, DoRequestReady
    <3> QED
      BY <2>1, <2>3, <3>5 DEF Drive, Work, QueueServed
  <2>5. CASE do_hd # NULL
    <3>1. UNCHANGED <<do_hd, drive>> /\ drive # NULL
      BY <1>4, <2>5 DEF Restart, hardware, Work
    <3> QED
      BY <2>1, <2>3, <2>5, <3>1 DEF Work, QueueServed
  <2> QED
    BY <2>4, <2>5
<1> QED
  BY <1>1, <1>2, <1>3, <1>4 DEF Run, AddRequest

(* If the disk does not interrupt while sorting is set, and fails in first *)
(* sectors only, the list is served as long as there is one, and what is   *)
(* marked up to date is the whole block, on the disk too (hd.c:245-372).   *)
THEOREM ListIsServed ==
  ASSUME {"first", "second", "append", "search", "sorted"} \subseteq Quiet, 1 \notin FaultySector
  PROVE  Spec => []Serving
<1> DEFINE I == Inv /\ Data /\ Work
<1>1. Init => I
  <2> SUFFICES ASSUME Init PROVE I
    OBVIOUS
  <2>1. Used = {} /\ Idle
    BY DEF Init, Used, Empty, Idle
  <2>2. Data
    BY <2>1 DEF Init, Data, Stored, Written, Halfway, Transferring
  <2>3. Work
    BY DEF Init, Work, QueueServed
  <2> QED
    BY <2>2, <2>3, InitInv
<1>2. I /\ [Next]_vars => I'
  <2> SUFFICES ASSUME I, [Next]_vars PROVE I'
    OBVIOUS
  <2>1. Inv' /\ Data'
    BY StepInv, DataStep
  <2>2. CASE UNCHANGED vars
    BY <2>1, <2>2 DEF vars, code, queue, hardware, Work, QueueServed
  <2>3. Sorting \subseteq Quiet
    BY DEF Sorting
  <2> QED
    BY <2>1, <2>2, <2>3, InterruptWork, TaskWork DEF Next
<1>3. I => Serving
  <2> SUFFICES ASSUME I PROVE Serving
    OBVIOUS
  <2>1. BlockWhole
    BY DEF Data, Stored, BlockWhole
  <2> QED
    BY <2>1 DEF Serving, Inv, Work
<1> QED
  BY <1>1, <1>2, <1>3, PTL DEF Spec
===============================================================================
