------------------------------- MODULE Device -------------------------------
(***************************************************************************)
(* A block device: the request queue of device.c with its elevator, and    *)
(* the controller of ide.c with its lock, which blocks its user until the  *)
(* interrupt.                                                              *)
(*                                                                         *)
(* The operations are steps of the running task; module Buffer composes    *)
(* them.  There is one disk on the controller.                             *)
(***************************************************************************)
EXTENDS Dispatch, Sequences, SequencesExt

CONSTANT NoTask     (* the NULL of ctrl->waiter and of lock->holder         *)

ASSUME DeviceAssumption == NoTask \notin Task

VARIABLES queue,    (* device->request_list: the requests by req->idx, the
                       one that is carried out included; `named' when
                       req->task has been set                               *)
          direct,   (* device->direct                                       *)
          waiter,   (* ctrl->waiter                                         *)
          ctrl,     (* the holder of ctrl->lock                             *)
          ctrlers   (* the tasks blocked on ctrl->lock, oldest first        *)

deviceVars == <<queue, direct, waiter, ctrl, ctrlers>>

DeviceTypeOK ==
    /\ queue \in Seq([task : Task, idx : Nat, named : BOOLEAN])
    /\ direct \in {"UP", "DOWN"}
    /\ waiter \in Task \cup {NoTask}
    /\ ctrl \in Task \cup {NoTask}
    /\ ctrlers \in Seq(Task)

DeviceInit ==
    /\ queue = << >> /\ direct = "UP"
    /\ waiter = NoTask /\ ctrl = NoTask /\ ctrlers = << >>
-----------------------------------------------------------------------------
\* The first half of device_request: the request is put before the first one
\* with a higher idx, and the task blocks, once, unless the queue was empty.
Submit(idx) ==
    \E n \in 0 .. Len(queue) :
        /\ \A i \in 1 .. n : queue[i].idx <= idx
        /\ n < Len(queue) => queue[n + 1].idx > idx
        /\ queue' = InsertAt(queue, n + 1,
                             [task |-> current, idx |-> idx, named |-> queue # << >>])
        /\ IF queue = << >> THEN UNCHANGED dispatchVars ELSE Block("BLOCKED")
        /\ UNCHANGED <<direct, waiter, ctrl, ctrlers>>

\* ide_pio_read and ide_pio_write: lock_acquire of the controller, where the
\* task waits as long as another has it ...
AwaitCtrl ==
    /\ ctrl # NoTask
    /\ ctrlers' = Append(ctrlers, current)
    /\ Block("BLOCKED")
    /\ UNCHANGED <<queue, direct, waiter, ctrl>>

\* ... then the command is sent and the task blocks; one whose state is not
\* RUNNING polls instead.  The waits of a block's two sectors are one.
Command ==
    /\ ctrl = NoTask
    /\ ctrl' = current
    /\ IF state[current] = "RUNNING"
       THEN waiter' = current /\ Block("BLOCKED")
       ELSE UNCHANGED <<waiter, dispatchVars>>
    /\ UNCHANGED <<queue, direct, ctrlers>>

\* lock_release of the controller, when the task has been woken and the
\* controller is done: the oldest waiter is woken and the processor yielded.
LeaveCtrl ==
    /\ ctrl' = NoTask
    /\ IF ctrlers = << >>
       THEN UNCHANGED <<dispatchVars, ctrlers>>
       ELSE /\ ctrlers' = Tail(ctrlers)
            /\ Schedule(Unblock(state, {Head(ctrlers)}))
    /\ UNCHANGED <<queue, direct, waiter>>

\* Mutant: the elevator does not turn round at the end of the list.
Turned_Never(i) == direct

\* request_nextreq turns round when the request in place i is the last one
\* on its way.
Turned(i) ==
    IF direct = "UP" /\ i = Len(queue) THEN "DOWN"
    ELSE IF direct = "DOWN" /\ i = 1 THEN "UP"
    ELSE direct

\* The request that is next to the one in place i on the elevator's way.
Neighbour(i) ==
    LET next == IF Turned(i) = "UP" THEN i + 1 ELSE i - 1
    IN  {queue[j] : j \in {next} \cap DOMAIN queue}

\* A list of sleepers without the one of them that task_unblock takes off it.
TakenOff(list, W) ==
    IF \E i \in DOMAIN list : list[i] \in W
    THEN RemoveAt(list, CHOOSE i \in DOMAIN list : list[i] \in W)
    ELSE list

\* task_unblock of the task in W, wherever it is.
Wakes(W) == state' = Unblock(state, W) /\ ctrlers' = TakenOff(ctrlers, W)

\* The second half of device_request: the request in place i is taken off the
\* queue and the task of the next one is let go.  A request put into an empty
\* queue has no task.
Complete(i) ==
    /\ queue[i].task = current
    /\ \A r \in Neighbour(i) : r.named
    /\ direct' = Turned(i)
    /\ Wakes({r.task : r \in Neighbour(i)})
    /\ queue' = RemoveAt(queue, i)
    /\ UNCHANGED <<current, waiter, ctrl>>

\* ide_handler.
Interrupt ==
    /\ waiter # NoTask
    /\ Wakes({waiter})
    /\ waiter' = NoTask
    /\ UNCHANGED <<current, queue, direct, ctrl>>
=============================================================================
