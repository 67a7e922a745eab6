------------------------------- MODULE Stream -------------------------------
(***************************************************************************)
(* The byte streams of the kernel, over the ring of fifo.c: a pipe, filled *)
(* by a task, and the keyboard and serial inputs, filled by an interrupt.  *)
(*                                                                         *)
(* Readers and writers move one byte at a time and block when the ring is  *)
(* empty or full.  A pipe has one reader and one writer at a time, as the  *)
(* shell uses it; the input devices have a lock for their readers.         *)
(***************************************************************************)
EXTENDS Dispatch, Integers, Sequences

CONSTANTS Kinds,     (* the streams to explore, among "pipe", "keyboard",
                        "serial"                                            *)
          Length,    (* fifo->length: the ring holds Length - 1 bytes       *)
          MaxCount,  (* bound of the model: bytes per read() or write()     *)
          Byte,      (* the bytes are 0 .. Byte-1, written in turn          *)
          NoTask     (* the NULL of a waiter                                *)

ASSUME StreamAssumption ==
    /\ Kinds \subseteq {"pipe", "keyboard", "serial"}
    /\ Length \in Nat /\ Length > 1
    /\ MaxCount \in Nat \ {0}
    /\ Byte \in Nat /\ Byte > Length
    /\ NoTask \notin Task

VARIABLES kind,      (* which stream this is                                *)
          ring,      (* fifo->buf                                           *)
          head,      (* fifo->head: where the next byte is put              *)
          tail,      (* fifo->tail: where the next byte is got              *)
          rxwaiter,  (* the reader that waits for a byte                    *)
          txwaiter,  (* the writer that waits for room                      *)
          holder,    (* the task that has the lock of the readers           *)
          lockers,   (* the tasks blocked on it, oldest first               *)
          pc,        (* where each task is                                  *)
          left,      (* how many bytes its call has still to move           *)
          written,   (* history: the byte to be put next                    *)
          awaited,   (* history: the byte after the one that was got last   *)
          failed     (* the assertion that stopped the machine, or "none"   *)

fifoVars == <<ring, head, tail>>
waitVars == <<rxwaiter, txwaiter>>
lockVars == <<holder, lockers>>
vars == <<dispatchVars, kind, fifoVars, waitVars, lockVars, pc, left,
          written, awaited, failed>>

TypeOK ==
    /\ DispatchTypeOK
    /\ kind \in Kinds
    /\ ring \in [0 .. Length - 1 -> 0 .. Byte - 1]
    /\ head \in 0 .. Length - 1
    /\ tail \in 0 .. Length - 1
    /\ rxwaiter \in Task \cup {NoTask}
    /\ txwaiter \in Task \cup {NoTask}
    /\ holder \in Task \cup {NoTask}
    /\ lockers \in Seq(Task)
    /\ pc \in [Task -> {"user", "lock", "read", "get", "write", "put", "unlocked"}]
    /\ left \in [Task -> 0 .. MaxCount]
    /\ written \in 0 .. Byte - 1
    /\ awaited \in 0 .. Byte - 1
    /\ failed \in {"none", "rxwaiter", "txwaiter", "fifo_get"}

Init ==
    /\ DispatchInit
    /\ kind \in Kinds
    /\ ring = [i \in 0 .. Length - 1 |-> 0]
    /\ head = 0
    /\ tail = 0
    /\ rxwaiter = NoTask
    /\ txwaiter = NoTask
    /\ holder = NoTask
    /\ lockers = << >>
    /\ pc = [t \in Task |-> "user"]
    /\ left = [t \in Task |-> 0]
    /\ written = 0
    /\ awaited = 0
    /\ failed = "none"

At(place) == failed = "none" /\ pc[current] = place
Goto(place) == pc' = [pc EXCEPT ![current] = place]

Fail(assertion) ==
    /\ failed' = assertion
    /\ UNCHANGED <<dispatchVars, kind, fifoVars, waitVars, lockVars, pc, left,
                   written, awaited>>
-----------------------------------------------------------------------------
\* fifo_next.
After(pos) == (pos + 1) % Length

\* Mutant: a full ring is taken for one with room.
Full_Never == FALSE

\* fifo_full and fifo_empty.
Full == After(head) = tail
Empty == head = tail

\* fifo_get.
Get ==
    /\ tail' = After(tail)
    /\ awaited' = (ring[tail] + 1) % Byte
    /\ UNCHANGED <<ring, head, written>>

\* Mutant: the byte is stored after head has moved.
Put_Late ==
    /\ ring' = [ring EXCEPT ![After(head)] = written]
    /\ head' = After(head)
    /\ tail' = IF Full THEN After(tail) ELSE tail
    /\ written' = (written + 1) % Byte
    /\ UNCHANGED awaited

\* fifo_put: in a full ring the oldest byte makes room.
Put ==
    /\ ring' = [ring EXCEPT ![head] = written]
    /\ head' = After(head)
    /\ tail' = IF Full THEN After(tail) ELSE tail
    /\ written' = (written + 1) % Byte
    /\ UNCHANGED awaited

\* The byte that was put wakes the reader.
WakeReader ==
    /\ state' = IF rxwaiter = NoTask THEN state ELSE Unblock(state, {rxwaiter})
    /\ rxwaiter' = NoTask

\* Mutant: nobody is woken by a byte that was got.
WakeWriter_No == UNCHANGED <<state, txwaiter>>

\* The byte that was got wakes the writer.
WakeWriter ==
    /\ state' = IF txwaiter = NoTask THEN state ELSE Unblock(state, {txwaiter})
    /\ txwaiter' = NoTask
-----------------------------------------------------------------------------
\* The task that is inside pipe_read or pipe_write.
Inside(places) == \E t \in Task : pc[t] \in places

\* read() of the pipe, of the keyboard or of the serial port.
Read ==
    /\ current # Idle /\ At("user")
    /\ kind = "pipe" => ~Inside({"read", "get"})
    /\ \E n \in 1 .. MaxCount : left' = [left EXCEPT ![current] = n]
    /\ Goto(IF kind = "pipe" THEN "read" ELSE "lock")
    /\ UNCHANGED <<dispatchVars, kind, fifoVars, waitVars, lockVars, written,
                   awaited, failed>>

\* write() of the pipe.
Write ==
    /\ current # Idle /\ At("user")
    /\ kind = "pipe" /\ ~Inside({"write", "put"})
    /\ \E n \in 1 .. MaxCount : left' = [left EXCEPT ![current] = n]
    /\ Goto("write")
    /\ UNCHANGED <<dispatchVars, kind, fifoVars, waitVars, lockVars, written,
                   awaited, failed>>

\* lock_acquire, on the call and after every wake-up.
LockReader ==
    /\ At("lock")
    /\ \/ /\ holder = NoTask
          /\ holder' = current
          /\ Goto("read")
          /\ UNCHANGED <<dispatchVars, lockers>>
       \/ /\ holder # NoTask
          /\ lockers' = Append(lockers, current)
          /\ Block("BLOCKED")
          /\ UNCHANGED <<holder, pc>>
    /\ UNCHANGED <<kind, fifoVars, waitVars, left, written, awaited, failed>>

\* The reader finds the ring empty and blocks.  pipe_read will take a byte as
\* soon as it is woken; the others look again.
ReadWait ==
    /\ At("read") /\ left[current] > 0 /\ Empty
    /\ IF kind # "keyboard" /\ rxwaiter # NoTask THEN Fail("rxwaiter")
       ELSE /\ rxwaiter' = current
            /\ Block("BLOCKED")
            /\ Goto(IF kind = "pipe" THEN "get" ELSE "read")
            /\ UNCHANGED <<kind, fifoVars, txwaiter, lockVars, left, written,
                           awaited, failed>>

\* One turn of a reader's loop with a byte to take.
ReadByte ==
    /\ (At("read") /\ left[current] > 0 /\ ~Empty) \/ At("get")
    /\ IF Empty THEN Fail("fifo_get")
       ELSE /\ Get
            /\ left' = [left EXCEPT ![current] = @ - 1]
            /\ Goto("read")
            /\ IF kind = "pipe" THEN WakeWriter ELSE UNCHANGED <<state, txwaiter>>
            /\ UNCHANGED <<current, kind, rxwaiter, lockVars, failed>>

\* The writer finds the ring full and blocks; it will put its byte as soon as
\* it is woken.
WriteWait ==
    /\ At("write") /\ left[current] > 0 /\ Full
    /\ IF txwaiter # NoTask THEN Fail("txwaiter")
       ELSE /\ txwaiter' = current
            /\ Block("BLOCKED")
            /\ Goto("put")
            /\ UNCHANGED <<kind, fifoVars, rxwaiter, lockVars, left, written,
                           awaited, failed>>

WriteByte ==
    /\ (At("write") /\ left[current] > 0 /\ ~Full) \/ At("put")
    /\ Put
    /\ left' = [left EXCEPT ![current] = @ - 1]
    /\ Goto("write")
    /\ WakeReader
    /\ UNCHANGED <<current, kind, txwaiter, lockVars, failed>>

\* The call has moved all its bytes; pipes have no lock.
PipeDone ==
    /\ kind = "pipe"
    /\ At("read") \/ At("write")
    /\ left[current] = 0
    /\ Goto("user")
    /\ UNCHANGED <<dispatchVars, kind, fifoVars, waitVars, lockVars, left,
                   written, awaited, failed>>

\* Mutant: nobody is woken.
WakeLocker_No == UNCHANGED <<dispatchVars, lockers>>

\* mutex_unlock wakes the oldest waiter and yields the processor.
WakeLocker ==
    IF lockers = << >>
    THEN UNCHANGED <<dispatchVars, lockers>>
    ELSE /\ lockers' = Tail(lockers)
         /\ Schedule(Unblock(state, {Head(lockers)}))

\* lock_release of the reader.
UnlockReader ==
    /\ kind # "pipe"
    /\ At("read") /\ left[current] = 0
    /\ holder' = NoTask
    /\ Goto("unlocked")
    /\ WakeLocker
    /\ UNCHANGED <<kind, fifoVars, waitVars, left, written, awaited, failed>>

InputDone ==
    /\ At("unlocked")
    /\ Goto("user")
    /\ UNCHANGED <<dispatchVars, kind, fifoVars, waitVars, lockVars, left,
                   written, awaited, failed>>
-----------------------------------------------------------------------------
\* keyboard_handler and recv_data: a byte arrives, whether there is room or
\* not.
InputInterrupt ==
    /\ kind # "pipe" /\ At("user")
    /\ Put
    /\ WakeReader
    /\ UNCHANGED <<current, kind, txwaiter, lockVars, pc, left, failed>>

\* The clock ends the slice of a task; the idle thread yields.
Preempt ==
    /\ At("user")
    /\ Schedule(state)
    /\ UNCHANGED <<kind, fifoVars, waitVars, lockVars, pc, left, written,
                   awaited, failed>>

Next ==
    \/ Read \/ Write \/ LockReader \/ ReadWait \/ ReadByte \/ WriteWait
    \/ WriteByte \/ PipeDone \/ UnlockReader \/ InputDone
    \/ InputInterrupt \/ Preempt

Spec == Init /\ [][Next]_vars
-----------------------------------------------------------------------------
\* The bytes in the ring, the oldest first.
Content == [i \in 1 .. (head - tail) % Length |-> ring[(tail + i - 1) % Length]]

\* The ring holds the bytes that were written last, in order: it implements a
\* queue, across the wrap of head and tail and when the oldest byte is thrown
\* out (fifo.c:26-44).
NewestInOrder ==
    \A i \in DOMAIN Content :
        Content[i] = (written - Len(Content) + i - 1) % Byte

\* A pipe loses no byte and repeats none: what is in the ring goes on where
\* the reader stopped, although the writer does not look for room again once
\* it was woken (pipe_write, pipe.c:44-51).
PipeLosesNothing ==
    kind = "pipe" => (written - awaited) % Byte = Len(Content)

\* No reader sleeps beside a byte and no writer beside room: each byte wakes
\* the one registered waiter (pipe.c:25-34, 46-55; keyboard.c:374-395;
\* serial.c:61-66, 97-104).
NoSleeperForgotten ==
    /\ \A t \in Task : pc[t] \in {"read", "get"} /\ state[t] = "BLOCKED"
                       => Empty /\ rxwaiter = t
    /\ \A t \in Task : pc[t] = "put" /\ state[t] = "BLOCKED"
                       => Full /\ txwaiter = t

\* The assertions hold: nobody is registered when a task registers, and a
\* task that was woken for a byte finds one (pipe.c:27, 47; serial.c:101;
\* fifo_get, fifo.c:31).
AssertionsHold == failed = "none"

\* Registering as a waiter and waking it fit together (pipe.c:22-34, 42-54;
\* keyboard.c:374-395).
WaitersRight == NoSleeperForgotten /\ AssertionsHold

\* The lock of the readers has a waiter only while a task holds it or has
\* been woken for it, and one reader at a time takes bytes.
ReadersTakeTurns ==
    /\ \A t, u \in Task : pc[t] \in {"read", "get"} /\ pc[u] \in {"read", "get"} => t = u
    /\ lockers # << >> => \/ holder # NoTask
                          \/ \E t \in Task : pc[t] = "lock" /\ state[t] # "BLOCKED"
=============================================================================
