---------------------------- MODULE Notification ----------------------------
(***************************************************************************)
(* What interfaces::Notification promises (include/rix/ipc/interfaces/     *)
(* notification.hpp): an event that has been raised stays pending until a  *)
(* wait() that is going to return true takes it, however the raise and the *)
(* steps of the wait interleave.  Raises that are not yet taken coalesce.  *)
(* A wait may give up (timeout, interruption) and return false only        *)
(* without taking anything.                                                *)
(*                                                                         *)
(* Signal.tla is shown to implement this specification; MBotDriver.tla and *)
(* TeleopKeyboard.tla are written against it.                              *)
(***************************************************************************)
EXTENDS Integers

CONSTANTS Sources,   \* the events a notification object can stand for
          Waiters,   \* the threads that call wait()
          Stray      \* events meant for a source's previous object may
                     \* still arrive when the next one is attached

VARIABLES open,      \* the sources some notification object is attached to
          pending,   \* pending[i]: i was raised and no wait has taken it
          waiting,   \* waiting[t]: the source t waits for, NoSource if none
          seen       \* seen[t]: t's wait() has found its source pending

nvars == <<open, pending, waiting, seen>>

NoSource == -1       \* (Sources are the indices of a table: natural numbers)

NInit == /\ open = {}
         /\ pending = [i \in Sources |-> FALSE]
         /\ waiting = [t \in Waiters |-> NoSource]
         /\ seen = [t \in Waiters |-> FALSE]

\* A notification object is attached to i; nothing of its own is pending yet.
Open(i) == /\ i \notin open
           /\ open' = open \cup {i}
           /\ \E p \in {FALSE, Stray} : pending' = [pending EXCEPT ![i] = p]
           /\ UNCHANGED <<waiting, seen>>

\* The object goes away, and with it what it had pending.
Close(i) == /\ i \in open
            /\ \A t \in Waiters : waiting[t] # i
            /\ open' = open \ {i}
            /\ pending' = [pending EXCEPT ![i] = FALSE]
            /\ UNCHANGED <<waiting, seen>>

RaiseEvent(i) == /\ i \in open
                 /\ pending' = [pending EXCEPT ![i] = TRUE]
                 /\ UNCHANGED <<open, waiting, seen>>

BeginWait(t, i) == /\ i \in open
                   /\ waiting[t] = NoSource
                   /\ waiting' = [waiting EXCEPT ![t] = i]
                   /\ UNCHANGED <<open, pending, seen>>

Observe(t) == /\ waiting[t] \in Sources
              /\ pending[waiting[t]]
              /\ seen' = [seen EXCEPT ![t] = TRUE]
              /\ UNCHANGED <<open, pending, waiting>>

\* Only a wait that has seen the event, and so will return true, takes it.
Take(t) == /\ seen[t]
           /\ pending' = [pending EXCEPT ![waiting[t]] = FALSE]
           /\ UNCHANGED <<open, waiting, seen>>

\* wait() returns seen[t].
ReturnWait(t) == /\ waiting[t] \in Sources
                 /\ waiting' = [waiting EXCEPT ![t] = NoSource]
                 /\ seen' = [seen EXCEPT ![t] = FALSE]
                 /\ UNCHANGED <<open, pending>>

NNext == \/ \E i \in Sources : Open(i) \/ Close(i) \/ RaiseEvent(i)
         \/ \E t \in Waiters : \/ \E i \in Sources : BeginWait(t, i)
                               \/ Observe(t) \/ Take(t) \/ ReturnWait(t)

NSpec == NInit /\ [][NNext]_nvars
=============================================================================
