----------------------------- MODULE ActionQueue -----------------------------
(***************************************************************************)
(* What the browser's window and its storages rely on when they hand an    *)
(* action to the dispatcher, without threads, locks or condition           *)
(* variables: a FIFO that is open or closed for new actions, and a server  *)
(* that, for as long as it is serving, eventually handles every action the *)
(* queue took, one at a time and in the order of acceptance.  Who opens a   *)
(* queue that is being served ends everything: nothing is taken or handled  *)
(* any more.                                                               *)
(***************************************************************************)
EXTENDS Integers, Sequences

CONSTANT Actions      \* what clients may hand over

VARIABLES open,       \* are new actions accepted
          serving,    \* is somebody committed to handling them
          ended,      \* was the queue opened while it was served
          pending,    \* accepted, not handled yet, oldest first
          log         \* handled, oldest first

vars == <<open, serving, ended, pending, log>>

Init == /\ open \in BOOLEAN
        /\ serving = FALSE
        /\ ended = FALSE
        /\ pending = <<>>
        /\ log = <<>>

Put == /\ ~ended
       /\ open
       /\ \E a \in Actions : pending' = Append(pending, a)
       /\ UNCHANGED <<open, serving, ended, log>>

Handle == /\ ~ended
          /\ pending # <<>>
          /\ log' = Append(log, Head(pending))
          /\ pending' = Tail(pending)
          /\ UNCHANGED <<open, serving, ended>>

Open == /\ ~ended
        /\ ~serving
        /\ open' = TRUE
        /\ serving' = TRUE
        /\ UNCHANGED <<ended, pending, log>>

OpenServed == /\ ~ended
              /\ serving
              /\ serving' = FALSE
              /\ ended' = TRUE
              /\ UNCHANGED <<open, pending, log>>

Close == /\ ~ended
         /\ open' = FALSE
         /\ serving' = FALSE
         /\ UNCHANGED <<ended, pending, log>>

Next == Put \/ Handle \/ Open \/ OpenServed \/ Close

Safe == Init /\ [][Next]_vars

Spec == Safe /\ WF_vars(serving /\ Handle)
==============================================================================
