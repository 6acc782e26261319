--------------------------- MODULE EventsDispatcher ---------------------------
(***************************************************************************)
(* The dispatcher of ui/src/dispatcher.cxx: clients push actions into a    *)
(* queue, one worker thread hands every action to every subscribed         *)
(* storage.  One mutex guards everything; the worker keeps it while it     *)
(* delivers and gives it up only in wait() or by returning.                *)
(*                                                                         *)
(* A critical section of a client (emit, subscribe, start, the first half  *)
(* of stop) is one step: it needs the mutex and leaves it free.  The mutex *)
(* needs no variable, since the worker's control point says whether the    *)
(* worker holds it.  Actions are numbered in the order of the emit calls.  *)
(***************************************************************************)
EXTENDS Integers, Sequences

CONSTANTS Storages,    \* the storages that may subscribe
          MaxEmits,    \* bound: emit calls of a behaviour
          MaxStarts    \* bound: start calls of a behaviour

ASSUME MaxEmitsAssumption == MaxEmits \in Nat
ASSUME MaxStartsAssumption == MaxStarts \in Nat

VARIABLES
  doLoop,      \* _do_loop
  storages,    \* _storages, in the order of subscription
  actions,     \* _actions, oldest first; its head is the one being delivered
  pc,          \* the worker thread, see Pcs
  turn,        \* index in storages of the next handler to call
  owner,       \* the thread that calls start and stop, see Owners
  stopRaced,   \* did the last stop run before the worker's first lock
  emits,       \* emit calls so far
  starts,      \* start calls so far
  accepted,    \* history: the actions emit pushed
  handled,     \* history: the actions the worker popped
  missed,      \* history: what had been handled when a storage subscribed
  delivered    \* history: what each storage's emit() was called with

queue == <<doLoop, storages, actions>>
worker == <<pc, turn>>
control == <<owner, stopRaced, emits, starts>>
history == <<accepted, handled, missed, delivered>>
vars == <<doLoop, storages, actions, pc, turn, owner, stopRaced, emits, starts,
          accepted, handled, missed, delivered>>

\* "none": no joinable thread; "spawned": before its first lock (line 91);
\* "draining": at the test of line 93; "delivering": inside line 94;
\* "waiting": in wait(), not notified; "woken": in wait(), must lock again;
\* "exited": emit_events returned, not joined yet.
Pcs == {"none", "spawned", "draining", "delivering", "waiting", "woken", "exited"}

\* "free": outside start and stop; "joining": in join() of line 87;
\* "aborted": std::terminate ended the process.
Owners == {"free", "joining", "aborted"}

Ids == 1..MaxEmits

Subscribed == {storages[i] : i \in 1..Len(storages)}

LockFree == pc \notin {"draining", "delivering"}

\* notify_one: the worker is the only thread that ever waits
Notified == IF pc = "waiting" THEN "woken" ELSE pc

-------------------------------------------------------------------------------
(* Faulty variants of actions below, one per property: each is a slip the    *)
(* code could contain, and TLC must find the property violated with it.      *)

\* a push without the notification
EmitWithoutNotify == /\ LockFree
                     /\ emits < MaxEmits
                     /\ doLoop
                     /\ emits' = emits + 1
                     /\ actions' = Append(actions, emits + 1)
                     /\ accepted' = Append(accepted, emits + 1)
                     /\ UNCHANGED <<doLoop, storages, worker, owner, stopRaced, starts,
                                    handled, missed, delivered>>

\* subscribe without the search for an earlier entry
SubscribeTwice(s) == /\ LockFree
                     /\ storages' = Append(storages, s)
                     /\ missed' = [missed EXCEPT ![s] = handled]
                     /\ UNCHANGED <<doLoop, actions, worker, control, accepted, handled, delivered>>

\* stop without the notification
StopWithoutNotify == /\ LockFree
                     /\ owner = "free"
                     /\ pc # "none"
                     /\ doLoop' = FALSE
                     /\ owner' = "joining"
                     /\ stopRaced' = (pc = "spawned")
                     /\ UNCHANGED <<storages, actions, worker, emits, starts, history>>

\* stop that does not clear _do_loop
StopWithoutFlag == /\ LockFree
                   /\ owner = "free"
                   /\ pc # "none"
                   /\ pc' = Notified
                   /\ owner' = "joining"
                   /\ stopRaced' = (pc = "spawned")
                   /\ UNCHANGED <<queue, turn, emits, starts, history>>

\* the whole queue is dropped with its first action
PopAll == /\ pc = "delivering"
          /\ turn > Len(storages)
          /\ actions' = <<>>
          /\ handled' = Append(handled, Head(actions))
          /\ pc' = "draining"
          /\ turn' = 0
          /\ UNCHANGED <<doLoop, storages, control, accepted, missed, delivered>>

\* a loop that drains once more before it looks at _do_loop
RelockWithoutTest == /\ pc = "woken"
                     /\ pc' = "draining"
                     /\ UNCHANGED <<queue, turn, control, history>>

-------------------------------------------------------------------------------
(* The constructor leaves _do_loop uninitialised: either value may be read. *)
Init == /\ doLoop \in BOOLEAN
        /\ storages = <<>>
        /\ actions = <<>>
        /\ pc = "none"
        /\ turn = 0
        /\ owner = "free"
        /\ stopRaced = FALSE
        /\ emits = 0
        /\ starts = 0
        /\ accepted = <<>>
        /\ handled = <<>>
        /\ missed = [s \in Storages |-> <<>>]
        /\ delivered = [s \in Storages |-> <<>>]

Subscribe(s) == /\ LockFree
                /\ s \notin Subscribed
                /\ storages' = Append(storages, s)
                /\ missed' = [missed EXCEPT ![s] = handled]
                /\ UNCHANGED <<doLoop, actions, worker, control, accepted, handled, delivered>>

EmitAccepted == /\ LockFree
                /\ emits < MaxEmits
                /\ doLoop
                /\ emits' = emits + 1
                /\ actions' = Append(actions, emits + 1)
                /\ accepted' = Append(accepted, emits + 1)
                /\ pc' = Notified
                /\ UNCHANGED <<doLoop, storages, turn, owner, stopRaced, starts,
                               handled, missed, delivered>>

EmitIgnored == /\ LockFree
               /\ emits < MaxEmits
               /\ ~doLoop
               /\ emits' = emits + 1
               /\ UNCHANGED <<queue, worker, owner, stopRaced, starts, history>>

Start == /\ LockFree
         /\ owner = "free"
         /\ pc = "none"
         /\ starts < MaxStarts
         /\ starts' = starts + 1
         /\ doLoop' = TRUE
         /\ pc' = "spawned"
         /\ UNCHANGED <<storages, actions, turn, owner, stopRaced, emits, history>>

\* assigning to a joinable std::thread calls std::terminate
StartAgain == /\ LockFree
              /\ owner = "free"
              /\ pc # "none"
              /\ starts < MaxStarts
              /\ starts' = starts + 1
              /\ doLoop' = TRUE
              /\ owner' = "aborted"
              /\ UNCHANGED <<storages, actions, worker, stopRaced, emits, history>>

StopUnstarted == /\ LockFree
                 /\ owner = "free"
                 /\ pc = "none"
                 /\ doLoop' = FALSE
                 /\ UNCHANGED <<storages, actions, worker, control, history>>

Stop == /\ LockFree
        /\ owner = "free"
        /\ pc # "none"
        /\ doLoop' = FALSE
        /\ pc' = Notified
        /\ owner' = "joining"
        /\ stopRaced' = (pc = "spawned")
        /\ UNCHANGED <<storages, actions, turn, emits, starts, history>>

Join == /\ owner = "joining"
        /\ pc = "exited"
        /\ pc' = "none"
        /\ owner' = "free"
        /\ UNCHANGED <<queue, turn, stopRaced, emits, starts, history>>

-------------------------------------------------------------------------------
(* The worker thread: emit_events and emit_event_locked.                   *)
FirstLock == /\ pc = "spawned"
             /\ pc' = "draining"
             /\ UNCHANGED <<queue, turn, control, history>>

Take == /\ pc = "draining"
        /\ actions # <<>>
        /\ pc' = "delivering"
        /\ turn' = 1
        /\ UNCHANGED <<queue, control, history>>

Deliver == /\ pc = "delivering"
           /\ turn <= Len(storages)
           /\ delivered' = [delivered EXCEPT ![storages[turn]] = Append(@, Head(actions))]
           /\ turn' = turn + 1
           /\ UNCHANGED <<queue, pc, control, accepted, handled, missed>>

Pop == /\ pc = "delivering"
       /\ turn > Len(storages)
       /\ actions' = Tail(actions)
       /\ handled' = Append(handled, Head(actions))
       /\ pc' = "draining"
       /\ turn' = 0
       /\ UNCHANGED <<doLoop, storages, control, accepted, missed, delivered>>

Wait == /\ pc = "draining"
        /\ actions = <<>>
        /\ pc' = "waiting"
        /\ UNCHANGED <<queue, turn, control, history>>

\* a condition variable may return from wait() without a notification
SpuriousWakeup == /\ pc = "waiting"
                  /\ pc' = "woken"
                  /\ UNCHANGED <<queue, turn, control, history>>

Relock == /\ pc = "woken"
          /\ pc' = IF doLoop THEN "draining" ELSE "exited"
          /\ UNCHANGED <<queue, turn, control, history>>

-------------------------------------------------------------------------------
Client == \/ \E s \in Storages : Subscribe(s)
          \/ EmitAccepted
          \/ EmitIgnored

Owner == Start \/ StartAgain \/ StopUnstarted \/ Stop \/ Join

Worker == FirstLock \/ Take \/ Deliver \/ Pop \/ Wait \/ Relock

\* after std::terminate no thread takes another step
Next == /\ owner # "aborted"
        /\ Client \/ Owner \/ Worker \/ SpuriousWakeup

\* The system schedules the worker (the mutex is free again as soon as a
\* client's short critical section ends) and lets a join() see the exit; nobody
\* has to emit, start or stop, and no spurious wakeup is owed.
Fairness == /\ WF_vars(owner # "aborted" /\ Worker)
            /\ WF_vars(Join)

Spec == Init /\ [][Next]_vars /\ Fairness

-------------------------------------------------------------------------------
(* Every variable has its type; the worker never runs past the end of    *)
(* _storages.                                                              *)
TypeOK == /\ doLoop \in BOOLEAN
          /\ storages \in Seq(Storages)
          /\ actions \in Seq(Ids)
          /\ pc \in Pcs
          /\ turn \in 0..(Len(storages) + 1)
          /\ owner \in Owners
          /\ stopRaced \in BOOLEAN
          /\ emits \in 0..MaxEmits
          /\ starts \in 0..MaxStarts
          /\ accepted \in Seq(Ids)
          /\ handled \in Seq(Ids)
          /\ missed \in [Storages -> Seq(Ids)]
          /\ delivered \in [Storages -> Seq(Ids)]

(* wait() has no predicate, so a notification sent while the worker does not *)
(* wait is lost: that is harmless only because the worker never goes to sleep *)
(* on a queue with actions in it, and is always woken when one is pushed.    *)
NoLostWakeup == pc = "waiting" => actions = <<>>

\* The storages whose handler has returned for the action being delivered.
Served == IF pc = "delivering" THEN {storages[i] : i \in 1..(turn - 1)} ELSE {}

\* What s has been owed since it subscribed, after what it came too late for.
Seen(s) == IF s \in Served THEN Append(handled, Head(actions)) ELSE handled

(* Every storage is called with exactly the actions handled since it       *)
(* subscribed, in the order in which emit accepted them, none twice (not   *)
(* even after a second subscribe) and none skipped, across stop and start. *)
ExactlyOnceInOrder ==
  /\ accepted = handled \o actions
  /\ \A s \in Storages :
       IF s \in Subscribed THEN missed[s] \o delivered[s] = Seen(s)
                           ELSE delivered[s] = <<>>

(* stop() can only block in join() for good when it ran between the creation *)
(* of the worker and the worker's first lock: its notification then precedes *)
(* the wait.  In every other order the worker is on its way out.            *)
StopHangsOnlyIfRaced ==
  owner = "joining" => (pc \in {"woken", "exited"} \/ stopRaced)

(* After stop() no handler is called: what is still queued stays queued for  *)
(* the next start, unless stop() raced the worker's first pass.             *)
StopLeavesTheRest ==
  [][owner = "joining" /\ ~stopRaced => UNCHANGED <<actions, delivered>>]_vars

(* stop() returns, whatever is queued, when it did not race the first pass. *)
StopReturns == (owner = "joining" /\ ~stopRaced) ~> (owner = "free")

(* The dispatcher is an action queue that serves from start to stop, and    *)
(* that only a second start without a stop ends, for good.                  *)
Queue == INSTANCE ActionQueue WITH
           Actions <- Ids,
           open <- doLoop,
           serving <- doLoop /\ pc # "none" /\ owner # "aborted",
           ended <- owner = "aborted",
           pending <- actions,
           log <- handled

ImplementsActionQueue == Queue!Spec
===============================================================================
