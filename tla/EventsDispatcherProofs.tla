------------------------ MODULE EventsDispatcherProofs ------------------------
(***************************************************************************)
(* Proofs about EventsDispatcher, for every set of storages and every      *)
(* number of emits and starts: the safety invariants, the action property  *)
(* of stop(), and that every step is a step of ActionQueue or a stutter.   *)
(***************************************************************************)
EXTENDS EventsDispatcher, SequenceTheorems, TLAPS

(* A storage occurs once in _storages. *)
NoDuplicates ==
  \A i, j \in 1..Len(storages) : storages[i] = storages[j] => i = j

(* What the worker delivers is at the head of the queue. *)
DeliversHead == pc = "delivering" => actions # <<>> /\ turn >= 1

(* A thread in join() has cleared _do_loop and has a worker to wait for; a *)
(* worker without _do_loop is being joined, and so is one that has ended.  *)
JoinState == /\ owner = "joining" => ~doLoop /\ pc # "none"
             /\ pc = "exited" \/ (pc # "none" /\ ~doLoop) => owner = "joining"

(* The inductive invariant: the four checked invariants and what makes     *)
(* them inductive.                                                         *)
IInv == /\ TypeOK
        /\ NoDuplicates
        /\ DeliversHead
        /\ JoinState
        /\ NoLostWakeup
        /\ StopHangsOnlyIfRaced
        /\ ExactlyOnceInOrder

(* The constants are the same in every state. *)
USE MaxEmitsAssumption, MaxStartsAssumption

(* The head of a non-empty queue can be moved to the end of another one    *)
(* without changing the concatenation.                                     *)
LEMMA MoveHead ==
  ASSUME NEW S, NEW s \in Seq(S), NEW t \in Seq(S), t # <<>>
  PROVE  Append(s, Head(t)) \o Tail(t) = s \o t
<1>1. Head(t) \in S /\ Tail(t) \in Seq(S) /\ <<Head(t)>> \in Seq(S)
  BY HeadTailProperties
<1>2. t = <<Head(t)>> \o Tail(t)
  <2>1. <<Head(t)>> \o Tail(t) \in Seq(S)
    BY <1>1, ConcatProperties
  <2>2. Len(<<Head(t)>> \o Tail(t)) = Len(t)
    BY <1>1, HeadTailProperties, ConcatProperties, LenProperties
  <2>3. \A i \in 1..Len(t) : t[i] = (<<Head(t)>> \o Tail(t))[i]
    BY <1>1, HeadTailProperties, ConcatProperties, LenProperties
  <2> QED
    BY <2>1, <2>2, <2>3, SeqEqual
<1>3. Append(s, Head(t)) = s \o <<Head(t)>>
  BY <1>1, AppendIsConcat
<1> QED
  BY <1>1, <1>2, <1>3, ConcatAssociative

(* Appending to the second of two sequences appends to the concatenation. *)
LEMMA AppendRight ==
  ASSUME NEW S, NEW s \in Seq(S), NEW t \in Seq(S), NEW e \in S
  PROVE  s \o Append(t, e) = Append(s \o t, e)
<1>1. s \o t \in Seq(S) /\ <<e>> \in Seq(S)
  BY ConcatProperties
<1>2. Append(t, e) = t \o <<e>> /\ Append(s \o t, e) = (s \o t) \o <<e>>
  BY <1>1, AppendIsConcat
<1> QED
  BY <1>1, <1>2, ConcatAssociative

-------------------------------------------------------------------------------
(* The invariant holds at the start. *)
LEMMA InitInv == Init => IInv
<1> SUFFICES ASSUME Init PROVE IInv
  OBVIOUS
<1>1. TypeOK
  <2>1. <<>> \in Seq(Ids) /\ <<>> \in Seq(Storages) /\ Len(storages) = 0
    BY EmptySeq DEF Init
  <2>2. missed \in [Storages -> Seq(Ids)] /\ delivered \in [Storages -> Seq(Ids)]
    BY <2>1 DEF Init
  <2>3. emits \in 0..MaxEmits /\ starts \in 0..MaxStarts /\ turn \in 0..(Len(storages) + 1)
    BY <2>1 DEF Init
  <2> QED
    BY <2>1, <2>2, <2>3 DEF Init, TypeOK, Pcs, Owners
<1>2. ExactlyOnceInOrder
  BY EmptySeq, ConcatEmptySeq DEF Init, ExactlyOnceInOrder, Subscribed
<1> QED
  BY <1>1, <1>2 DEF Init, IInv, NoDuplicates, DeliversHead, JoinState,
                    NoLostWakeup, StopHangsOnlyIfRaced

(* Every step preserves the types. *)
LEMMA TypeStep == ASSUME TypeOK, DeliversHead, Next PROVE TypeOK'
<1> USE DEF TypeOK, Pcs, Owners, Notified, Ids
<1>1. ASSUME NEW s \in Storages, Subscribe(s) PROVE TypeOK'
  BY <1>1, AppendProperties, LenProperties
     DEF Subscribe, worker, control
<1>2. CASE EmitAccepted
  BY <1>2, AppendProperties DEF EmitAccepted
<1>3. CASE EmitIgnored
  BY <1>3 DEF EmitIgnored, queue, worker, history
<1>4. CASE Start
  BY <1>4 DEF Start, history
<1>5. CASE StartAgain
  BY <1>5 DEF StartAgain, worker, history
<1>6. CASE StopUnstarted
  BY <1>6 DEF StopUnstarted, worker, control, history
<1>7. CASE Stop
  BY <1>7 DEF Stop, history
<1>8. CASE Join
  BY <1>8 DEF Join, queue, history
<1>9. CASE FirstLock
  BY <1>9 DEF FirstLock, queue, control, history
<1>10. CASE Take
  BY <1>10, LenProperties DEF Take, queue, control, history
<1>11. CASE Deliver
  <2>1. turn \in 1..Len(storages) /\ Len(storages) \in Nat
    BY <1>11, LenProperties DEF Deliver, DeliversHead
  <2>2. storages[turn] \in Storages
    BY <2>1, ElementOfSeq
  <2>3. Head(actions) \in Ids
    BY <1>11, HeadTailProperties DEF Deliver, DeliversHead
  <2>4. delivered' \in [Storages -> Seq(Ids)]
    BY <1>11, <2>2, <2>3, AppendProperties DEF Deliver
  <2>5. turn' \in 0..Len(storages) + 1
    BY <1>11, <2>1 DEF Deliver
  <2> QED
    BY <1>11, <2>4, <2>5 DEF Deliver, queue, control
<1>12. CASE Pop
  BY <1>12, AppendProperties, HeadTailProperties, LenProperties
     DEF Pop, control, DeliversHead
<1>13. CASE Wait
  BY <1>13 DEF Wait, queue, control, history
<1>14. CASE SpuriousWakeup
  BY <1>14 DEF SpuriousWakeup, queue, control, history
<1>15. CASE Relock
  BY <1>15 DEF Relock, queue, control, history
<1> QED
  BY <1>1, <1>2, <1>3, <1>4, <1>5, <1>6, <1>7, <1>8, <1>9, <1>10, <1>11, <1>12,
     <1>13, <1>14, <1>15 DEF Next, Client, Owner, Worker

(* Every step preserves the bookkeeping of subscriptions, worker and join(). *)
LEMMA ControlStep ==
  ASSUME IInv, Next
  PROVE  /\ NoDuplicates'
         /\ DeliversHead'
         /\ JoinState'
         /\ NoLostWakeup'
         /\ StopHangsOnlyIfRaced'
<1> USE DEF IInv, NoDuplicates, DeliversHead, JoinState, NoLostWakeup,
            StopHangsOnlyIfRaced, LockFree, Notified
<1>0. storages \in Seq(Storages) /\ Len(storages) \in Nat /\ turn \in Nat /\ pc \in Pcs
  BY LenProperties DEF TypeOK
<1>1. ASSUME NEW s \in Storages, Subscribe(s)
      PROVE  NoDuplicates' /\ UNCHANGED <<actions, pc, turn, doLoop, owner, stopRaced>>
  <2>1. storages' = Append(storages, s)
    BY <1>1 DEF Subscribe
  <2>2. Len(storages') = Len(storages) + 1
    BY <1>0, <2>1, AppendProperties
  <2>3. \A i \in 1..Len(storages) : storages'[i] = storages[i] /\ storages[i] # s
    BY <1>0, <1>1, <2>1, AppendProperties DEF Subscribe, Subscribed
  <2>4. storages'[Len(storages) + 1] = s
    BY <1>0, <2>1, AppendProperties
  <2>5. NoDuplicates'
    BY <1>0, <2>2, <2>3, <2>4
  <2> QED
    BY <1>1, <2>5 DEF Subscribe, worker, control
<1>2. CASE EmitAccepted
  BY <1>2 DEF EmitAccepted
<1>3. CASE EmitIgnored
  BY <1>3 DEF EmitIgnored, queue, worker
<1>4. CASE Start
  BY <1>4 DEF Start
<1>5. CASE StartAgain
  BY <1>5 DEF StartAgain, worker
<1>6. CASE StopUnstarted
  BY <1>6 DEF StopUnstarted, worker, control
<1>7. CASE Stop
  BY <1>7, <1>0 DEF Stop, Pcs
<1>8. CASE Join
  BY <1>8 DEF Join, queue
<1>9. CASE FirstLock
  BY <1>9 DEF FirstLock, queue, control
<1>10. CASE Take
  BY <1>10 DEF Take, queue, control
<1>11. CASE Deliver
  BY <1>11, <1>0 DEF Deliver, queue, control
<1>12. CASE Pop
  BY <1>12 DEF Pop, control
<1>13. CASE Wait
  BY <1>13 DEF Wait, queue, control
<1>14. CASE SpuriousWakeup
  BY <1>14 DEF SpuriousWakeup, queue, control
<1>15. CASE Relock
  BY <1>15 DEF Relock, queue, control
<1> QED
  BY <1>1, <1>2, <1>3, <1>4, <1>5, <1>6, <1>7, <1>8, <1>9, <1>10, <1>11, <1>12,
     <1>13, <1>14, <1>15 DEF Next, Client, Owner, Worker

(* Every step preserves exactly-once delivery in order. *)
LEMMA DeliveryStep == ASSUME IInv, Next PROVE ExactlyOnceInOrder'
<1> USE DEF ExactlyOnceInOrder, Seen
<1>0. /\ storages \in Seq(Storages) /\ Len(storages) \in Nat /\ turn \in 0..(Len(storages) + 1)
      /\ actions \in Seq(Ids) /\ handled \in Seq(Ids) /\ accepted = handled \o actions
      /\ \A s \in Storages : missed[s] \in Seq(Ids) /\ delivered[s] \in Seq(Ids)
  BY LenProperties DEF IInv, TypeOK
<1>1. ASSUME NEW t \in Storages, Subscribe(t) PROVE ExactlyOnceInOrder'
  <2>1. Served = {} /\ Served' = {}
    BY <1>1 DEF Served, Subscribe, LockFree, worker
  <2>2. Subscribed' = Subscribed \cup {t}
    <3>1. /\ Len(storages') = Len(storages) + 1
          /\ \A i \in 1..Len(storages) : storages'[i] = storages[i]
          /\ storages'[Len(storages) + 1] = t
      BY <1>0, <1>1, AppendProperties DEF Subscribe
    <3>2. 1..Len(storages') = 1..Len(storages) \cup {Len(storages) + 1}
      BY <1>0, <3>1
    <3> QED
      BY <3>1, <3>2 DEF Subscribed
  <2>3. UNCHANGED <<accepted, handled, actions, delivered>>
    BY <1>1 DEF Subscribe
  <2>4. missed' = [missed EXCEPT ![t] = handled] /\ t \notin Subscribed
    BY <1>1 DEF Subscribe
  <2>5. missed'[t] = handled /\ \A s \in Storages \ {t} : missed'[s] = missed[s]
    BY <2>4 DEF IInv, TypeOK
  <2>6. handled \o <<>> = handled
    BY <1>0, ConcatEmptySeq
  <2>7. ASSUME NEW u \in Storages
        PROVE  IF u \in Subscribed' THEN missed'[u] \o delivered'[u] = Seen(u)'
                                    ELSE delivered'[u] = <<>>
    <3>1. CASE u = t
      BY <3>1, <2>1, <2>2, <2>3, <2>4, <2>5, <2>6 DEF IInv
    <3>2. CASE u # t
      BY <3>2, <2>1, <2>2, <2>3, <2>5 DEF IInv
    <3> QED
      BY <3>1, <3>2
  <2> QED
    BY <1>0, <2>3, <2>7
<1>2. CASE EmitAccepted
  <2>1. Served = {} /\ Served' = {}
    BY <1>2 DEF Served, EmitAccepted, LockFree, Notified
  <2>2. emits + 1 \in Ids
    BY <1>2 DEF EmitAccepted, Ids, IInv, TypeOK
  <2>3. accepted' = handled \o actions'
    <3>1. handled \o Append(actions, emits + 1) = Append(handled \o actions, emits + 1)
      BY <1>0, <2>2, AppendRight
    <3> QED
      BY <1>0, <1>2, <3>1 DEF EmitAccepted
  <2>4. UNCHANGED <<handled, missed, delivered, Subscribed>>
    BY <1>2 DEF EmitAccepted, Subscribed
  <2> QED
    BY <2>1, <2>3, <2>4 DEF IInv
<1>3. CASE Deliver
  <2> DEFINE s == storages[turn]
  <2>1. turn \in 1..Len(storages) /\ actions # <<>>
    BY <1>0, <1>3 DEF IInv, DeliversHead, Deliver
  <2>2. s \in Storages /\ s \in Subscribed /\ Head(actions) \in Ids
    BY <1>0, <2>1, ElementOfSeq, HeadTailProperties DEF Subscribed
  <2>3. s \notin Served
    <3> SUFFICES ASSUME NEW i \in 1..(turn - 1), storages[i] = storages[turn]
                 PROVE  FALSE
      BY DEF Served
    <3>1. i \in 1..Len(storages) /\ i # turn
      BY <1>0, <2>1
    <3> QED
      BY <2>1, <3>1 DEF IInv, NoDuplicates
  <2>4. Served' = Served \cup {s}
    <3>1. 1..(turn' - 1) = 1..(turn - 1) \cup {turn}
      BY <2>1, <1>3 DEF Deliver
    <3> QED
      BY <3>1, <1>3 DEF Deliver, queue, Served
  <2>5. /\ delivered'[s] = Append(delivered[s], Head(actions))
        /\ \A u \in Storages \ {s} : delivered'[u] = delivered[u]
    BY <1>3, <2>2 DEF Deliver, IInv, TypeOK
  <2>6. UNCHANGED <<accepted, handled, actions, missed, Subscribed>>
    BY <1>3 DEF Deliver, queue, Subscribed
  <2>7. missed[s] \o delivered[s] = handled
    BY <2>2, <2>3 DEF IInv
  <2>8. missed[s] \o delivered'[s] = Append(handled, Head(actions))
    <3>1. missed[s] \in Seq(Ids) /\ delivered[s] \in Seq(Ids)
      BY <1>0, <2>2
    <3>2. \A a, b \in Seq(Ids), e \in Ids : a \o Append(b, e) = Append(a \o b, e)
      BY AppendRight
    <3>3. missed[s] \o Append(delivered[s], Head(actions))
            = Append(missed[s] \o delivered[s], Head(actions))
      BY <2>2, <3>1, <3>2
    <3> QED
      BY <2>5, <2>7, <3>3
  <2>9. ASSUME NEW u \in Storages
        PROVE  IF u \in Subscribed' THEN missed'[u] \o delivered'[u] = Seen(u)'
                                    ELSE delivered'[u] = <<>>
    <3>1. CASE u = s
      BY <3>1, <2>2, <2>4, <2>6, <2>8
    <3>2. CASE u # s
      BY <3>2, <2>4, <2>5, <2>6 DEF IInv
    <3> QED
      BY <3>1, <3>2
  <2> QED
    BY <1>0, <2>6, <2>9
<1>4. CASE Pop
  <2>1. actions # <<>> /\ turn = Len(storages) + 1
    BY <1>0, <1>4 DEF IInv, DeliversHead, Pop
  <2>2. Served = Subscribed /\ Served' = {}
    BY <1>0, <1>4, <2>1 DEF Served, Subscribed, Pop
  <2>3. accepted' = handled' \o actions'
    BY <1>0, <1>4, <2>1, MoveHead DEF Pop
  <2>4. UNCHANGED <<missed, delivered, Subscribed>>
    BY <1>4 DEF Pop, Subscribed
  <2>5. handled' = Append(handled, Head(actions))
    BY <1>4 DEF Pop
  <2> QED
    BY <2>2, <2>3, <2>4, <2>5 DEF IInv
<1>5. CASE Take
  <2>1. Served = {} /\ Served' = {}
    BY <1>5 DEF Served, Take
  <2> QED
    BY <1>5, <2>1 DEF IInv, Take, queue, history, Subscribed
<1>6. ASSUME EmitIgnored \/ Start \/ StartAgain \/ StopUnstarted \/ Stop \/ Join
             \/ FirstLock \/ Wait \/ SpuriousWakeup \/ Relock
      PROVE  ExactlyOnceInOrder'
  <2>1. pc # "delivering" /\ pc' # "delivering"
    BY <1>6 DEF EmitIgnored, Start, StartAgain, StopUnstarted, Stop, Join, FirstLock,
                Wait, SpuriousWakeup, Relock, LockFree, Notified, worker
  <2>2. Served = {} /\ Served' = {}
    BY <2>1 DEF Served
  <2>3. UNCHANGED <<storages, actions, history>>
    BY <1>6 DEF EmitIgnored, Start, StartAgain, StopUnstarted, Stop, Join, FirstLock,
                Wait, SpuriousWakeup, Relock, queue
  <2> QED
    BY <2>2, <2>3 DEF IInv, history, Subscribed
<1> QED
  BY <1>1, <1>2, <1>3, <1>4, <1>5, <1>6 DEF Next, Client, Owner, Worker

(* A stuttering step changes nothing the invariant reads. *)
LEMMA StutterStep == ASSUME IInv, UNCHANGED vars PROVE IInv'
<1>1. TypeOK' /\ NoDuplicates' /\ DeliversHead' /\ JoinState' /\ NoLostWakeup'
      /\ StopHangsOnlyIfRaced'
  BY DEF IInv, TypeOK, NoDuplicates, DeliversHead, JoinState, NoLostWakeup,
         StopHangsOnlyIfRaced, vars
<1>2. UNCHANGED <<Subscribed, Served>>
  BY DEF Subscribed, Served, vars
<1>3. ExactlyOnceInOrder'
  BY <1>2 DEF IInv, ExactlyOnceInOrder, Seen, vars
<1> QED
  BY <1>1, <1>3 DEF IInv

(* The inductive invariant holds of every behaviour. *)
LEMMA Invariance == Spec => []IInv
<1>1. IInv /\ [Next]_vars => IInv'
  BY TypeStep, ControlStep, DeliveryStep, StutterStep DEF IInv
<1> QED
  BY InitInv, <1>1, PTL DEF Spec

(* Type correctness. *)
THEOREM TypeCorrect == Spec => []TypeOK
BY Invariance, PTL DEF IInv

(* The worker never sleeps on a non-empty queue. *)
THEOREM WakeupCorrect == Spec => []NoLostWakeup
BY Invariance, PTL DEF IInv

(* Every storage gets every action handled since it subscribed, once and in *)
(* order, whatever emit, subscribe, start and stop do meanwhile.           *)
THEOREM DeliveryCorrect == Spec => []ExactlyOnceInOrder
BY Invariance, PTL DEF IInv

(* join() can block for good only behind a stop that raced the first lock. *)
THEOREM StopHangCharacterised == Spec => []StopHangsOnlyIfRaced
BY Invariance, PTL DEF IInv

(* Once stop() is waiting for a worker it did not outrun, no handler runs   *)
(* and the queue stays as it is.                                           *)
THEOREM StopIsFinal == Spec => StopLeavesTheRest
<1>1. ASSUME IInv, Next, owner = "joining", ~stopRaced
      PROVE  UNCHANGED <<actions, delivered>>
  <2>1. pc \in {"woken", "exited"} /\ ~doLoop
    BY <1>1 DEF IInv, StopHangsOnlyIfRaced, JoinState
  <2>2. EmitIgnored \/ Join \/ Relock \/ \E s \in Storages : Subscribe(s)
    BY <1>1, <2>1 DEF Next, Client, Owner, Worker, EmitAccepted, Start, StartAgain, StopUnstarted,
                      Stop, FirstLock, Take, Deliver, Pop, Wait, SpuriousWakeup
  <2> QED
    BY <2>2 DEF EmitIgnored, Join, Relock, Subscribe, queue, history
<1>2. IInv /\ [Next]_vars => [owner = "joining" /\ ~stopRaced => UNCHANGED <<actions, delivered>>]_vars
  BY <1>1
<1> QED
  BY Invariance, <1>2, PTL DEF Spec, StopLeavesTheRest

-------------------------------------------------------------------------------
(* The dispatcher implements the safety part of ActionQueue: the queue of   *)
(* actions is its pending sequence, the popped actions its log.            *)
THEOREM Refinement == Spec => Queue!Safe
<1> USE DEF Queue!vars, Queue!Next, Queue!Put, Queue!Handle, Queue!Open, Queue!OpenServed,
           Queue!Close
<1>1. Init => Queue!Init
  BY DEF Init, Queue!Init
<1>2. ASSUME IInv, Next PROVE [Queue!Next]_(Queue!vars)
  <2>0. doLoop \in BOOLEAN /\ emits \in 0..MaxEmits
    BY <1>2 DEF IInv, TypeOK
  <2>1. ASSUME NEW s \in Storages, Subscribe(s) PROVE UNCHANGED Queue!vars
    BY <2>1 DEF Subscribe, worker, control
  <2>2. CASE EmitAccepted
    <3>1. emits + 1 \in Ids /\ actions' = Append(actions, emits + 1)
      BY <2>0, <2>2 DEF EmitAccepted, Ids
    <3>2. UNCHANGED <<doLoop, doLoop /\ pc # "none" /\ owner # "aborted", handled>>
      BY <2>2 DEF EmitAccepted, Notified
    <3>3. doLoop /\ owner # "aborted" /\ UNCHANGED owner
      BY <1>2, <2>2 DEF EmitAccepted, Next
    <3> QED
      BY <3>1, <3>2, <3>3
  <2>3. CASE EmitIgnored
    BY <2>3 DEF EmitIgnored, queue, worker, history
  <2>4. CASE Start
    BY <1>2, <2>4 DEF Start, history, Next
  <2>5. CASE StartAgain
    <3>1. doLoop /\ pc # "none" /\ owner = "free"
      BY <1>2, <2>5 DEF StartAgain, IInv, JoinState
    <3> QED
      BY <3>1, <2>5 DEF StartAgain, worker, history
  <2>6. CASE StopUnstarted
    BY <2>6 DEF StopUnstarted, worker, control, history
  <2>7. CASE Stop
    BY <2>7 DEF Stop, history
  <2>8. CASE Join
    BY <1>2, <2>8 DEF Join, queue, history, IInv, JoinState
  <2>9. CASE Pop
    <3>1. actions # <<>> /\ pc # "none" /\ owner # "aborted"
      BY <1>2, <2>9 DEF Pop, IInv, DeliversHead, Next
    <3> QED
      BY <2>9, <3>1 DEF Pop, control
  <2>10. CASE FirstLock \/ Take \/ Wait \/ SpuriousWakeup
    BY <2>10 DEF FirstLock, Take, Wait, SpuriousWakeup, queue, control, history
  <2>11. CASE Deliver
    BY <2>11 DEF Deliver, queue, control
  <2>12. CASE Relock
    BY <2>12 DEF Relock, queue, control, history
  <2> QED
    BY <1>2, <2>1, <2>2, <2>3, <2>4, <2>5, <2>6, <2>7, <2>8, <2>9, <2>10, <2>11, <2>12
       DEF Next, Client, Owner, Worker
<1>3. IInv /\ UNCHANGED vars => UNCHANGED Queue!vars
  BY DEF vars
<1>4. IInv /\ [Next]_vars => [Queue!Next]_(Queue!vars)
  BY <1>2, <1>3
<1> QED
  BY Invariance, <1>1, <1>4, PTL DEF Spec, Queue!Safe
===============================================================================
