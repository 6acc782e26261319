----------------------------- MODULE ObjectPrinter -----------------------------
(***************************************************************************)
(* Printing an object of a result (cli/src/tools.cxx).  print_object prints *)
(* what an object refers to, and so on: the functions call each other, and  *)
(* the stack of their frames is the state.  An instance is unfolded down to *)
(* max_level, an array of objects at every level.                           *)
(*                                                                          *)
(* Of an object only its references count, in the order of their printing:  *)
(* the fields of an instance, the static fields of its class and of those   *)
(* above, the elements of an array.  Classes do not occur: find_object      *)
(* returns none and no query selects one, nor arrays (HeapQuery).           *)
(***************************************************************************)
EXTENDS Integers, Sequences, SequencesExt, FiniteSets

CONSTANTS Ids,         \* of objects, 0 not among them
          Heaps,       \* id -> [kind, refs]
          MaxLevel,    \* the program calls it with 3
          StackRoom    \* bound: frames the stack has room for

Kinds == {"object", "classless", "array", "string", "primitives"}

ASSUME IdsAssumption == Ids \subseteq Nat \ {0} /\ IsFiniteSet(Ids)
ASSUME LevelAssumption == MaxLevel \in Nat /\ StackRoom \in Nat
ASSUME RoomAssumption == StackRoom > MaxLevel + Cardinality(Ids)
ASSUME HeapsAssumption == \A h \in Heaps : /\ DOMAIN h \subseteq Ids
                                           /\ \A id \in DOMAIN h : /\ h[id].kind \in Kinds
                                                                    /\ h[id].refs \in Seq(Nat)

VARIABLES
  objects,  \* the heap
  root,     \* the object of the result
  calls,    \* frames of print_instance and print_object_array, the level of the
            \* n-th being n - 1: whose they are, and the references not printed yet
  phase,    \* "called" for the root, "printing", "done", or the end of the process:
            \* "overflow" of the stack, or "crashed" at a null class
  shown     \* history: the objects printed

printerVars == <<objects, root, calls, phase, shown>>

Top == Last(calls)
Level == Len(calls)    \* of what is printed next

\* an instance below max_level, an array everywhere
Unfolds(id) ==
  \/ objects[id].kind = "object" /\ Level < MaxLevel
  \/ objects[id].kind = "array"

\* print_object of an object that was found; whether an instance has a class is
\* looked at, but its super class is asked for all the same
PrintObject(id, frames) ==
  IF objects[id].kind = "classless" THEN phase' = "crashed" /\ UNCHANGED <<calls, shown>>
  ELSE /\ shown' = shown \cup {id}
       /\ IF ~Unfolds(id) THEN calls' = frames /\ phase' = "printing"
          ELSE IF Len(calls) = StackRoom THEN phase' = "overflow" /\ UNCHANGED calls
          ELSE /\ calls' = Append(frames, [of |-> id, left |-> objects[id].refs])
               /\ phase' = "printing"

PrinterInit == /\ objects \in Heaps
               /\ root \in {id \in DOMAIN objects : objects[id].kind \in {"object", "string"}}
               /\ calls = <<>> /\ shown = {}
               /\ phase = "called"

Call == /\ phase = "called"
        /\ PrintObject(root, <<>>)
        /\ UNCHANGED <<objects, root>>

\* the next round of a loop over fields or elements: a null or dangling reference
\* is a word (or, in an array, the same word twice) and no call that unfolds
Round(leftWhenFound, leftWhenMissing) ==
  /\ phase = "printing" /\ calls # <<>> /\ Top.left # <<>>
  /\ LET id == Head(Top.left)
         Frames(left) == [calls EXCEPT ![Len(calls)].left = left]
     IN IF id \in DOMAIN objects THEN PrintObject(id, Frames(leftWhenFound))
        ELSE calls' = Frames(leftWhenMissing) /\ UNCHANGED <<phase, shown>>
  /\ UNCHANGED <<objects, root>>

\* faults: a missing object ends the loop, or keeps it
PrintNextStopping == Round(Tail(Top.left), <<>>)
PrintNextStuck == Round(Tail(Top.left), Top.left)

PrintNext == Round(Tail(Top.left), Tail(Top.left))

Return == /\ phase = "printing"
          /\ calls # <<>> /\ Top.left = <<>>
          /\ calls' = Front(calls)
          /\ UNCHANGED <<objects, root, phase, shown>>

FinishPrinting == /\ phase = "printing" /\ calls = <<>>
                  /\ phase' = "done"
                  /\ UNCHANGED <<objects, root, calls, shown>>

PrinterNext == Call \/ PrintNext \/ Return \/ FinishPrinting

PrinterSpec == PrinterInit /\ [][PrinterNext]_printerVars /\ WF_printerVars(PrinterNext)

-------------------------------------------------------------------------------
\* The reference: the ways from the root, an id per level, on which all but the
\* last are unfolded.
RefsOf(id) == IF id \in DOMAIN objects THEN ToSet(objects[id].refs) \cap DOMAIN objects ELSE {}
UnfoldedAt(id, level) == \/ objects[id].kind = "object" /\ level < MaxLevel
                         \/ objects[id].kind = "array"
Reached == LET at[level \in 0..StackRoom] ==
                 IF level = 0 THEN {root}
                 ELSE UNION {RefsOf(id) : id \in {i \in at[level - 1] : UnfoldedAt(i, level - 1)}}
           IN at
All == UNION {Reached[level] : level \in 0..StackRoom}

Elements(ids) == UNION {RefsOf(id) : id \in ids}
Arrays == {id \in DOMAIN objects : objects[id].kind = "array"}
ArrayCycle(id) == LET below[n \in 0..Cardinality(Ids)] ==
                        IF n = 0 THEN RefsOf(id) \cap Arrays
                        ELSE below[n - 1] \cup (Elements(below[n - 1]) \cap Arrays)
                  IN id \in Arrays /\ id \in below[Cardinality(Ids)]

\* Only arrays that contain themselves, directly or through other arrays, exhaust
\* the stack: circles through instances end at max_level (cli/src/tools.cxx:126,
\* :212).  Printing that ends has shown every object the reference reaches, with an object
\* that is met again shown again: what lies below it may depend on the level.
ShownExactly ==
  /\ phase = "overflow" => \E id \in All : ArrayCycle(id)
  /\ phase = "done" => shown = All /\ \A id \in All : objects[id].kind # "classless"

\* Printing ends for every object from which neither an array within itself nor an
\* instance without a class is reached.
Printable == \A id \in All : ~ArrayCycle(id) /\ objects[id].kind # "classless"
PrintsUnlessCyclic == Printable ~> (phase = "done")
===============================================================================
