-------------------------- MODULE MCEventsDispatcher --------------------------
(* EventsDispatcher for TLC: two storages, a few emits, one restart. *)
EXTENDS EventsDispatcher

CONSTANTS s1, s2

MCStorages == {s1, s2}
===============================================================================
