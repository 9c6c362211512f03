---------------------------- MODULE InMemoryBus ----------------------------
(***************************************************************************)
(* InMemoryBus (packages/core-memory/src/in-memory-bus.ts): whose handlers *)
(* a topic has, as the surfaces that subscribe see it.  subs is the field  *)
(* of that name; a consumer has at most one handler on a topic, and keeps  *)
(* the function that takes it off under the topic in a Map of its own      *)
(* (held: its keys).  Whose `active` flag is still set is who is in held:  *)
(* every caller forgets the function with the call.  A topic without       *)
(* handlers leaves the Map, which no reader tells from an empty set.       *)
(* Publication is modelled where its order matters, in Resync and          *)
(* OrderBook.                                                              *)
(***************************************************************************)

\* subscribe(t) by c.
Subscribed(subs, c, t) == [subs EXCEPT ![t] = @ \cup {c}]

\* Every function that each of cs holds is called.
Released(subs, cs, held) == [t \in DOMAIN subs |-> subs[t] \ {c \in cs : t \in held[c]}]

\* The function c holds for t is called.
Unsubscribed(subs, c, t) == [subs EXCEPT ![t] = @ \ {c}]
=============================================================================
