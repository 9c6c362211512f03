--------------------------- MODULE UpstreamDemand ---------------------------
(***************************************************************************)
(* What demand-driven ingestion promises (DEC-027), with no registry, no   *)
(* indices and no demand changes: there are consumers, each interested in  *)
(* some topics, and while the hub serves, the upstream channels are those  *)
(* of the configured topics that somebody is interested in, in every       *)
(* state.                                                                  *)
(***************************************************************************)
CONSTANTS Consumers, Topics, Configured

VARIABLES interest,   \* who wants what: a set of <<consumer, topic>>
          serving,    \* the hub has not begun to shut ingestion down
          channels    \* the topics subscribed upstream

vars == <<interest, serving, channels>>

WantedBy(i) == {t \in Configured : \E c \in Consumers : <<c, t>> \in i}

Init ==
  /\ interest = {}
  /\ serving = TRUE
  /\ channels = {}

\* The channels follow every change of interest in the same step.
Follow == channels' = IF serving THEN WantedBy(interest') ELSE channels

Want(c, t) ==
  /\ interest' = interest \cup {<<c, t>>}
  /\ Follow
  /\ UNCHANGED serving

Unwant(c, t) ==
  /\ interest' = interest \ {<<c, t>>}
  /\ Follow
  /\ UNCHANGED serving

\* One consumer leaves and takes all of its interest with it.
Leave(c) ==
  /\ interest' = {i \in interest : i[1] # c}
  /\ Follow
  /\ UNCHANGED serving

Close ==
  /\ serving' = FALSE
  /\ channels' = {}
  /\ UNCHANGED interest

Next ==
  \/ \E c \in Consumers, t \in Topics : Want(c, t) \/ Unwant(c, t)
  \/ \E c \in Consumers : Leave(c)
  \/ Close

Spec == Init /\ [][Next]_vars
=============================================================================
