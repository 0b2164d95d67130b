------------------------------ MODULE Delivery ------------------------------
(***************************************************************************)
(* What the http output promises for the events it is given, whatever the  *)
(* number of workers, hosts, requests and retries: an event is owed until  *)
(* a receiver has stored it or refused it for good (status 400 or 500), or *)
(* until its retries run out, which never happens to a guaranteed event.   *)
(* A receiver may store an event again, also after the output is done with *)
(* it: delivery is at least once.                                          *)
(***************************************************************************)
CONSTANTS
  Events,     \* the events handed to the output
  Guaranteed  \* no event may run out of retries

VARIABLES
  owed,       \* events the output still has to publish
  stored,     \* events stored by a receiver
  rejected,   \* events a receiver refused for good
  expired     \* events given up because their retries ran out

vars == <<owed, stored, rejected, expired>>

Init ==
  /\ owed = Events
  /\ stored = {} /\ rejected = {} /\ expired = {}

\* A receiver stores events, perhaps some it has already.
Store ==
  /\ stored' \in SUBSET Events
  /\ stored \subseteq stored'
  /\ UNCHANGED <<owed, rejected, expired>>

\* A receiver refuses events for good.
Reject ==
  /\ rejected' \in SUBSET Events
  /\ rejected \subseteq rejected'
  /\ UNCHANGED <<owed, stored, expired>>

\* The output is done with some events: each is settled, or it has expired.
Release ==
  /\ owed' \in SUBSET owed
  /\ expired' \in SUBSET (expired \cup (owed \ owed'))
  /\ expired \subseteq expired'
  /\ owed \ owed' \subseteq stored \cup rejected \cup expired'
  /\ Guaranteed => expired' = expired
  /\ UNCHANGED <<stored, rejected>>

Next == Store \/ Reject \/ Release

Spec == Init /\ [][Next]_vars

\* Nothing is lost: an event that is no longer owed was stored, refused for
\* good, or expired; and a guaranteed event does not expire.
NothingLost ==
  /\ Events \subseteq owed \cup stored \cup rejected \cup expired
  /\ Guaranteed => expired = {}
=============================================================================
