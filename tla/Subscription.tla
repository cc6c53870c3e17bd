----------------------------- MODULE Subscription -----------------------------
(***************************************************************************)
(* What a subscriber of the change stream may rely on: a snapshot first,   *)
(* then every change in order.  It may lag behind or be disconnected, but  *)
(* what it was sent always adds up to a state the stream really had.       *)
(***************************************************************************)
EXTENDS Integers

CONSTANTS Client, MaxVersion

NoView == -1

VARIABLES
  version,  \* changes published so far
  view,     \* the version each subscriber's frames add up to
  ended     \* subscriptions that are over

vars == <<version, view, ended>>

Init == version = 0 /\ view = [c \in Client |-> NoView] /\ ended = {}

Publish ==
  /\ version' \in version..MaxVersion
  /\ UNCHANGED <<view, ended>>

Join(c) ==
  /\ c \notin ended /\ view[c] = NoView
  /\ \E v \in 0..version : view' = [view EXCEPT ![c] = v]
  /\ UNCHANGED <<version, ended>>

Learn(c) ==
  /\ c \notin ended /\ view[c] # NoView /\ view[c] < version
  /\ view' = [view EXCEPT ![c] = @ + 1]
  /\ UNCHANGED <<version, ended>>

Disconnect(C) ==
  /\ ended' = ended \cup C
  /\ UNCHANGED <<version, view>>

Next ==
  \/ Publish
  \/ \E c \in Client : Join(c) \/ Learn(c)
  \/ \E C \in SUBSET Client : Disconnect(C)

Spec == Init /\ [][Next]_vars
=============================================================================
