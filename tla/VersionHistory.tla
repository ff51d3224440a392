--------------------------- MODULE VersionHistory ---------------------------
(***************************************************************************)
(* What the package promises about one Agent, with no statement, failure   *)
(* or retry in sight: a history in which each content appears once, in the *)
(* order of its first deployment; a pin into that history that only a      *)
(* DEFAULT statement moves; aliases that name existing versions, at most   *)
(* one per version.                                                        *)
(***************************************************************************)
EXTENDS Naturals, Sequences

CONSTANTS Content, Alias

VARIABLES
  history,  \* the contents of VERSION$1, VERSION$2, ...
  pin,      \* the version DEFAULT is pinned to, 0 while it follows the newest
  routes    \* the version each alias names, 0 for none

hvars == <<history, pin, routes>>

Released == [a \in Alias |-> 0]

WellRouted(r, n) ==
  /\ r \in [Alias -> 0..n]
  /\ \A a, b \in Alias : r[a] = r[b] /\ r[a] # 0 => a = b

\* No Agent, or an adopted one with a single version.
HInit ==
  /\ history = <<>> \/ \E c \in Content : history = <<c>>
  /\ pin = 0
  /\ routes = Released

\* Content enters the history once; what serves by pin goes on serving.
Publish ==
  /\ \E c \in Content : /\ \A v \in DOMAIN history : history[v] # c
                        /\ history' = Append(history, c)
  /\ UNCHANGED <<pin, routes>>

Pin ==
  /\ pin' \in DOMAIN history
  /\ UNCHANGED <<history, routes>>

Reroute ==
  /\ WellRouted(routes', Len(history))
  /\ UNCHANGED <<history, pin>>

Retire ==
  /\ history' = <<>>
  /\ pin' = 0
  /\ routes' = Released

HNext == Publish \/ Pin \/ Reroute \/ Retire

HSpec == HInit /\ [][HNext]_hvars
=============================================================================
