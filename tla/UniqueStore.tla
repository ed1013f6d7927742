----------------------------- MODULE UniqueStore -----------------------------
(***************************************************************************)
(* What a deduplicating table promises its callers: a set of keys that     *)
(* only ever grows by keys it does not have, that is saved under a path as *)
(* a whole or not at all, and that a later session continues exactly where *)
(* the saved one stood.  A store may refuse any key.                       *)
(***************************************************************************)
EXTENDS Naturals

CONSTANTS
  Keys,      \* the keys
  Places     \* where a store can be saved

VARIABLES
  on,        \* is a store in use?
  live,      \* its keys
  taken,     \* how many it has taken in since it is in use
  stored     \* the store each place holds: {keys}, or {} for none

svars == <<on, live, taken, stored>>

StoreInit ==
  /\ on = FALSE
  /\ live = {} /\ taken = 0
  /\ stored = [p \in Places |-> {}]

Create ==
  /\ ~on
  /\ on' = TRUE /\ live' = {} /\ taken' = 0
  /\ UNCHANGED stored

Continue(p) ==
  /\ ~on
  /\ live' \in stored[p]
  /\ on' = TRUE /\ taken' = 0
  /\ UNCHANGED stored

Admit(k) ==
  /\ on /\ k \notin live
  /\ live' = live \cup {k} /\ taken' = taken + 1
  /\ UNCHANGED <<on, stored>>

\* A place is given up, by this store or by somebody else.
Lose(p) ==
  /\ stored' = [stored EXCEPT ![p] = {}]
  /\ UNCHANGED <<on, live, taken>>

Save(p) ==
  /\ on
  /\ stored' = [stored EXCEPT ![p] = {live}]
  /\ UNCHANGED <<on, live, taken>>

Leave ==
  /\ on
  /\ on' = FALSE /\ live' = {} /\ taken' = 0
  /\ UNCHANGED stored

StoreNext ==
  \/ Create
  \/ \E p \in Places : Continue(p) \/ Lose(p) \/ Save(p)
  \/ \E k \in Keys : Admit(k)
  \/ Leave

StoreSpec == StoreInit /\ [][StoreNext]_svars
=============================================================================
