-------------------------------- MODULE Leases --------------------------------
(***************************************************************************)
(* What the pool of connection structures promises to the rest of the      *)
(* server: a structure is leased to one client at a time and to no more    *)
(* clients than the limit; when a client that was admitted has left, the   *)
(* structure rests for the time that threads may still need it; and every  *)
(* change of hands gives it a number it has never had, by which what is    *)
(* left of a former client is told.  There are no lists, no timers, no     *)
(* descriptors and no threads here.                                        *)
(***************************************************************************)
EXTENDS Integers, FiniteSets

CONSTANTS Conns,
          Limit,   \* clients that are allowed at a time
          Rest     \* how long a structure rests

VARIABLES now,
          held,      \* structures that a client has
          entering,  \* those of them whose client is not admitted yet
          resting,   \* structures whose client has left
          left,      \* when it left, 0 for the others
          number     \* how often a structure has changed hands

lvars == <<now, held, entering, resting, left, number>>

LInit ==
  /\ now = 0
  /\ held = {} /\ entering = {} /\ resting = {}
  /\ left = [c \in Conns |-> 0]
  /\ number \in [Conns -> Nat]

LTick == now' = now + 1 /\ UNCHANGED <<held, entering, resting, left, number>>

ChangesHands(c) == number' = [number EXCEPT ![c] = @ + 1]

LLease(c) ==
  /\ c \notin held \cup resting /\ Cardinality(held) < Limit
  /\ held' = held \cup {c} /\ entering' = entering \cup {c}
  /\ ChangesHands(c)
  /\ UNCHANGED <<now, resting, left>>

LAdmit(c) ==
  /\ c \in entering /\ entering' = entering \ {c}
  /\ UNCHANGED <<now, held, resting, left, number>>

\* Nobody has had anything to do with the client: no rest is needed.
LTurnAway(c) ==
  /\ c \in entering
  /\ held' = held \ {c} /\ entering' = entering \ {c}
  /\ ChangesHands(c)
  /\ UNCHANGED <<now, resting, left>>

LLeave(c) ==
  /\ c \in held \ entering
  /\ held' = held \ {c} /\ resting' = resting \cup {c}
  /\ left' = [left EXCEPT ![c] = now]
  /\ ChangesHands(c)
  /\ UNCHANGED <<now, entering>>

LRested(c) ==
  /\ c \in resting /\ now >= left[c] + Rest
  /\ resting' = resting \ {c}
  /\ left' = [left EXCEPT ![c] = 0]
  /\ ChangesHands(c)
  /\ UNCHANGED <<now, held, entering>>

LNext == \/ LTick
         \/ \E c \in Conns : \/ LLease(c) \/ LAdmit(c) \/ LTurnAway(c)
                             \/ LLeave(c) \/ LRested(c)

LSpec == LInit /\ [][LNext]_lvars
===============================================================================
