-------------------------------- MODULE Outbox --------------------------------
(***************************************************************************)
(* What the sending half of CSocket promises a client: the bytes it gets   *)
(* are whole replies to its own requests, one after the other, none of     *)
(* them twice; only the last one may be cut short.  A client that has      *)
(* ended its side may find a reply cut short with another after it, but    *)
(* neither a gap nor a reply twice.  In which order, and whether at all,   *)
(* replies are sent is left open.                                          *)
(***************************************************************************)
EXTENDS Naturals, Sequences

CONSTANTS Clients, Msgs, MsgLen, None

VARIABLES from,  \* from[m]: the client whose request m answers
          wire,  \* wire[k]: the units <<m, i>> of replies sent to client k
          ended  \* the clients that have ended, or were closed

ovars == <<from, wire, ended>>

OInit == /\ from = [m \in Msgs |-> None]
         /\ wire = [k \in Clients |-> <<>>]
         /\ ended = {}

\* Units i to j of reply m.
Part(m, i, j) == [n \in 1..(j - i + 1) |-> <<m, i + n - 1>>]

ORequest(m, k) == /\ from[m] = None
                  /\ from' = [from EXCEPT ![m] = k]
                  /\ UNCHANGED <<wire, ended>>

OEnd(k) == /\ ended' = ended \cup {k}
           /\ UNCHANGED <<from, wire>>

Cut(w) == w # <<>> /\ w[Len(w)][2] < MsgLen

\* The reply that is cut on the wire goes on, or a new one starts.
OSend(m, i, j) ==
  LET w == wire[from[m]] IN
  /\ \/ Cut(w) /\ <<m, i - 1>> = w[Len(w)]
     \/ /\ ~Cut(w) \/ from[m] \in ended
        /\ i = 1 /\ \A n \in 1..Len(w) : w[n][1] # m
  /\ wire' = [wire EXCEPT ![from[m]] = w \o Part(m, i, j)]
  /\ UNCHANGED <<from, ended>>

ONext == \/ \E k \in Clients : OEnd(k)
         \/ \E m \in Msgs :
              \/ \E k \in Clients : ORequest(m, k)
              \/ /\ from[m] # None
                 /\ \E i \in 1..MsgLen : \E j \in i..MsgLen : OSend(m, i, j)

OSpec == OInit /\ [][ONext]_ovars
===============================================================================
