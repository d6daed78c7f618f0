------------------------------- MODULE Lending -------------------------------
(***************************************************************************)
(* What the connection pool promises its users, without backends, channels *)
(* or quotas: connections are lent.  Who asks for an address gets a        *)
(* connection to that address, new or one that nobody else has, and open;  *)
(* or gives up.  A connection is given back once and is then on its way    *)
(* until the pool has kept or closed it.  Connections to a broker that is  *)
(* gone may be closed under their users, and a closed one is never lent    *)
(* again.                                                                  *)
(***************************************************************************)
CONSTANTS
    Threads,   \* goroutines that borrow
    Conns,     \* connections
    Addrs      \* broker addresses

VARIABLES
    wants,     \* [Threads -> the addresses a call in progress may be served by]
    to,        \* [Conns -> {its address}, or {} if it is not dialled yet]
    lent,      \* [Threads -> the connections it has]
    back,      \* connections given back that the pool has not dealt with
    closed     \* connections that are closed

vars == <<wants, to, lent, back, closed>>

Init ==
    /\ wants = [t \in Threads |-> {}]
    /\ to = [c \in Conns |-> {}]
    /\ lent = [t \in Threads |-> {}]
    /\ back = {}
    /\ closed = {}

(* A thread asks for a connection to an address, or to any.                *)
Ask(t) ==
    /\ wants[t] = {}
    /\ \E as \in {Addrs} \cup {{a} : a \in Addrs} : wants' = [wants EXCEPT ![t] = as]
    /\ UNCHANGED <<to, lent, back, closed>>

(* Its call returns with none.                                             *)
GiveUp(t) ==
    /\ wants' = [wants EXCEPT ![t] = {}]
    /\ UNCHANGED <<to, lent, back, closed>>

(* Nobody has the connection.                                              *)
Free(c) == c \notin back /\ \A t \in Threads : c \notin lent[t]

Lend(t, c) ==
    /\ Free(c)
    /\ c \notin closed
    /\ lent' = [lent EXCEPT ![t] = @ \cup {c}]
    /\ wants' = [wants EXCEPT ![t] = {}]
    /\ UNCHANGED <<back, closed>>

(* Its call returns with a new connection, or with one that was idle, to   *)
(* an address that it asked for.                                           *)
LendNew(t, c) ==
    /\ Lend(t, c)
    /\ to[c] = {}
    /\ \E a \in wants[t] : to' = [to EXCEPT ![c] = {a}]

LendIdle(t, c) ==
    /\ Lend(t, c)
    /\ to[c] # {}
    /\ to[c] \subseteq wants[t]
    /\ UNCHANGED to

(* The user of a connection closes it, or gives it back, closed or not.    *)
CloseLent(t, c) ==
    /\ c \in lent[t]
    /\ closed' = closed \cup {c}
    /\ UNCHANGED <<wants, to, lent, back>>

GiveBack(t, c) ==
    /\ c \in lent[t]
    /\ lent' = [lent EXCEPT ![t] = @ \ {c}]
    /\ back' = back \cup {c}
    /\ UNCHANGED <<wants, to, closed>>

(* The pool keeps what was given back, or closes it.                       *)
Settle(c) ==
    /\ c \in back
    /\ back' = back \ {c}
    /\ closed' \in {closed, closed \cup {c}}
    /\ UNCHANGED <<wants, to, lent>>

(* The broker at an address is gone: connections to it are closed.         *)
Drop(a) ==
    /\ \E cs \in SUBSET {c \in Conns : to[c] = {a}} : closed' = closed \cup cs
    /\ UNCHANGED <<wants, to, lent, back>>

Next ==
    \/ \E t \in Threads : Ask(t) \/ GiveUp(t)
    \/ \E t \in Threads, c \in Conns :
          LendNew(t, c) \/ LendIdle(t, c) \/ CloseLent(t, c) \/ GiveBack(t, c)
    \/ \E c \in Conns : Settle(c)
    \/ \E a \in Addrs : Drop(a)

Spec == Init /\ [][Next]_vars
=============================================================================
