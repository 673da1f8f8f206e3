----------------------------- MODULE Connection -----------------------------
(***************************************************************************)
(* What the streaming layer promises about the connection of a response:   *)
(* at any time it has one holder, the response hands it over at most once, *)
(* and what has been released is not taken up again.  StreamResponse is    *)
(* shown to implement this.                                                *)
(***************************************************************************)
VARIABLES holder,  \* who holds the connection
          whole    \* the body has been read completely into the response

vars == <<holder, whole>>

Holders == {"nobody", "response", "iterator", "read", "released"}

TypeOK == holder \in Holders /\ whole \in BOOLEAN

Init == holder = "nobody" /\ whole = FALSE

\* The request has been answered: the response holds the connection.
Answer ==
    /\ holder = "nobody"
    /\ holder' = "response"
    /\ UNCHANGED whole

\* An iterator or a read of the whole body takes it over.
HandOver ==
    /\ holder = "response"
    /\ holder' \in {"iterator", "read"}
    /\ UNCHANGED whole

\* A close, the end of the body, an error or a cancellation releases it.
Release ==
    /\ holder \in {"response", "iterator", "read"}
    /\ holder' = "released"
    /\ UNCHANGED whole

\* The bytes of a complete read are kept, once the connection is released.
Keep ==
    /\ holder = "released"
    /\ whole' = TRUE
    /\ UNCHANGED holder

\* Closing the response drops them.
Discard ==
    /\ whole' = FALSE
    /\ UNCHANGED holder

Next == Answer \/ HandOver \/ Release \/ Keep \/ Discard

Spec == Init /\ [][Next]_vars

=============================================================================
