---------------------------- MODULE WillContract ----------------------------
(***************************************************************************)
(* What a broker promises about will messages, without tasks, maps, queue  *)
(* or router: a connection arms at most one will; a DISCONNECT withdraws   *)
(* the will of its client, a newer will of the same client replaces it,    *)
(* and otherwise it may be published, once, after the connection is down.  *)
(***************************************************************************)
CONSTANTS Conn, Client, NoClient

VARIABLES
    of,        \* the client a connection serves
    phase,     \* "before", "up" or "down"
    will       \* "none", "armed", "published" or "dropped"

cvars == <<of, phase, will>>

Init ==
    /\ of = [t \in Conn |-> NoClient]
    /\ phase = [t \in Conn |-> "before"]
    /\ will = [t \in Conn |-> "none"]

\* One connection of a client at a time.
Open(t, c) ==
    /\ phase[t] = "before"
    /\ \A u \in Conn : phase[u] = "up" => of[u] # c
    /\ phase' = [phase EXCEPT ![t] = "up"]
    /\ of' = [of EXCEPT ![t] = c]
    /\ UNCHANGED will

Reject(t) ==
    /\ phase[t] = "before"
    /\ phase' = [phase EXCEPT ![t] = "down"]
    /\ UNCHANGED <<of, will>>

\* The wills of client c after its stored will, if any, is given up.
DropOf(c) == [u \in Conn |-> IF of[u] = c /\ will[u] = "armed" THEN "dropped" ELSE will[u]]

Arm(t) ==
    /\ phase[t] = "up" /\ will[t] = "none"
    /\ will' = [DropOf(of[t]) EXCEPT ![t] = "armed"]
    /\ UNCHANGED <<of, phase>>

Withdraw(t) ==
    /\ phase[t] = "up"
    /\ will' = DropOf(of[t])
    /\ UNCHANGED <<of, phase>>

Close(t) ==
    /\ phase[t] = "up"
    /\ phase' = [phase EXCEPT ![t] = "down"]
    /\ UNCHANGED <<of, will>>

Publish(t) ==
    /\ phase[t] = "down" /\ will[t] = "armed"
    /\ will' = [will EXCEPT ![t] = "published"]
    /\ UNCHANGED <<of, phase>>

Next == \E t \in Conn :
    \/ \E c \in Client : Open(t, c)
    \/ Reject(t) \/ Arm(t) \/ Withdraw(t) \/ Close(t) \/ Publish(t)

Spec == Init /\ [][Next]_cvars
=============================================================================
