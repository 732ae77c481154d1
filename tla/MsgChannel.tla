----------------------------- MODULE MsgChannel -----------------------------
(***************************************************************************)
(* What NetworkServerConn and NetworkClientConn promise: two ends send     *)
(* messages to each other, and each gets what the other has sent, whole,   *)
(* once and in order.  The connection may end; then the last messages are  *)
(* not got.                                                                *)
(***************************************************************************)
EXTENDS Naturals, Sequences

CONSTANTS Ends, Msgs, Other(_)

VARIABLES
    sent,  \* what each end has sent
    got    \* what each end has got

Init ==
    /\ sent = [e \in Ends |-> << >>]
    /\ got = [e \in Ends |-> << >>]

Send(e, m) ==
    /\ sent' = [sent EXCEPT ![e] = Append(@, m)]
    /\ UNCHANGED got

Get(e) ==
    /\ Len(got[e]) < Len(sent[Other(e)])
    /\ got' = [got EXCEPT ![e] = Append(@, sent[Other(e)][Len(@) + 1])]
    /\ UNCHANGED sent

Next == \E e \in Ends : Get(e) \/ \E m \in Msgs : Send(e, m)

Spec == Init /\ [][Next]_<<sent, got>>
=============================================================================
