------------------------------ MODULE DeliveryChannel ------------------------------
(***************************************************************************)
(* What the delivery queue promises to those who put messages in it: the   *)
(* messages are dealt with one after the other in the order they were      *)
(* accepted.  Each is attempted once or given up, and never taken up       *)
(* again.                                                                  *)
(***************************************************************************)
EXTENDS Naturals, Sequences

CONSTANT Message \* what can be sent

VARIABLES
    sent,     \* the accepted messages, in order
    attempts, \* the positions of those attempted, in order
    cursor    \* how many are dealt with, attempted or given up

channelVars == <<sent, attempts, cursor>>

\* enqueue appends to the stream.
Accept ==
    /\ \E m \in Message : sent' = Append(sent, m)
    /\ UNCHANGED <<attempts, cursor>>

\* One post of the next message, whatever becomes of it.
Attempt ==
    /\ cursor < Len(sent)
    /\ attempts' = Append(attempts, cursor + 1)
    /\ cursor' = cursor + 1
    /\ UNCHANGED sent

\* A crash, a read that fails, or an address that is none gives up the next messages.
GiveUp ==
    /\ \E n \in cursor + 1 .. Len(sent) : cursor' = n
    /\ UNCHANGED <<sent, attempts>>

ChannelInit ==
    /\ sent = <<>>
    /\ attempts = <<>>
    /\ cursor = 0

ChannelNext == Accept \/ Attempt \/ GiveUp

ChannelSpec == ChannelInit /\ [][ChannelNext]_channelVars

\* Every message is dealt with in the end.
FairChannelSpec == ChannelSpec /\ WF_channelVars(Attempt \/ GiveUp)
=============================================================================
