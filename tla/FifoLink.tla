------------------------------ MODULE FifoLink ------------------------------
(***************************************************************************)
(* What one band of traffic sees of a link: packets that were accepted     *)
(* leave it in the order in which they entered, each once, or are lost.    *)
(* PointToPoint is shown to implement it for every band.                   *)
(***************************************************************************)
EXTENDS Sequences

VARIABLES
    channel,  \* packets accepted and not yet at the other end
    out       \* packets delivered, in order

lvars == <<channel, out>>

Init == /\ channel = <<>>
        /\ out = <<>>

Accept == /\ channel' # <<>>
          /\ channel' = Append(channel, channel'[Len(channel')])
          /\ UNCHANGED out

Deliver == /\ channel # <<>>
           /\ channel' = Tail(channel)
           /\ out' = Append(out, Head(channel))

Lose == /\ channel # <<>>
        /\ channel' = Tail(channel)
        /\ UNCHANGED out

Next == Accept \/ Deliver \/ Lose

Spec == Init /\ [][Next]_lvars
=============================================================================
