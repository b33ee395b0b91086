------------------------------- MODULE Relay -------------------------------
(***************************************************************************)
(* What a program that diverts packets and passes them on promises to the  *)
(* network: it takes packets in the order of their capture, one at a time, *)
(* and gives back each at most once, whole and as what it was, before it   *)
(* takes the next.  A packet may be lost in its hand.                      *)
(***************************************************************************)
EXTENDS Naturals, Sequences

VARIABLES
  next,   \* how many packets were taken
  hand,   \* the packet taken and not yet given back, or Nothing
  out,    \* what was given back
  on      \* the program runs

vars == <<next, hand, out, on>>

Nothing == 0

(* A packet injected with its own length and its own address.              *)
Whole(n) == [data |-> n, bytes |-> n, address |-> n]

Init == next = 0 /\ hand = Nothing /\ out = << >> /\ on = TRUE

Take ==
  /\ on /\ hand = Nothing
  /\ next' = next + 1
  /\ hand' = next'
  /\ UNCHANGED <<out, on>>

Give ==
  /\ on /\ hand # Nothing
  /\ out' = Append(out, Whole(hand))
  /\ hand' = Nothing
  /\ UNCHANGED <<next, on>>

Lose == on /\ hand # Nothing /\ hand' = Nothing /\ UNCHANGED <<next, out, on>>

Stop == on /\ on' = FALSE /\ hand' = Nothing /\ UNCHANGED <<next, out>>

Next == Take \/ Give \/ Lose \/ Stop

Spec == Init /\ [][Next]_vars
=============================================================================
