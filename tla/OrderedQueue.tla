---------------------------- MODULE OrderedQueue ----------------------------
(***************************************************************************)
(* What a packet pipeline with parallel workers promises its users: items  *)
(* leave in the order in which they arrived.  An item may be refused at the*)
(* entrance or lost inside; it never overtakes another one and never comes *)
(* out twice.  Items are numbered in the order of their arrival.           *)
(***************************************************************************)
EXTENDS Naturals, Sequences

VARIABLES last,   \* the number of the last item that arrived
          queue,  \* the items inside, oldest first
          out     \* the items that came out, in that order

qvars == <<last, queue, out>>

QInit == last = 0 /\ queue = <<>> /\ out = <<>>

Put ==
  /\ last' = last + 1
  /\ queue' = Append(queue, last')
  /\ UNCHANGED out

Refuse ==
  /\ last' = last + 1
  /\ UNCHANGED <<queue, out>>

Take ==
  /\ queue # <<>>
  /\ out' = Append(out, Head(queue))
  /\ queue' = Tail(queue)
  /\ UNCHANGED last

Lose ==
  /\ queue # <<>>
  /\ queue' = Tail(queue)
  /\ UNCHANGED <<last, out>>

QNext == Put \/ Refuse \/ Take \/ Lose

QSpec == QInit /\ [][QNext]_qvars

=============================================================================
