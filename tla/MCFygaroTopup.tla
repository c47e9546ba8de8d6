---------------------------- MODULE MCFygaroTopup ----------------------------
(***************************************************************************)
(* Small instances of FygaroTopup for TLC.                                 *)
(***************************************************************************)
EXTENDS FygaroTopup, TLC

CONSTANTS c1, c2, c3, t1, t2, d1, d2

Capture(i, n, known) == [intent |-> i, cents |-> n, known |-> known]

\* Two payments that do not both fit, on one link or on none.
cents1 == c1 :> 2

rapid == t1 :> {Capture(c1, 2, TRUE)} @@
         t2 :> {Capture(c1, 2, TRUE), Capture(NoOne, 1, FALSE)}

once == [t \in Transactions |-> 1]

twice == [t \in Transactions |-> 2]

\* Requests that overlap with each other and with the payment of one of their
\* links, for the amount it was issued for or another. Two links do not both fit.
cents2 == [c \in Checkouts |-> 2]

single == t1 :> {Capture(c, n, TRUE) : c \in Checkouts, n \in {1, 2}}

\* Deliveries are interchangeable, and so are requests for one amount. Only runs
\* without liveness use this.
Symmetry == {p @@ q : p \in Permutations(Checkouts), q \in Permutations(Deliveries)}

=============================================================================
