------------------------ MODULE MCPaymentIdempotency -------------------------
(***************************************************************************)
(* Small instances of PaymentIdempotency for TLC.                          *)
(***************************************************************************)
EXTENDS PaymentIdempotency, TLC

CONSTANTS r1, r2, r3, k1, p1, p2, h1

Ask(k, p, h, rail) == [key |-> k, payment |-> p, header |-> h, rail |-> rail]

first == Ask(k1, p1, NoOne, "intraledger")
other == Ask(k1, p2, h1, "intraledger")

\* Retries of one payment and a second payment under the same key; a request
\* without a usable key. The first request settles which payment is which.
asks ==
    r1 :> {first} @@ r2 :> {first, other} @@
    r3 :> {first, other, Ask("blank", p1, NoOne, "lnurl"),
           Ask("too_long", p1, NoOne, "intraledger"),
           Ask("blank", p1, "malformed", "intraledger")}

\* A request that is delivered twice, with a header and no key of its own.
repeated == [r \in Requests |-> {Ask("blank", p1, h1, "intraledger")}]

=============================================================================
