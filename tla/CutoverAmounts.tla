--------------------------- MODULE CutoverAmounts ----------------------------
(***************************************************************************)
(* The amounts the cutover computes with.  Both wallets are read from IBEX  *)
(* as decimals finer than a USDT micro, so a balance here is a natural      *)
(* number of sub-micros, SubPerMicro of them to the micro; the code's       *)
(* strings of micros are naturals.  (A precise cent string of the code has  *)
(* six decimals and a cent is 10^4 micros: SubPerMicro is 100 there.)       *)
(***************************************************************************)
EXTENDS Integers

CONSTANT SubPerMicro

\* A micro is at least two sub-micros, so that rounding is not trivial.
ASSUME SubPerMicroAssumption == SubPerMicro \in Nat \ {0, 1}

\* usdCentsToUsdtMicros and ibexMajorUnitsToUsdtMicros: round half up, on the
\* first dropped digit.
toMicrosRounded(sub) == (sub + SubPerMicro \div 2) \div SubPerMicro

\* readDestinationSpendableUsdtMicros: floored, never more than the balance.
toMicrosFloored(sub) == sub \div SubPerMicro

hasOnlySubMicroMajorUnitDust(sub) == sub < SubPerMicro

\* What the legacy wallet misses of the balance the account migrated with.
legacyShortfallUsdtMicros(source, current) ==
    LET s == toMicrosRounded(source)
        c == toMicrosRounded(current)
    IN  IF c >= s THEN 0 ELSE s - c

\* Mutant: does not see what has been received.
NothingReceived(target, starting, current) == target

\* What the USDT wallet misses of the amount it should have received.
destinationShortfallUsdtMicros(target, starting, current) ==
    LET received == IF current > starting THEN current - starting ELSE 0
    IN  IF received >= target THEN 0 ELSE target - received

=============================================================================
