----------------------------- MODULE PixelMath ------------------------------
(***************************************************************************)
(* Rounding as Python and PDFium do it, for positions on a page.           *)
(***************************************************************************)
EXTENDS Integers

\* round(n / d): to the nearest, halves to even.
Rounded(n, d) ==
  LET q == n \div d r == 2 * (n % d) IN
    IF r > d \/ (r = d /\ q % 2 = 1) THEN q + 1 ELSE q

\* The least integer that is not below n / d.
Ceiling(n, d) == -((-n) \div d)

Least(m, n) == IF m < n THEN m ELSE n
Most(m, n)  == IF m < n THEN n ELSE m
=============================================================================
