------------------------------ MODULE MCCheckout ------------------------------
(* Checkout on small sets.  Requests are interchangeable, and so are keys,  *)
(* cashiers and cart lines: no definition tells two of them apart.          *)
EXTENDS Checkout, TLC

Symmetry ==
    Permutations(Request) \cup Permutations(Key) \cup Permutations(User)
        \cup Permutations(Line)
===============================================================================
