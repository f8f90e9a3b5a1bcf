-------------------------------- MODULE Lists --------------------------------
(***************************************************************************)
(* Lists made of some of the elements of a list, in an order of their      *)
(* places: what list comprehensions and stable sorts of gepa/ return.  An  *)
(* order is a set of pairs of places.                                      *)
(***************************************************************************)
EXTENDS Integers, FiniteSets

AsListed(s) == {p \in (DOMAIN s) \X (DOMAIN s) : p[1] < p[2]}

\* The first n elements of s at these places, in this order.
Listed(s, places, order, n) ==
  LET place(k) == CHOOSE i \in places : Cardinality({j \in places : <<j, i>> \in order}) = k - 1
  IN [k \in 1..n |-> s[place(k)]]
==============================================================================
