--------------------------- MODULE SubscribersMC ---------------------------
(***************************************************************************)
(* Instances of Subscribers for TLC.  Identifiers, addresses and serial    *)
(* numbers are only compared for equality.                                 *)
(***************************************************************************)
EXTENDS Subscribers, TLC

CONSTANTS p1, p2, e1, e2, u1, u2, o1, o2, g1, g2, d1, d2, s1, s2

Symmetric == Permutations(Emails) \union Permutations(UserIds)
               \union Permutations(Serials) \union Permutations(SignupIds)
               \union Permutations(DeviceIds)
=============================================================================
