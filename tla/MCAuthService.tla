---------------------------- MODULE MCAuthService ----------------------------
(* Three logins: the second repeats the source and the user name of the     *)
(* first or shares neither, the third has the user name of the first.       *)
EXTENDS AuthService

CONSTANTS l1, l2, l3, a, b, c, u, v

MCKeys == [l \in Logins |->
    CASE l = l1 -> {<<a, u>>}
      [] l = l2 -> {<<a, u>>, <<b, v>>}
      [] l = l3 -> {<<c, u>>}]
==============================================================================
