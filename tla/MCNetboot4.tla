----------------------------- MODULE MCNetboot4 -----------------------------
(* A small instance of Netboot4: one complete OFFER, and one for each      *)
(* thing that it may lack.                                                 *)
EXTENDS Netboot4

complete == [yourIP |-> "10.0.0.2", ones |-> 24, dns |-> <<"10.0.0.3">>,
             search |-> << <<"a.b">> >>, routers |-> <<"10.0.0.1", "10.0.0.4">>]

MCOffers ==
  {complete,
   [complete EXCEPT !.search = <<>>],
   [complete EXCEPT !.search = << <<>> >>],
   [complete EXCEPT !.yourIP = "0.0.0.0"],
   [complete EXCEPT !.ones = -1],
   [complete EXCEPT !.ones = 0],
   [complete EXCEPT !.dns = <<>>],
   [complete EXCEPT !.routers = <<>>]}

MCRoutes == {"none", "l2", "other"}

MCFDs == 1..4
=============================================================================
