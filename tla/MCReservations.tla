--------------------------- MODULE MCReservations ---------------------------
(* Instances of Reservations: alice and bob reserve, and submit jobs.  *)
EXTENDS Reservations

MCUsers == {"alice", "bob"}
Count(n) == [gpus |-> {}, count |-> n]
Indices(S) == [gpus |-> S, count |-> 0]

MCJobs == 1 .. 2
MCUserOf == [j \in MCJobs |-> IF j = 1 THEN "alice" ELSE "bob"]
MCNeed == [j \in MCJobs |-> j]
Offer(u, spec, d) == [user |-> u, spec |-> spec, duration |-> d]
MCOffers == {Offer("alice", Indices({0}), 2), Offer("alice", Count(1), 1),
             Offer("bob", Indices({0, 1}), 1), Offer("bob", Count(2), 2)}

(* Jobs of bob, of one GPU each, and reservations of alice.  *)
BobUserOf == [j \in MCJobs |-> "bob"]
BobNeed == [j \in MCJobs |-> 1]
RefutedOffers == {Offer("alice", Count(1), 1), Offer("alice", Count(2), 1)}
=============================================================================
