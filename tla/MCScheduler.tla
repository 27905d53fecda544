----------------------------- MODULE MCScheduler -----------------------------
(* Instances of Scheduler for TLC: three requests that share prefixes, the *)
(* third either the continuation of the first or a prefix of it.           *)
EXTENDS Scheduler, TLC

Offer(prompt, limit) == [prompt |-> prompt, limit |-> limit]

ThreeOffers == << {Offer(<<1, 2, 3>>, 4)}, {Offer(<<1, 4>>, 3)},
                  {Offer(<<1, 2, 3, 11, 6>>, 1), Offer(<<1, 2>>, 0)} >>
=============================================================================
