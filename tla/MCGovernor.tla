----------------------------- MODULE MCGovernor -----------------------------
(* A small instance of Governor for TLC. *)
EXTENDS Governor

Request(id, task, provider, money, risk) ==
  [id |-> id, task |-> task, provider |-> provider, money |-> money, risk |-> risk]

\* Two tasks on one provider; "r1" is also presented with a second, cheaper binding.
MCRequests ==
  {Request("r1", "t1", "p", 2, 1), Request("r1", "t1", "p", 1, 1),
   Request("r2", "t1", "p", 1, 1), Request("r3", "t2", "p", 1, 1)}

MCLimitMoney == [task |-> 3, owner_provider |-> 3, global |-> 3]
MCLimitRisk  == [task |-> 2, owner_provider |-> 3, global |-> 3]

\* A tighter policy, and no limit at all.
MCReviewLimits ==
  {[task |-> 2, owner_provider |-> 2, global |-> 3], [l \in Levels |-> Unlimited]}

=============================================================================
