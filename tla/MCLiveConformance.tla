-------------------------- MODULE MCLiveConformance --------------------------
(* Instance of LiveConformance for TLC: two operations and two listings of *)
(* different types.  What Preflight is given covers plans that it must     *)
(* refuse: operations without a case, cases without a target, pages out of *)
(* order and with gaps, a page before the first, and more requests than a  *)
(* discovery allows.                                                       *)
EXTENDS LiveConformance

Listings == {<<"A", 1>>, <<"A", 2>>, <<"B", 1>>}

Case(id, operation, discovery) ==
  [id |-> id, operation |-> operation, discovery |-> discovery]
Sources == {None, "first", "second"}
CaseLists ==
  {<<Case("x", 2, s), Case("y", o, t)>> : s \in Sources, t \in Sources, o \in {1, 2}}
    \cup {<<Case("x", 1, s)>> : s \in Sources}

Requests == [partition : Listings, page : 0 .. 2]
RequestLists == UNION {[1 .. n -> Requests] : n \in 1 .. 3}
Types   == {{"A"}, {"A", "B"}}
Targets == {<<[case |-> "x", types |-> t]>> : t \in Types} \cup
           {<<[case |-> "x", types |-> t], [case |-> "y", types |-> {"A"}]>> : t \in Types}

First == {<<[id |-> "first", requests |-> q, max |-> m, targets |-> t]>>
            : q \in RequestLists, m \in {1, 3}, t \in Targets}
Second == {<<[id |-> "second", requests |-> q, max |-> 1, targets |-> t]>>
             : q \in {<<[partition |-> <<"A", 1>>, page |-> 1]>>,
                      <<[partition |-> <<"A", 1>>, page |-> 2]>>},
               t \in {<<[case |-> "y", types |-> {"A"}]>>}}
Short == {f \in First : Len(f[1].requests) <= 2}

PlanInputs ==
  [cases : CaseLists,
   discoveries : {<<>>} \cup First \cup {f \o s : f \in Short, s \in Second}]
=============================================================================
