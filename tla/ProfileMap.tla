----------------------------- MODULE ProfileMap -----------------------------
(***************************************************************************)
(* What firmware/eml_optimizer.c promises: one profile for every           *)
(* expression that was compiled, found by its identifier, never lost.      *)
(***************************************************************************)
EXTENDS Naturals

CONSTANTS Ids, Word, RateStep, RateMax, HotRate, HotThreshold, Cycles

VARIABLE profile

Fresh == [count |-> 1, avg |-> 0, rate |-> 0, hot |-> FALSE]

\* A hit raises the rate to at most RateMax, a miss lowers one above RateStep.
NewRate(rate, hit) ==
    CASE hit  -> IF rate + RateStep > RateMax THEN RateMax ELSE rate + RateStep
      [] ~hit -> IF rate > RateStep THEN rate - RateStep ELSE rate

\* What one execution of the expression makes of its profile.
Executed(e, cycles, hit) ==
    LET rate == NewRate(e.rate, hit)
    IN [count |-> e.count, avg |-> (e.avg + cycles) \div 2, rate |-> rate,
        hot |-> e.hot \/ (e.count > HotThreshold /\ rate > HotRate)]

Init == profile = [i \in {} |-> Fresh]

Compile(i) ==
    \/ /\ i \notin DOMAIN profile
       /\ profile' = [j \in DOMAIN profile \union {i} |->
                        IF j = i THEN Fresh ELSE profile[j]]
    \/ /\ i \in DOMAIN profile
       /\ profile' = [profile EXCEPT ![i].count = (@ + 1) % Word]

Execute(i) ==
    /\ i \in DOMAIN profile
    /\ \E cycles \in Cycles, hit \in BOOLEAN :
          profile' = [profile EXCEPT ![i] = Executed(@, cycles, hit)]

Next == \E i \in Ids : Compile(i) \/ Execute(i)

Spec == Init /\ [][Next]_profile
=============================================================================
