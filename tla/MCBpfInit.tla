----------------------------- MODULE MCBpfInit -----------------------------
EXTENDS BpfInit

(* A hybrid part with both rows, one without the sampled event, and a CPU    *)
(* that is not in the table.                                                 *)
MCModels ==
  << [cpu |-> 1, steppings |-> {}, core |-> "Atom", events |-> <<"cycles", "retired">>],
     [cpu |-> 1, steppings |-> {}, core |-> "Core",
      events |-> <<"cycles", "slots", "cache_miss", "branch_miss", "l3_miss_load">>],
     [cpu |-> 2, steppings |-> {4}, core |-> "", events |-> <<"cycles", "cache_miss">>] >>
H(cpu, stepping, topdown) == [cpu |-> cpu, stepping |-> stepping, topdown |-> topdown, vm |-> FALSE]
S(host, focus, density, offcpu) ==
  [host |-> host, focus |-> focus, density |-> density, offcpu |-> offcpu]
MCSetups ==
  { S(H(1, 0, TRUE), "cpu", <<>>, FALSE), S(H(2, 5, FALSE), "cpu", <<>>, FALSE),
    S([H(2, 5, FALSE) EXCEPT !.vm = TRUE], "cpu", <<>>, FALSE),
    S(H(1, 0, FALSE), "cache_miss", <<4000, 1>>, FALSE), S(H(2, 4, FALSE), "cache_miss", <<>>, FALSE),
    S(H(2, 4, FALSE), "none", <<>>, TRUE) }
MCRefusals == {{}} \cup {{x} : x \in Refusable} \cup
              {{<<"tick", 0, 2>>, <<"tick", 1, 2>>}, {<<"tick", 0, 2>>, <<"tick", 0, 1>>}}
MCLoads == { [c |-> 1, en |-> 1, run |-> 1], [c |-> 1, en |-> 16, run |-> 1] }
=============================================================================
