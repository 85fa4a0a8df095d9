----------------------------- MODULE MCBurstAgents -----------------------------
(* The tests of burst/ on small instances: the second message overflows the *)
(* ring buffer of robust-writer.sh, as in the script.                       *)
EXTENDS BurstAgents

Bench(flavor, r, w, m, i) ==
    [script |-> "bench-cell", flavor |-> flavor, readers |-> r, writers |-> w,
     messages |-> m, slots |-> r, iterations |-> i]

Robust(script, slots) ==
    [script |-> script, flavor |-> "LATENCY", readers |-> 1, writers |-> 1,
     messages |-> 2, slots |-> slots, iterations |-> 1]

MCTests ==
    {Bench("FIRST_LAST_DURATION", 1, 2, 1, 1), Bench("LATENCY", 1, 1, 2, 2),
     Bench("FIRST_LAST_DURATION", 2, 1, 2, 1), Bench("LATENCY", 2, 2, 1, 1),
     Robust("robust-reader", 1), Robust("robust-writer", 2)}

MCSingle == {Bench("FIRST_LAST_DURATION", 1, 1, 1, 1)}
MCRobustWriter == {Robust("robust-writer", 2)}
MCRobustReader == {Robust("robust-reader", 1)}
MCMortal == {<<"writer", 1, 1>>, <<"reader", 2, 1>>, <<"reader", 1, 2>>}
================================================================================
