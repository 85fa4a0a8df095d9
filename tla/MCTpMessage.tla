----------------------------- MODULE MCTpMessage -----------------------------
(* Small instances of TpMessage: a hierarchy of topics, with one that has  *)
(* another as a prefix but is not below it.                                *)
EXTENDS TpMessage

MCTopics == {
    <<"/">>,
    <<"/", "a">>,
    <<"/", "b">>,
    <<"/", "a", "b">>,
    <<"/", "a", "/", "b">>,
    <<"/", "a", "/", "a">>,
    <<"/", "a", "/", "b", "/", "a">>}
==============================================================================
