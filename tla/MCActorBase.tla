---- MODULE MCActorBase ----
(* One generator or tuple method, one plain method and a third call, which  *)
(* is also what a generator yields.                                         *)
EXTENDS ActorBase
CONSTANTS c1, c2, c3

MCCalls == {c1, c2, c3}
MCMenu == [c \in MCCalls |->
    CASE c = c1 -> {<<"message", "genCatch">>, <<"message", "genSelf">>,
                    <<"forwarded", "gen">>, <<"local", "genSelf">>, <<"message", "mixed">>}
      [] c = c2 -> {<<"message", "locked">>, <<"local", "gen">>, <<"local", "pair">>}
      [] c = c3 -> {<<"message", "nolock">>, <<"local", "locked">>}]
====
