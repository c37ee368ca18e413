----------------------------- MODULE MCWsRegistry -----------------------------
(* Small instances of WsRegistry.                                          *)
EXTENDS WsRegistryProps, TLC

CONSTANTS news, chat, alice, cut, w1, w2

Topics   == {news, chat}
OneTopic == {news}
Apart    == [k \in Topics |-> k]
Together == [k \in Topics |-> news]
Names    == {alice}
OnePlace == [k \in OneTopic |-> k]
Short    == [n \in Names |-> n]
Long     == [n \in Names |-> cut]      (* another place once it is cut      *)

Same == Permutations({w1, w2})
=============================================================================
