----------------------------- MODULE MCTxBuilder -----------------------------
EXTENDS TxBuilder

MCParams ==
    <<[mint |-> "TOK", use_seed |-> TRUE, unit_price |-> 1, unit_limit |-> 2, with_tip |-> TRUE, tip |-> 3,
       recent |-> Recent, lookup_table |-> FALSE, encoding |-> "bincode"],
      [mint |-> "TOK", use_seed |-> FALSE, unit_price |-> 1, unit_limit |-> 1, with_tip |-> FALSE, tip |-> 3,
       recent |-> Recent, lookup_table |-> TRUE, encoding |-> "Base64"],
      [mint |-> "TOK", use_seed |-> TRUE, unit_price |-> 1, unit_limit |-> 2, with_tip |-> TRUE, tip |-> 0,
       recent |-> NoHash, lookup_table |-> FALSE, encoding |-> "JsonParsed"]>>
MCChains == {<<"log">>, <<"append", "clear", "append">>, <<"log", "fail">>, <<"append">>}
==============================================================================
