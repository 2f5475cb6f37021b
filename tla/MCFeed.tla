-------------------------------- MODULE MCFeed --------------------------------
(* Feed for TLC: a block with a trade and an event that does not parse, a block *)
(* with a liquidation, an empty one.                                            *)
EXTENDS Feed

MCEventBlocks == {<<>>, <<"unparsed", "taker">>, <<"liquidation">>}
===============================================================================
