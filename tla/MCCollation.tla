----------------------------- MODULE MCCollation -----------------------------
(* A network of three master blocks, of which the first two bring a shard block,
   the first one leaves messages unprocessed and the third changes the consensus
   config.                                                                      *)
EXTENDS Collation

MCShardAt == {1, 2}
MCUnprocessed == {1}
MCKeyBlocks == {3}
MCReconfig == {3}
=============================================================================
