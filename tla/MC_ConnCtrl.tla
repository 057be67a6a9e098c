---------------------------- MODULE MC_ConnCtrl ----------------------------
(* Two sessions of one miner, a 2-unit ban, a 3-unit sweep grace, a ban    *)
(* threshold of 2 submissions (100 in the code) and a clock up to 7.       *)
EXTENDS ConnCtrl

MCMinerOf == [s \in Sessions |-> CHOOSE m \in Miners : TRUE]
=============================================================================
