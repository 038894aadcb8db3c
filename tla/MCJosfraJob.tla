----------------------------- MODULE MCJosfraJob -----------------------------
(* Instances of JosfraJob for TLC: every kind of config and every kind of    *)
(* level 1C input, with few sets of scalars and of forecast files.           *)
EXTENDS JosfraJob
SomeRequests ==
    [config : ConfigKinds, scalars : {Scalars, {"AirsL1cFile", "AVN_3"}}, l1c : L1cKinds,
     mocca : {TRUE}, forecasts : {{}, {1}, {1, 2, 4}}, log : {TRUE}]
    \cup [config : {"good"}, scalars : {Scalars}, l1c : {"found"},
          mocca : {FALSE}, forecasts : {Files}, log : BOOLEAN]
=============================================================================
