--------------------------- MODULE JosfraJobProofs ---------------------------
(***************************************************************************)
(* Proofs about JosfraJob, for any arguments and any number of jobs: a CAS *)
(* file has its product, and a product names the inputs of its own job.    *)
(***************************************************************************)
EXTENDS JosfraJob, TLAPS

Shell == {"check", "l1c", "mocca", "download", "forecast"}
Python == {"parse", "nc", "fill", "cas", "casFill"}
Ended == {"exited", "failed"}

\* The scalars that the script has set where it stands.
Set ==
    CASE pc \in {"check", "l1c"}     -> {}
      [] pc = "mocca"                -> {"AirsL1cFile"}
      [] pc = "download"             -> {"AirsL1cFile", "AirsMoccaFile"}
      [] pc = "forecast" /\ k = 1    -> {"AirsL1cFile", "AirsMoccaFile"}
      [] pc = "forecast" /\ k = 2    -> {"AirsL1cFile", "AirsMoccaFile", "AVN_3"}
      [] pc = "forecast" /\ k = 3    -> {"AirsL1cFile", "AirsMoccaFile", "AVN_3", "AVN_6"}
      [] OTHER                       -> Scalars

\* The local copy has the scalars of the config, set as far as the script is.
Edited ==
    pc \notin {"check"} \cup Ended =>
        local = [s \in args.scalars |-> IF s \in Set THEN Expected(s) ELSE Own]

\* The files of ./inputs that are given and have been reached are of this job.
Fresh == \A f \in args.forecasts : inputs[f] = job
Downloaded ==
    /\ pc = "download" => \A f \in args.forecasts : f < k => inputs[f] = job
    /\ pc \in {"forecast"} \cup Python => Fresh

\* The outputs of this job are where its steps are; later jobs have none.
Outputs ==
    /\ job = 0 => pc = "exited"
    /\ pc \in Shell \cup {"parse", "nc"} => nc[job].state = "absent" /\ cas[job] = "absent"
    /\ pc = "fill" => nc[job].state = "partial" /\ cas[job] = "absent"
    /\ pc = "cas" => nc[job].state = "complete" /\ cas[job] = "absent"
    /\ pc = "casFill" => nc[job].state = "complete"
    /\ \A j \in Jobs : j > job => nc[j].state = "absent" /\ cas[j] = "absent"

\* What a product that was opened names.
Names == [s \in args.scalars |-> Expected(s)]
Named == job # 0 /\ nc[job].state # "absent" => Fresh /\ nc[job].names = Names

Types ==
    /\ TypeOK
    /\ pc \in {"check", "l1c", "mocca"} => k = 1
    /\ pc = "forecast" => k \in 1..3

Inv == Types /\ Edited /\ Downloaded /\ Outputs /\ Named /\ CasHasProduct

\* Requests are what the arguments of a job can be.
LEMMA RequestTypes ==
    ASSUME TypeOK
    PROVE  /\ args.config \in ConfigKinds /\ args.scalars \in SUBSET Scalars
           /\ args.l1c \in L1cKinds /\ args.mocca \in BOOLEAN
           /\ args.forecasts \in SUBSET Files
PROOF
  BY JobAssumption DEF TypeOK

LEMMA InitHolds == Init => Inv
PROOF
<1> SUFFICES ASSUME Init PROVE Inv
  OBVIOUS
<1> USE JobAssumption DEF Init, NoProduct, Jobs
<1>1. Types
  BY DEF Types, TypeOK, Files
<1>2. Edited /\ Downloaded /\ Outputs /\ Named /\ CasHasProduct
  BY DEF Edited, Downloaded, Outputs, Named, CasHasProduct, Shell, Python, Ended
<1> QED BY <1>1, <1>2 DEF Inv

\* Setting a scalar keeps the scalars that the copy has.
LEMMA SetKeeps ==
    ASSUME TypeOK, NEW s \in Scalars, NEW v \in Values, SetScalar(s, v)
    PROVE  DOMAIN local' = DOMAIN local /\ \A t \in DOMAIN local' : local'[t] \in Values
PROOF
  BY DEF TypeOK, SetScalar

\* The names depend only on the job and its arguments.
LEMMA NamesKept == ASSUME UNCHANGED <<job, args>> PROVE Names' = Names
PROOF
  BY DEF Names, Expected, Own, OwnL1c, OwnForecast

\* When the script ends the copy has them.
LEMMA NamesOpened == ASSUME Types, Edited, pc = "nc" PROVE local = Names
PROOF
<1>1. Set = Scalars
  BY DEF Set
<1>2. args.scalars \subseteq Scalars
  BY RequestTypes DEF Types
<1> QED BY <1>1, <1>2 DEF Edited, Names, Ended

LEMMA StepKeeps == ASSUME Inv, [Next]_vars PROVE Inv'
PROOF
<1> USE JobAssumption DEF Goes, Shell, Python, Ended
<1>1. ASSUME Start PROVE Inv'
  <2>1. Types'
    BY <1>1, RequestTypes DEF Inv, Start, Types, TypeOK, Values, Value, NoProduct, Jobs, Files, Own
  <2>2. Edited'
    BY <1>1, RequestTypes DEF Inv, Start, Types, TypeOK, Edited, Set, Expected, Own, OwnL1c, OwnForecast, Files, L1cKinds, Scalars
  <2>3. Downloaded'
    BY <1>1, RequestTypes DEF Inv, Start, Types, TypeOK, Downloaded, Fresh, Files
  <2>4. Outputs'
    BY <1>1 DEF Inv, Start, Types, TypeOK, Outputs, Jobs, CasHasProduct
  <2>5. Named'
    BY <1>1, NamesKept DEF Inv, Start, Types, TypeOK, Named, Fresh, Downloaded, Outputs, Jobs
  <2>6. CasHasProduct'
    BY <1>1 DEF Inv, Start, Types, TypeOK, Outputs, CasHasProduct, Jobs
  <2> QED BY <2>1, <2>2, <2>3, <2>4, <2>5, <2>6 DEF Inv
<1>2. ASSUME Refuse PROVE Inv'
  <2>1. Types'
    BY <1>2, RequestTypes DEF Inv, Refuse, Types, TypeOK, Values, Value, NoProduct, Jobs, Files, Own
  <2>2. Edited'
    BY <1>2, RequestTypes DEF Inv, Refuse, Types, TypeOK, Edited, Set, Expected, Own, OwnL1c, OwnForecast, Files, L1cKinds, Scalars
  <2>3. Downloaded'
    BY <1>2, RequestTypes DEF Inv, Refuse, Types, TypeOK, Downloaded, Fresh, Files
  <2>4. Outputs'
    BY <1>2 DEF Inv, Refuse, Types, TypeOK, Outputs, Jobs, CasHasProduct
  <2>5. Named'
    BY <1>2, NamesKept DEF Inv, Refuse, Types, TypeOK, Named, Fresh, Downloaded, Outputs, Jobs
  <2>6. CasHasProduct'
    BY <1>2 DEF Inv, Refuse, Types, TypeOK, Outputs, CasHasProduct, Jobs
  <2> QED BY <2>1, <2>2, <2>3, <2>4, <2>5, <2>6 DEF Inv
<1>3. ASSUME Copy PROVE Inv'
  <2>1. Types'
    BY <1>3, RequestTypes DEF Inv, Copy, Types, TypeOK, Values, Value, NoProduct, Jobs, Files, Own
  <2>2. Edited'
    BY <1>3, RequestTypes DEF Inv, Copy, Types, TypeOK, Edited, Set, Expected, Own, OwnL1c, OwnForecast, Files, L1cKinds, Scalars
  <2>3. Downloaded'
    BY <1>3, RequestTypes DEF Inv, Copy, Types, TypeOK, Downloaded, Fresh, Files
  <2>4. Outputs'
    BY <1>3 DEF Inv, Copy, Types, TypeOK, Outputs, Jobs, CasHasProduct
  <2>5. Named'
    BY <1>3, NamesKept DEF Inv, Copy, Types, TypeOK, Named, Fresh, Downloaded, Outputs, Jobs
  <2>6. CasHasProduct'
    BY <1>3 DEF Inv, Copy, Types, TypeOK, Outputs, CasHasProduct, Jobs
  <2> QED BY <2>1, <2>2, <2>3, <2>4, <2>5, <2>6 DEF Inv
<1>4. ASSUME SetL1c PROVE Inv'
  <2>a. \/ UNCHANGED local
        \/ \E s \in Scalars, v \in Values : SetScalar(s, v)
    BY <1>4 DEF Inv, Types, TypeOK, SetL1c, Advance, Avn, Scalars, Value, Values, Jobs
  <2>b. DOMAIN local' = DOMAIN local /\ \A s \in DOMAIN local' : local'[s] \in Values
    BY <2>a, SetKeeps DEF Inv, Types, TypeOK
  <2>1. Types'
    BY <1>4, <2>b, RequestTypes DEF Inv, SetL1c, Types, TypeOK, Values, Value, NoProduct, Jobs, Files, Own
  <2>2. Edited'
    BY <1>4, RequestTypes DEF Inv, SetL1c, SetScalar, Types, TypeOK, Edited, Set, Expected, Own, OwnL1c, OwnForecast, Files, L1cKinds, Scalars
  <2>3. Downloaded'
    BY <1>4, RequestTypes DEF Inv, SetL1c, SetScalar, Types, TypeOK, Downloaded, Fresh, Files
  <2>4. Outputs'
    BY <1>4 DEF Inv, SetL1c, SetScalar, Types, TypeOK, Outputs, Jobs, CasHasProduct
  <2>5. Named'
    BY <1>4, NamesKept DEF Inv, SetL1c, SetScalar, Types, TypeOK, Named, Fresh, Downloaded, Outputs, Jobs
  <2>6. CasHasProduct'
    BY <1>4 DEF Inv, SetL1c, SetScalar, Types, TypeOK, Outputs, CasHasProduct, Jobs
  <2> QED BY <2>1, <2>2, <2>3, <2>4, <2>5, <2>6 DEF Inv
<1>5. ASSUME SetMocca PROVE Inv'
  <2>a. \/ UNCHANGED local
        \/ \E s \in Scalars, v \in Values : SetScalar(s, v)
    BY <1>5 DEF Inv, Types, TypeOK, SetMocca, Advance, Avn, Scalars, Value, Values, Jobs
  <2>b. DOMAIN local' = DOMAIN local /\ \A s \in DOMAIN local' : local'[s] \in Values
    BY <2>a, SetKeeps DEF Inv, Types, TypeOK
  <2>1. Types'
    BY <1>5, <2>b, RequestTypes DEF Inv, SetMocca, Types, TypeOK, Values, Value, NoProduct, Jobs, Files, Own
  <2>2. Edited'
    BY <1>5, RequestTypes DEF Inv, SetMocca, SetScalar, Types, TypeOK, Edited, Set, Expected, Own, OwnL1c, OwnForecast, Files, L1cKinds, Scalars
  <2>3. Downloaded'
    BY <1>5, RequestTypes DEF Inv, SetMocca, SetScalar, Types, TypeOK, Downloaded, Fresh, Files
  <2>4. Outputs'
    BY <1>5 DEF Inv, SetMocca, SetScalar, Types, TypeOK, Outputs, Jobs, CasHasProduct
  <2>5. Named'
    BY <1>5, NamesKept DEF Inv, SetMocca, SetScalar, Types, TypeOK, Named, Fresh, Downloaded, Outputs, Jobs
  <2>6. CasHasProduct'
    BY <1>5 DEF Inv, SetMocca, SetScalar, Types, TypeOK, Outputs, CasHasProduct, Jobs
  <2> QED BY <2>1, <2>2, <2>3, <2>4, <2>5, <2>6 DEF Inv
<1>6. ASSUME Download PROVE Inv'
  <2>1. Types'
    BY <1>6, RequestTypes DEF Inv, Download, Advance, Types, TypeOK, Values, Value, NoProduct, Jobs, Files, Own
  <2>2. Edited'
    BY <1>6, RequestTypes DEF Inv, Download, Advance, Types, TypeOK, Edited, Set, Expected, Own, OwnL1c, OwnForecast, Files, L1cKinds, Scalars
  <2>3. Downloaded'
    BY <1>6, RequestTypes DEF Inv, Download, Advance, Types, TypeOK, Downloaded, Fresh, Files
  <2>4. Outputs'
    BY <1>6 DEF Inv, Download, Advance, Types, TypeOK, Outputs, Jobs, CasHasProduct
  <2>5. Named'
    BY <1>6, NamesKept DEF Inv, Download, Advance, Types, TypeOK, Named, Fresh, Downloaded, Outputs, Jobs
  <2>6. CasHasProduct'
    BY <1>6 DEF Inv, Download, Advance, Types, TypeOK, Outputs, CasHasProduct, Jobs
  <2> QED BY <2>1, <2>2, <2>3, <2>4, <2>5, <2>6 DEF Inv
<1>7. ASSUME DownloadFails PROVE Inv'
  <2>1. Types'
    BY <1>7, RequestTypes DEF Inv, DownloadFails, Types, TypeOK, Values, Value, NoProduct, Jobs, Files, Own
  <2>2. Edited'
    BY <1>7, RequestTypes DEF Inv, DownloadFails, Types, TypeOK, Edited, Set, Expected, Own, OwnL1c, OwnForecast, Files, L1cKinds, Scalars
  <2>3. Downloaded'
    BY <1>7, RequestTypes DEF Inv, DownloadFails, Types, TypeOK, Downloaded, Fresh, Files
  <2>4. Outputs'
    BY <1>7 DEF Inv, DownloadFails, Types, TypeOK, Outputs, Jobs, CasHasProduct
  <2>5. Named'
    BY <1>7, NamesKept DEF Inv, DownloadFails, Types, TypeOK, Named, Fresh, Downloaded, Outputs, Jobs
  <2>6. CasHasProduct'
    BY <1>7 DEF Inv, DownloadFails, Types, TypeOK, Outputs, CasHasProduct, Jobs
  <2> QED BY <2>1, <2>2, <2>3, <2>4, <2>5, <2>6 DEF Inv
<1>8. ASSUME SetForecast PROVE Inv'
  <2>a. \/ UNCHANGED local
        \/ \E s \in Scalars, v \in Values : SetScalar(s, v)
    BY <1>8 DEF Inv, Types, TypeOK, SetForecast, Advance, Avn, Scalars, Value, Values, Jobs
  <2>b. DOMAIN local' = DOMAIN local /\ \A s \in DOMAIN local' : local'[s] \in Values
    BY <2>a, SetKeeps DEF Inv, Types, TypeOK
  <2>1. Types'
    BY <1>8, <2>b, RequestTypes DEF Inv, SetForecast, Advance, Avn, Types, TypeOK, Values, Value, NoProduct, Jobs, Files, Own
  <2>2. Edited'
    BY <1>8, RequestTypes DEF Inv, SetForecast, SetScalar, Advance, Avn, Types, TypeOK, Edited, Set, Expected, Own, OwnL1c, OwnForecast, Files, L1cKinds, Scalars
  <2>3. Downloaded'
    BY <1>8, RequestTypes DEF Inv, SetForecast, SetScalar, Advance, Avn, Types, TypeOK, Downloaded, Fresh, Files
  <2>4. Outputs'
    BY <1>8 DEF Inv, SetForecast, SetScalar, Advance, Avn, Types, TypeOK, Outputs, Jobs, CasHasProduct
  <2>5. Named'
    BY <1>8, NamesKept DEF Inv, SetForecast, SetScalar, Advance, Avn, Types, TypeOK, Named, Fresh, Downloaded, Outputs, Jobs
  <2>6. CasHasProduct'
    BY <1>8 DEF Inv, SetForecast, SetScalar, Advance, Avn, Types, TypeOK, Outputs, CasHasProduct, Jobs
  <2> QED BY <2>1, <2>2, <2>3, <2>4, <2>5, <2>6 DEF Inv
<1>9. ASSUME Parse PROVE Inv'
  <2>1. Types'
    BY <1>9, RequestTypes DEF Inv, Parse, Types, TypeOK, Values, Value, NoProduct, Jobs, Files, Own
  <2>2. Edited'
    BY <1>9, RequestTypes DEF Inv, Parse, Types, TypeOK, Edited, Set, Expected, Own, OwnL1c, OwnForecast, Files, L1cKinds, Scalars
  <2>3. Downloaded'
    BY <1>9, RequestTypes DEF Inv, Parse, Types, TypeOK, Downloaded, Fresh, Files
  <2>4. Outputs'
    BY <1>9 DEF Inv, Parse, Types, TypeOK, Outputs, Jobs, CasHasProduct
  <2>5. Named'
    BY <1>9, NamesKept DEF Inv, Parse, Types, TypeOK, Named, Fresh, Downloaded, Outputs, Jobs
  <2>6. CasHasProduct'
    BY <1>9 DEF Inv, Parse, Types, TypeOK, Outputs, CasHasProduct, Jobs
  <2> QED BY <2>1, <2>2, <2>3, <2>4, <2>5, <2>6 DEF Inv
<1>10. ASSUME ParseFails PROVE Inv'
  <2>1. Types'
    BY <1>10, RequestTypes DEF Inv, ParseFails, Types, TypeOK, Values, Value, NoProduct, Jobs, Files, Own
  <2>2. Edited'
    BY <1>10, RequestTypes DEF Inv, ParseFails, Types, TypeOK, Edited, Set, Expected, Own, OwnL1c, OwnForecast, Files, L1cKinds, Scalars
  <2>3. Downloaded'
    BY <1>10, RequestTypes DEF Inv, ParseFails, Types, TypeOK, Downloaded, Fresh, Files
  <2>4. Outputs'
    BY <1>10 DEF Inv, ParseFails, Types, TypeOK, Outputs, Jobs, CasHasProduct
  <2>5. Named'
    BY <1>10, NamesKept DEF Inv, ParseFails, Types, TypeOK, Named, Fresh, Downloaded, Outputs, Jobs
  <2>6. CasHasProduct'
    BY <1>10 DEF Inv, ParseFails, Types, TypeOK, Outputs, CasHasProduct, Jobs
  <2> QED BY <2>1, <2>2, <2>3, <2>4, <2>5, <2>6 DEF Inv
<1>11. ASSUME OpenNetcdf PROVE Inv'
  <2>1. Types'
    BY <1>11, RequestTypes DEF Inv, OpenNetcdf, Types, TypeOK, Values, Value, NoProduct, Jobs, Files, Own
  <2>2. Edited'
    BY <1>11, RequestTypes DEF Inv, OpenNetcdf, Types, TypeOK, Edited, Set, Expected, Own, OwnL1c, OwnForecast, Files, L1cKinds, Scalars
  <2>3. Downloaded'
    BY <1>11, RequestTypes DEF Inv, OpenNetcdf, Types, TypeOK, Downloaded, Fresh, Files
  <2>4. Outputs'
    BY <1>11 DEF Inv, OpenNetcdf, Types, TypeOK, Outputs, Jobs, CasHasProduct
  <2>5. Named'
    BY <1>11, NamesKept, NamesOpened DEF Inv, OpenNetcdf, Types, TypeOK, Named, Fresh, Downloaded, Outputs, Jobs
  <2>6. CasHasProduct'
    BY <1>11 DEF Inv, OpenNetcdf, Types, TypeOK, Outputs, CasHasProduct, Jobs
  <2> QED BY <2>1, <2>2, <2>3, <2>4, <2>5, <2>6 DEF Inv
<1>12. ASSUME NetcdfFails PROVE Inv'
  <2>1. Types'
    BY <1>12, RequestTypes DEF Inv, NetcdfFails, Types, TypeOK, Values, Value, NoProduct, Jobs, Files, Own
  <2>2. Edited'
    BY <1>12, RequestTypes DEF Inv, NetcdfFails, Types, TypeOK, Edited, Set, Expected, Own, OwnL1c, OwnForecast, Files, L1cKinds, Scalars
  <2>3. Downloaded'
    BY <1>12, RequestTypes DEF Inv, NetcdfFails, Types, TypeOK, Downloaded, Fresh, Files
  <2>4. Outputs'
    BY <1>12 DEF Inv, NetcdfFails, Types, TypeOK, Outputs, Jobs, CasHasProduct
  <2>5. Named'
    BY <1>12, NamesKept DEF Inv, NetcdfFails, Types, TypeOK, Named, Fresh, Downloaded, Outputs, Jobs
  <2>6. CasHasProduct'
    BY <1>12 DEF Inv, NetcdfFails, Types, TypeOK, Outputs, CasHasProduct, Jobs
  <2> QED BY <2>1, <2>2, <2>3, <2>4, <2>5, <2>6 DEF Inv
<1>13. ASSUME FillNetcdf PROVE Inv'
  <2>1. Types'
    BY <1>13, RequestTypes DEF Inv, FillNetcdf, Types, TypeOK, Values, Value, NoProduct, Jobs, Files, Own
  <2>2. Edited'
    BY <1>13, RequestTypes DEF Inv, FillNetcdf, Types, TypeOK, Edited, Set, Expected, Own, OwnL1c, OwnForecast, Files, L1cKinds, Scalars
  <2>3. Downloaded'
    BY <1>13, RequestTypes DEF Inv, FillNetcdf, Types, TypeOK, Downloaded, Fresh, Files
  <2>4. Outputs'
    BY <1>13 DEF Inv, FillNetcdf, Types, TypeOK, Outputs, Jobs, CasHasProduct
  <2>5. Named'
    BY <1>13, NamesKept DEF Inv, FillNetcdf, Types, TypeOK, Named, Fresh, Downloaded, Outputs, Jobs
  <2>6. CasHasProduct'
    BY <1>13 DEF Inv, FillNetcdf, Types, TypeOK, Outputs, CasHasProduct, Jobs
  <2> QED BY <2>1, <2>2, <2>3, <2>4, <2>5, <2>6 DEF Inv
<1>14. ASSUME OpenCas PROVE Inv'
  <2>1. Types'
    BY <1>14, RequestTypes DEF Inv, OpenCas, Types, TypeOK, Values, Value, NoProduct, Jobs, Files, Own
  <2>2. Edited'
    BY <1>14, RequestTypes DEF Inv, OpenCas, Types, TypeOK, Edited, Set, Expected, Own, OwnL1c, OwnForecast, Files, L1cKinds, Scalars
  <2>3. Downloaded'
    BY <1>14, RequestTypes DEF Inv, OpenCas, Types, TypeOK, Downloaded, Fresh, Files
  <2>4. Outputs'
    BY <1>14 DEF Inv, OpenCas, Types, TypeOK, Outputs, Jobs, CasHasProduct
  <2>5. Named'
    BY <1>14, NamesKept DEF Inv, OpenCas, Types, TypeOK, Named, Fresh, Downloaded, Outputs, Jobs
  <2>6. CasHasProduct'
    BY <1>14 DEF Inv, OpenCas, Types, TypeOK, Outputs, CasHasProduct, Jobs
  <2> QED BY <2>1, <2>2, <2>3, <2>4, <2>5, <2>6 DEF Inv
<1>15. ASSUME FillCas PROVE Inv'
  <2>1. Types'
    BY <1>15, RequestTypes DEF Inv, FillCas, Types, TypeOK, Values, Value, NoProduct, Jobs, Files, Own
  <2>2. Edited'
    BY <1>15, RequestTypes DEF Inv, FillCas, Types, TypeOK, Edited, Set, Expected, Own, OwnL1c, OwnForecast, Files, L1cKinds, Scalars
  <2>3. Downloaded'
    BY <1>15, RequestTypes DEF Inv, FillCas, Types, TypeOK, Downloaded, Fresh, Files
  <2>4. Outputs'
    BY <1>15 DEF Inv, FillCas, Types, TypeOK, Outputs, Jobs, CasHasProduct
  <2>5. Named'
    BY <1>15, NamesKept DEF Inv, FillCas, Types, TypeOK, Named, Fresh, Downloaded, Outputs, Jobs
  <2>6. CasHasProduct'
    BY <1>15 DEF Inv, FillCas, Types, TypeOK, Outputs, CasHasProduct, Jobs
  <2> QED BY <2>1, <2>2, <2>3, <2>4, <2>5, <2>6 DEF Inv
<1>16. ASSUME Kill PROVE Inv'
  <2>1. Types'
    BY <1>16, RequestTypes DEF Inv, Kill, Types, TypeOK, Values, Value, NoProduct, Jobs, Files, Own
  <2>2. Edited'
    BY <1>16, RequestTypes DEF Inv, Kill, Types, TypeOK, Edited, Set, Expected, Own, OwnL1c, OwnForecast, Files, L1cKinds, Scalars
  <2>3. Downloaded'
    BY <1>16, RequestTypes DEF Inv, Kill, Types, TypeOK, Downloaded, Fresh, Files
  <2>4. Outputs'
    BY <1>16 DEF Inv, Kill, Types, TypeOK, Outputs, Jobs, CasHasProduct
  <2>5. Named'
    BY <1>16, NamesKept DEF Inv, Kill, Types, TypeOK, Named, Fresh, Downloaded, Outputs, Jobs
  <2>6. CasHasProduct'
    BY <1>16 DEF Inv, Kill, Types, TypeOK, Outputs, CasHasProduct, Jobs
  <2> QED BY <2>1, <2>2, <2>3, <2>4, <2>5, <2>6 DEF Inv
<1>17. CASE UNCHANGED vars
  <2>1. Types' /\ Downloaded' /\ Outputs' /\ CasHasProduct'
    BY <1>17 DEF vars, Inv, Types, TypeOK, Downloaded, Fresh, Outputs, CasHasProduct
  <2>2. Named'
    BY <1>17, NamesKept DEF vars, Inv, Named, Fresh
  <2>3. Edited'
    BY <1>17 DEF vars, Inv, Edited, Set, Expected, Own, OwnL1c, OwnForecast
  <2> QED BY <2>1, <2>2, <2>3 DEF Inv
<1> QED BY <1>1, <1>2, <1>3, <1>4, <1>5, <1>6, <1>7, <1>8, <1>9, <1>10, <1>11, <1>12, <1>13, <1>14, <1>15, <1>16, <1>17 DEF Next

\* The invariant holds in every state.
THEOREM Invariant == Spec => []Inv
PROOF
<1>1. Init => Inv
  BY InitHolds
<1>2. Inv /\ [Next]_vars => Inv'
  BY StepKeeps
<1> QED BY <1>1, <1>2, PTL DEF Spec

\* The variables are well typed, for any arguments and any number of jobs.
THEOREM TypeCorrect == Spec => []TypeOK
PROOF
<1>1. Inv => TypeOK
  BY DEF Inv, Types
<1> QED BY <1>1, Invariant, PTL

\* main writes the product and then the CAS file: wherever jobs fail or are
\* killed, no CAS file is without its complete product.
THEOREM CasComesLast == Spec => []CasHasProduct
PROOF
<1>1. Inv => CasHasProduct
  BY DEF Inv
<1> QED BY <1>1, Invariant, PTL

\* josfra_spdc.sh edits a copy made for the job: a complete product names the
\* inputs the job was given and none that an earlier job left.
THEOREM InputsAreOwn == Spec => []GivenAreUsed
PROOF
<1>1. ASSUME Inv, job # 0, nc[job].state = "complete", NEW s \in args.scalars,
             nc[job].names[s].kind = "input"
      PROVE  inputs[nc[job].names[s].n] = job
  <2>1. Fresh /\ nc[job].names[s] = Expected(s) /\ s \in Scalars
    BY <1>1, RequestTypes DEF Inv, Types, Named, Names
  <2>2. \E f \in args.forecasts : Expected(s) = Value("input", f)
    BY <1>1, <2>1 DEF Expected, Own, OwnL1c, OwnForecast, Value, Scalars
  <2> QED BY <2>1, <2>2 DEF Fresh, Value
<1>2. Inv => GivenAreUsed
  BY <1>1 DEF GivenAreUsed, Inv, Named, Names
<1> QED BY <1>2, Invariant, PTL
=============================================================================
