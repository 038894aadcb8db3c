------------------------------ MODULE JosfraJob ------------------------------
(***************************************************************************)
(* The JOSFRA job of the container: josfra_spdc.sh edits a copy of the     *)
(* config file so that it names the staged and downloaded inputs, and      *)
(* josfra_pge.py makes the NetCDF product and its CAS file from the copy.  *)
(*                                                                         *)
(* Jobs run one after another in one directory and may be killed anywhere: *)
(* a job finds the copy, the downloads and the outputs of those before it. *)
(* The product of a job has the time in its name; two jobs are taken to    *)
(* read the clock in different seconds, so the number of the job stands    *)
(* for the time.                                                           *)
(***************************************************************************)
EXTENDS Naturals

CONSTANTS
    Requests,   \* the arguments of jobs
    MaxJobs     \* bound: how many jobs run

\* The scalars of the config that name inputs, and the downloads with theirs.
Scalars == {"AirsL1cFile", "AirsMoccaFile", "AVN_3", "AVN_6", "AVN_9"}
Files == 1..4
Avn == <<"AVN_3", "AVN_6", "AVN_9">>

\* What is wrong with a config file, and what --l1c_file can be.
ConfigKinds == {"good", "noFile", "empty", "noGranule", "noVersion", "notInt"}
L1cKinds == {"none", "found", "emptyDir"}

ASSUME JobAssumption ==
    /\ MaxJobs \in Nat \ {0}
    /\ Requests # {}
    /\ Requests \subseteq [config : ConfigKinds, scalars : SUBSET Scalars, l1c : L1cKinds,
                           mocca : BOOLEAN, forecasts : SUBSET Files, log : BOOLEAN]

Jobs == 1..MaxJobs

VARIABLES
    job,      \* the number of the job that runs or ran last
    args,     \* its arguments
    pc,       \* where it is
    k,        \* the next forecast file
    local,    \* pge_config_local.xml: its scalars, and where their values are from
    inputs,   \* the job whose download each file of ./inputs is, or 0
    nc, cas   \* the state of the outputs of each job, and what a product names

vars == <<job, args, pc, k, local, inputs, nc, cas>>

\* A scalar has the value of the config file of a job, the path of a file
\* staged for a job, the path of a file in ./inputs, or none.
Value(kind, n) == [kind |-> kind, n |-> n]
Values == [kind : {"config", "staged", "input", "none"}, n : Nat]

NoProduct == [state |-> "absent", names |-> [s \in {} |-> Value("none", 0)]]

Init ==
    /\ job = 0 /\ pc = "exited" /\ k = 1
    /\ args \in Requests
    /\ local = NoProduct.names
    /\ inputs = [f \in Files |-> 0]
    /\ nc = [j \in Jobs |-> NoProduct]
    /\ cas = [j \in Jobs |-> "absent"]

----------------------------------------------------------------------------
(* josfra_spdc.sh                                                          *)

Goes(from, to) == pc = from /\ pc' = to

Start ==
    /\ pc \in {"exited", "failed"} /\ job < MaxJobs
    /\ job' = job + 1 /\ args' \in Requests
    /\ pc' = "check" /\ k' = 1
    /\ UNCHANGED <<local, inputs, nc, cas>>

\* The config file must be there and not empty.
Refuse ==
    /\ Goes("check", "failed")
    /\ args.config \in {"noFile", "empty"}
    /\ UNCHANGED <<job, args, k, local, inputs, nc, cas>>

Copy ==
    /\ Goes("check", "l1c")
    /\ args.config \notin {"noFile", "empty"}
    /\ local' = [s \in args.scalars |-> Value("config", job)]
    /\ UNCHANGED <<job, args, k, inputs, nc, cas>>

\* A scalar that the config does not have is skipped.
SetScalar(s, v) ==
    local' = IF s \in DOMAIN local THEN [local EXCEPT ![s] = v] ELSE local

\* realpath finds nothing in a directory without a product file, and its
\* failure in an argument does not stop the script: the scalar is emptied.
SetL1c ==
    /\ Goes("l1c", "mocca")
    /\ \/ args.l1c = "found" /\ SetScalar("AirsL1cFile", Value("staged", job))
       \/ args.l1c = "emptyDir" /\ SetScalar("AirsL1cFile", Value("none", 0))
       \/ args.l1c = "none" /\ UNCHANGED local
    /\ UNCHANGED <<job, args, k, inputs, nc, cas>>

SetMocca ==
    /\ Goes("mocca", "download")
    /\ IF args.mocca
       THEN SetScalar("AirsMoccaFile", Value("staged", job))
       ELSE UNCHANGED local
    /\ UNCHANGED <<job, args, k, inputs, nc, cas>>

----------------------------------------------------------------------------

\* The forecast files are taken in their order.
Advance(from, last, to) ==
    /\ pc = from
    /\ k' = IF k = last THEN 1 ELSE k + 1
    /\ pc' = IF k = last THEN to ELSE from

\* aws s3 cp replaces the file at its end, or fails and leaves it.
Download ==
    /\ Advance("download", 4, "forecast")
    /\ inputs' = IF k \in args.forecasts THEN [inputs EXCEPT ![k] = job] ELSE inputs
    /\ UNCHANGED <<job, args, local, nc, cas>>

OnlyWarns ==                                       \* mutated DownloadFails
    /\ k \in args.forecasts
    /\ Advance("download", 4, "forecast")
    /\ UNCHANGED <<job, args, local, inputs, nc, cas>>
DownloadFails ==
    /\ Goes("download", "failed")
    /\ k \in args.forecasts
    /\ UNCHANGED <<job, args, k, local, inputs, nc, cas>>

\* The fourth file has no scalar.
SetForecast ==
    /\ Advance("forecast", 3, "parse")
    /\ IF k \in args.forecasts
       THEN SetScalar(Avn[k], Value("input", k))
       ELSE UNCHANGED local
    /\ UNCHANGED <<job, args, inputs, nc, cas>>

----------------------------------------------------------------------------
(* josfra_pge.py                                                           *)

\* The name of the product comes from the granule and the clock, that of the
\* log from the arguments; what the executables return is only logged.
Parse ==
    /\ args.config # "noGranule" /\ args.log
    /\ Goes("parse", "nc")
    /\ UNCHANGED <<job, args, k, local, inputs, nc, cas>>

ParseFails ==
    /\ args.config = "noGranule" \/ ~args.log
    /\ Goes("parse", "failed")
    /\ UNCHANGED <<job, args, k, local, inputs, nc, cas>>

NamesFirst ==                                      \* mutated OpenNetcdf
    /\ args.config # "noVersion"
    /\ Goes("nc", "fill")
    /\ nc' = [nc EXCEPT ![job].names = local]
    /\ UNCHANGED <<job, args, k, local, inputs, cas>>
\* All scalars are read before the file is opened, and converted after.
OpenNetcdf ==
    /\ args.config # "noVersion"
    /\ Goes("nc", "fill")
    /\ nc' = [nc EXCEPT ![job] = [state |-> "partial", names |-> local]]
    /\ UNCHANGED <<job, args, k, local, inputs, cas>>

NetcdfFails ==
    /\ \/ args.config = "noVersion" /\ Goes("nc", "failed")
       \/ args.config = "notInt" /\ Goes("fill", "failed")
    /\ UNCHANGED <<job, args, k, local, inputs, nc, cas>>

FillNetcdf ==
    /\ args.config # "notInt"
    /\ Goes("fill", "cas")
    /\ nc' = [nc EXCEPT ![job].state = "complete"]
    /\ UNCHANGED <<job, args, k, local, inputs, cas>>

AlwaysCas ==                                       \* mutated OpenCas
    /\ pc \in {"fill", "cas"} /\ pc' = "casFill"
    /\ cas' = [cas EXCEPT ![job] = "partial"]
    /\ UNCHANGED <<job, args, k, local, inputs, nc>>
OpenCas ==
    /\ Goes("cas", "casFill")
    /\ cas' = [cas EXCEPT ![job] = "partial"]
    /\ UNCHANGED <<job, args, k, local, inputs, nc>>

FillCas ==
    /\ Goes("casFill", "exited")
    /\ cas' = [cas EXCEPT ![job] = "complete"]
    /\ UNCHANGED <<job, args, k, local, inputs, nc>>

Kill ==
    /\ pc \notin {"exited", "failed"} /\ pc' = "failed"
    /\ UNCHANGED <<job, args, k, local, inputs, nc, cas>>

Next ==
    \/ Start
    \/ Refuse \/ Copy
    \/ SetL1c \/ SetMocca
    \/ Download \/ DownloadFails \/ SetForecast
    \/ Parse \/ ParseFails
    \/ OpenNetcdf \/ NetcdfFails \/ FillNetcdf
    \/ OpenCas \/ FillCas
    \/ Kill

Spec == Init /\ [][Next]_vars

----------------------------------------------------------------------------
(* Properties                                                              *)

\* Types of the job, the files and the outputs; a product names nothing before
\* it is opened.
TypeOK ==
    /\ job \in Jobs \cup {0} /\ args \in Requests
    /\ pc \in {"check", "l1c", "mocca", "download", "forecast", "parse", "nc", "fill",
               "cas", "casFill", "exited", "failed"}
    /\ k \in Files
    /\ DOMAIN local \subseteq Scalars /\ \A s \in DOMAIN local : local[s] \in Values
    /\ inputs \in [Files -> Jobs \cup {0}]
    /\ DOMAIN nc = Jobs
    /\ \A j \in Jobs :
        /\ nc[j].state \in {"absent", "partial", "complete"}
        /\ nc[j].state = "absent" => nc[j].names = NoProduct.names
    /\ cas \in [Jobs -> {"absent", "partial", "complete"}]

\* The CAS file of the archive comes last: wherever a job fails or is killed,
\* a CAS file, even a partial one, has its complete product beside it, and a
\* job that reports success has left both.
CasHasProduct ==
    /\ \A j \in Jobs : cas[j] # "absent" => nc[j].state = "complete"
    /\ pc = "exited" /\ job # 0 => cas[job] = "complete"

\* What a scalar should say: the staged or downloaded file where it was given,
\* of this job and of no earlier one, else what the config of the job says.
Own == Value("config", job)
OwnL1c ==
    CASE args.l1c = "found"    -> Value("staged", job)
      [] args.l1c = "emptyDir" -> Value("none", 0)
      [] OTHER                 -> Own
OwnForecast(f) == IF f \in args.forecasts THEN Value("input", f) ELSE Own
Expected(s) ==
    CASE s = "AirsL1cFile"   -> OwnL1c
      [] s = "AirsMoccaFile" -> IF args.mocca THEN Value("staged", job) ELSE Own
      [] s = "AVN_3"         -> OwnForecast(1)
      [] s = "AVN_6"         -> OwnForecast(2)
      [] s = "AVN_9"         -> OwnForecast(3)

\* The complete product of a job has the scalars of its config and names for
\* each its own inputs, and the downloads it names were made by this job: no
\* value and no file that an earlier job left behind.
GivenAreUsed ==
    job # 0 /\ nc[job].state = "complete" =>
        /\ nc[job].names = [s \in args.scalars |-> Expected(s)]
        /\ \A s \in args.scalars :
            nc[job].names[s].kind = "input" => inputs[nc[job].names[s].n] = job
=============================================================================
