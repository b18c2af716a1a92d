------------------------------- MODULE PageMC -------------------------------
(***************************************************************************)
(* Parts that share no state, each in a module of its own: labs, their     *)
(* generation, telemetry, MCP over HTTP, statements over the pool of the   *)
(* server, the connection of a GitHub account.  In a behaviour one of them *)
(* moves, so that a run explores their sum and not their product.          *)
(***************************************************************************)
EXTENDS Telemetry, Labs, Generation, McpHttp, PgPool, Copilot

VARIABLE part

SumInit ==
  /\ part \in {"labs", "generation", "telemetry", "http", "pool", "copilot"}
  /\ Init /\ LabInit /\ GenerationInit /\ HttpInit /\ PoolInit
  /\ CopilotInit
  \* what varies in the beginning varies only for the part that moves
  /\ mode \in (IF part = "telemetry" THEN {"off", "content"} ELSE {"off"})
  /\ part # "generation" => legacy["lab"] = "absent" /\ legacy["quiz"] = "absent"

Rest(but) ==
  /\ but # "labs" => UNCHANGED labVars
  /\ but # "generation" => UNCHANGED generationVars
  /\ but # "telemetry" => UNCHANGED vars
  /\ but # "http" => UNCHANGED httpVars
  /\ but # "pool" => UNCHANGED poolVars
  /\ but # "copilot" => UNCHANGED copilotVars
  /\ UNCHANGED part

LabsStep == part = "labs" /\ LabNext /\ Rest("labs")
GenerationStep == part = "generation" /\ GenerationNext /\ Rest("generation")
TelemetryStep == part = "telemetry" /\ Next /\ Rest("telemetry")
HttpStep == part = "http" /\ HttpNext /\ Rest("http")
PoolStep == part = "pool" /\ PoolNext /\ Rest("pool")
CopilotStep == part = "copilot" /\ CopilotNext /\ Rest("copilot")

SumNext ==
  \/ LabsStep \/ GenerationStep \/ TelemetryStep
  \/ HttpStep \/ PoolStep \/ CopilotStep

sumVars == <<part, vars, labVars, generationVars, httpVars, poolVars, copilotVars>>
SumSpec == SumInit /\ [][SumNext]_sumVars /\ Fairness /\ CopilotFairness

\* What comes after a batch had company is beyond the properties of the pool.
Uncrossed == ~mixed
=============================================================================
