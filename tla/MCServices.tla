----------------------------- MODULE MCServices -----------------------------
(* The order journal and the components around the execution path, side by   *)
(* side.  They share no state, so part names the one that moves and the      *)
(* others stay as they began: the state space is the sum of theirs, not the  *)
(* product.                                                                  *)
EXTENDS MCOrderJournal, MCRiskSizing, FileStore, ExecutionLease, LlmBudget, EventBus,
        ControlState, PositionAutomation, ExecutionPolicy

VARIABLE part

Parts == {"journal", "file", "lease", "llm", "bus", "control", "sizing", "automation",
          "policy"}

-----------------------------------------------------------------------------
(* Constants *)

(* Edits of the scan interval, the entry limits, the model, and two at once. *)
SettingsEdits ==
  {"scan" :> 2, "min" :> 2, "max" :> 1, "model" :> 2, ("scan" :> 1) @@ ("max" :> 2)}
SettingsEnv == [f \in Fields |-> IF f = "max" THEN 2 ELSE 1]

PriceMarks == {-2, 0, 2, 3}

(* The components name their actors with the same model values, of which     *)
(* three call the language model and two do all else.                        *)
Symmetry == Permutations(Calls) \cup Permutations(Browsers)

-----------------------------------------------------------------------------
servicesVars == <<part, vars, fileVars, leaseVars, llmVars, busVars, controlVars,
                  sizingVars, automationVars, policyVars>>

(* Where a component begins in more than one way, only the one that moves    *)
(* does.                                                                     *)
ServicesInit ==
  /\ part \in Parts
  /\ Init /\ (part # "journal" => backend = "file")
  /\ FileInit /\ (part # "file" => replaces)
  /\ LeaseInit /\ LlmInit /\ BusInit /\ ControlInit /\ AutomationInit
  /\ SizingInit /\ (part # "sizing" => proposal = [r \in Runs |-> Long])
  /\ IF part = "policy" THEN PolicyInit
     ELSE /\ config = [mode |-> "paper", venue |-> "paper", on |-> {}]
          /\ adapter = Built(config) /\ app = "starting"

JournalMoves ==
  /\ part = "journal" /\ Next
  /\ UNCHANGED <<part, fileVars, leaseVars, llmVars, busVars, controlVars,
                  sizingVars, automationVars, policyVars>>

FileMoves ==
  /\ part = "file" /\ FileNext
  /\ UNCHANGED <<part, vars, leaseVars, llmVars, busVars, controlVars,
                  sizingVars, automationVars, policyVars>>

LeaseMoves ==
  /\ part = "lease" /\ LeaseNext
  /\ UNCHANGED <<part, vars, fileVars, llmVars, busVars, controlVars,
                  sizingVars, automationVars, policyVars>>

LlmMoves ==
  /\ part = "llm" /\ LlmNext
  /\ UNCHANGED <<part, vars, fileVars, leaseVars, busVars, controlVars,
                  sizingVars, automationVars, policyVars>>

BusMoves ==
  /\ part = "bus" /\ BusNext
  /\ UNCHANGED <<part, vars, fileVars, leaseVars, llmVars, controlVars,
                  sizingVars, automationVars, policyVars>>

ControlMoves ==
  /\ part = "control" /\ ControlNext
  /\ UNCHANGED <<part, vars, fileVars, leaseVars, llmVars, busVars,
                  sizingVars, automationVars, policyVars>>

SizingMoves ==
  /\ part = "sizing" /\ SizingNext
  /\ UNCHANGED <<part, vars, fileVars, leaseVars, llmVars, busVars,
                  controlVars, automationVars, policyVars>>

AutomationMoves ==
  /\ part = "automation" /\ AutomationNext
  /\ UNCHANGED <<part, vars, fileVars, leaseVars, llmVars, busVars,
                  controlVars, sizingVars, policyVars>>

PolicyMoves ==
  /\ part = "policy" /\ PolicyNext
  /\ UNCHANGED <<part, vars, fileVars, leaseVars, llmVars, busVars,
                  controlVars, sizingVars, automationVars>>

ServicesNext ==
  \/ JournalMoves \/ FileMoves \/ LeaseMoves \/ LlmMoves
  \/ BusMoves \/ ControlMoves \/ SizingMoves
  \/ AutomationMoves \/ PolicyMoves

ServicesSpec ==
  ServicesInit /\ [][ServicesNext]_servicesVars
=============================================================================
