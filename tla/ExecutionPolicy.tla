--------------------------- MODULE ExecutionPolicy ---------------------------
(* Which configurations may trade.  The production gate is written down four *)
(* times: the settings' own predicates (config/config.go), the readiness     *)
(* report LiveGuard, the constructor of the exchange adapter (venue/cex.go)  *)
(* and the mode policies of the runtime (runtime/mode.go), which judge the   *)
(* adapter at startup and a description built from the settings ever after.*)
EXTENDS Integers

VARIABLES
  config,  \* the configuration; only its kill switch changes later
  adapter,   \* identity of the execution venue that was built
  app        \* "starting", "running", "refused"

policyVars == <<config, adapter, app>>

Modes == {"paper", "live"}
Venues == {"paper", "okx", "binance"}
Flags == {"demo", "keys", "ack", "token", "webhook", "postgres", "cexData", "perp",
          "isolated", "kill"}
Environments == {"paper", "demo", "live"}
Identities == [id : Venues, environment : Environments, writable : BOOLEAN]

PolicyTypeOK ==
  /\ config \in [mode : Modes, venue : Venues, on : SUBSET Flags]
  /\ adapter \in Identities
  /\ app \in {"starting", "running", "refused"}

HasFlags(s, flags) == flags \subseteq s.on
Production == Flags \ {"demo", "kill"}

-----------------------------------------------------------------------------
(* config.go *)

OKXDemoExecutionConfigured(s) ==
  s.mode = "paper" /\ s.venue = "okx" /\ HasFlags(s, {"demo", "keys"})

(* Variant: written before margin isolation became part of the gate. *)
OKXLiveUnisolated(s) ==
  /\ s.mode = "live" /\ s.venue = "okx"
  /\ HasFlags(s, Production \ {"isolated"}) /\ ~HasFlags(s, {"demo"})

OKXLiveExecutionConfigured(s) ==
  s.mode = "live" /\ s.venue = "okx" /\ HasFlags(s, Production) /\ ~HasFlags(s, {"demo"})

NewPositionAllowed(s) ==
  /\ IF s.mode = "paper" THEN s.venue = "paper" \/ OKXDemoExecutionConfigured(s)
     ELSE OKXLiveExecutionConfigured(s)
  /\ ~HasFlags(s, {"kill"})

(* LiveGuard's verdict: in live mode every condition on its own, each with a *)
(* reason, the kill switch among them; in paper mode without it.             *)
LiveGuard(s) ==
  IF s.mode = "live"
    THEN s.venue = "okx" /\ ~HasFlags(s, {"demo"}) /\ ~HasFlags(s, {"kill"})
         /\ \A condition \in Production : HasFlags(s, {condition})
    ELSE s.venue = "paper" \/ (s.venue = "okx" /\ HasFlags(s, {"demo", "keys"}))

-----------------------------------------------------------------------------
(* mode.go and the adapters *)

(* ModePolicy.ValidateExecution; an identity's kind follows from its id.     *)
Validated(mode, identity) ==
  /\ identity.writable
  /\ <<mode, identity.id, identity.environment>> \in
       {<<"paper", "paper", "paper">>, <<"paper", "okx", "demo">>, <<"live", "okx", "live">>}

(* The adapter New builds; binance is never given trading.                   *)
Built(s) ==
  [id |-> s.venue,
   environment |-> IF s.venue = "paper" THEN "paper"
                   ELSE IF s.venue = "okx" /\ HasFlags(s, {"demo"}) THEN "demo" ELSE "live",
   writable |-> \/ s.venue = "paper"
                \/ /\ s.venue = "okx"
                   /\ OKXDemoExecutionConfigured(s) \/ OKXLiveExecutionConfigured(s)]

(* RuntimeState.executionTarget, the adapter as the settings describe it.  *)
Described(s) ==
  [id |-> s.venue,
   environment |-> IF s.venue = "paper" THEN "paper"
                   ELSE IF OKXDemoExecutionConfigured(s) THEN "demo" ELSE "live",
   writable |-> \/ s.venue = "paper"
                \/ OKXDemoExecutionConfigured(s) \/ OKXLiveExecutionConfigured(s)]

(* CheckNewPosition of a safety state that is not frozen.                    *)
GatePasses(s) == Validated(s.mode, Described(s)) /\ ~HasFlags(s, {"kill"})

-----------------------------------------------------------------------------
PolicyInit ==
  /\ config \in [mode : Modes, venue : Venues, on : SUBSET Flags]
  /\ adapter = [id |-> "paper", environment |-> "paper", writable |-> FALSE]
  /\ app = "starting"

(* Settings.Validate and the part of app.New up to the mode policy.          *)
BuildApplication ==
  /\ app = "starting"
  /\ adapter' = Built(config)
  /\ app' = IF /\ config.mode = "live" => OKXLiveExecutionConfigured(config)
               /\ Validated(config.mode, Built(config))
            THEN "running" ELSE "refused"
  /\ UNCHANGED config

(* The kill switch, the only one of these an operator changes at run time.   *)
ToggleKill ==
  /\ app = "running"
  /\ config' = [config EXCEPT !.on = IF "kill" \in @ THEN @ \ {"kill"} ELSE @ \cup {"kill"}]
  /\ UNCHANGED <<adapter, app>>

PolicyNext == BuildApplication \/ ToggleKill
PolicySpec == PolicyInit /\ [][PolicyNext]_policyVars

-----------------------------------------------------------------------------
(* A running application trades through the adapter its policy accepted, and *)
(* the four statements of the gate still agree on it.                        *)
GatesAgree ==
  app = "running" =>
    /\ Validated(config.mode, adapter) /\ Described(config) = adapter
    /\ GatePasses(config) = NewPositionAllowed(config)
    /\ NewPositionAllowed(config) = (LiveGuard(config) /\ "kill" \notin config.on)
=============================================================================
