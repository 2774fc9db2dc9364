---------------------------- MODULE ControlState ----------------------------
(* The runtime settings: control.State, edited by POST /api/settings and     *)
(* saved through runtimeprefs.Store; the kill switch, which has an endpoint  *)
(* of its own and is not saved; and the restart that puts the saved settings *)
(* over the environment's.                                                   *)
(*                                                                           *)
(* Four fields stand for the settings: the scan interval; two of the         *)
(* automation block's, which is saved whole and must satisfy min <= max      *)
(* (MinEntryQuote and MaxQuote); and the LLM model, which is not saved.      *)
(* FALSE and TRUE are the kill switch's positions.                           *)
EXTENDS Integers

CONSTANTS
  Updaters,   \* requests to POST /api/settings
  Nobody,     \* a free updateMu
  Edits,      \* what they may ask for: functions from some fields to values
  Env,        \* the environment's value of every field
  MaxToggles  \* bound on changes of the kill switch

Fields == {"scan", "min", "max", "model"}
Automation == {"min", "max"}

(* Settings.Validate, as far as one field depends on another; 0 is no limit. *)
Valid(s) == s["max"] > 0 => s["min"] <= s["max"]

ASSUME ControlAssumption ==
  /\ Nobody \notin Updaters /\ MaxToggles \in Nat
  /\ Env \in [Fields -> Nat] /\ Valid(Env)
  /\ \A e \in Edits : DOMAIN e \subseteq Fields /\ \A f \in DOMAIN e : e[f] \in Nat

VARIABLES
  settings,   \* State.settings, without the kill switch
  kill,
  updating,   \* holder of State.updateMu
  updater,    \* updater[u]: [step, edit, next, kill]; next and kill are the copy
              \* of the settings it works on
  prefs,      \* the saved checkpoints: a function from the saved fields
  client,     \* the model of the LLM client the orchestrator has
  toggles,
  asked       \* history: the last edit published of each field, and "kill"

controlVars == <<settings, kill, updating, updater, prefs, client, toggles,
                 asked>>

Over(f, g) == [x \in DOMAIN f |-> IF x \in DOMAIN g THEN g[x] ELSE f[x]]
NoUpdate == [step |-> "idle", edit |-> <<>>, next |-> Env, kill |-> FALSE]

(* Type invariant. *)
ControlTypeOK ==
  /\ settings \in [Fields -> Nat] /\ kill \in BOOLEAN
  /\ updating \in Updaters \cup {Nobody} /\ toggles \in 0..MaxToggles
  /\ updater \in [Updaters ->
       [step : {"idle", "persist", "publish", "model", "client", "done"},
        edit : Edits \cup {<<>>}, next : [Fields -> Nat], kill : BOOLEAN]]
  /\ DOMAIN prefs \subseteq Fields /\ \A f \in DOMAIN prefs : prefs[f] \in Nat
  /\ client \in Nat /\ asked \in [field : [Fields -> Nat], kill : BOOLEAN]

ControlInit ==
  /\ settings = Env /\ kill = FALSE
  /\ updating = Nobody
  /\ updater = [u \in Updaters |-> NoUpdate]
  /\ prefs = <<>> /\ client = Env["model"]
  /\ toggles = 0 /\ asked = [field |-> Env, kill |-> FALSE]

Move(u, s) == updater' = [updater EXCEPT ![u].step = s]

(* UpdateSettingsPersist takes updateMu, edits a copy of the settings and    *)
(* validates it.                                                             *)
Candidate(u, e) ==
  /\ updater[u].step = "idle" /\ updating = Nobody
  /\ LET next == Over(settings, e) IN
     IF Valid(next)
       THEN /\ updating' = u
            /\ updater' = [updater EXCEPT ![u] =
                             [step |-> "persist", edit |-> e, next |-> next,
                              kill |-> kill]]
       ELSE Move(u, "done") /\ UNCHANGED updating
  /\ UNCHANGED <<settings, kill, prefs, client, toggles, asked>>

(* The checkpoints an edit writes: of the saved fields those it names, and   *)
(* the automation block as a whole.                                          *)
SavedBy(e) ==
  (DOMAIN e \cap {"scan"})
    \cup IF DOMAIN e \cap Automation # {} THEN Automation ELSE {}

(* SavePreferences is one transaction, or one replacement of the state file. *)
Saved(u) ==
  LET written == SavedBy(updater[u].edit) IN
  prefs' = [f \in DOMAIN prefs \cup written |->
              IF f \in written THEN updater[u].next[f] ELSE prefs[f]]

(* A write that fails may still have been committed: the five seconds ran    *)
(* out, or the connection broke, behind the commit.                          *)
PersistSettings(u) ==
  /\ updater[u].step = "persist"
  /\ \/ /\ Saved(u)
        /\ Move(u, "publish")
        /\ UNCHANGED updating
     \/ /\ Saved(u) \/ UNCHANGED prefs
        /\ Move(u, "done") /\ updating' = Nobody
  /\ UNCHANGED <<settings, kill, client, toggles, asked>>

(* Variant: the switch is published as it was when the edit began. *)
PublishSettingsWithKill(u) ==
  /\ updater[u].step = "publish"
  /\ settings' = updater[u].next /\ kill' = updater[u].kill
  /\ updating' = Nobody
  /\ asked' = [asked EXCEPT !.field = Over(@, updater[u].edit)]
  /\ Move(u, "model")
  /\ UNCHANGED <<prefs, client, toggles>>

(* The edit is published; the kill switch keeps its newest position. *)
PublishSettings(u) ==
  /\ updater[u].step = "publish"
  /\ settings' = updater[u].next
  /\ updating' = Nobody
  /\ asked' = [asked EXCEPT !.field = Over(@, updater[u].edit)]
  /\ Move(u, "model")
  /\ UNCHANGED <<kill, prefs, client, toggles>>

(* The handler builds the LLM client of the settings it now reads, and hands *)
(* it to the orchestrator; or the runtime could not be started and it        *)
(* returns before.                                                           *)
ReadModel(u) ==
  /\ updater[u].step = "model"
  /\ \/ updater' = [updater EXCEPT ![u].step = "client", ![u].next = settings]
     \/ DOMAIN updater[u].edit \cap Automation # {} /\ Move(u, "done")
  /\ UNCHANGED <<settings, kill, updating, prefs, client, toggles, asked>>

SetClient(u) ==
  /\ updater[u].step = "client"
  /\ client' = updater[u].next["model"]
  /\ Move(u, "done")
  /\ UNCHANGED <<settings, kill, updating, prefs, toggles, asked>>

(* POST /api/killswitch *)
SetKill(on) ==
  /\ toggles < MaxToggles /\ toggles' = toggles + 1
  /\ kill' = on /\ asked' = [asked EXCEPT !.kill = on]
  /\ UNCHANGED <<settings, updating, updater, prefs, client>>

(* The process starts again on the environment and the saved preferences,    *)
(* each validated before it is taken.                                        *)
RestartControl ==
  LET restored == Over(Env, prefs) IN
  /\ Valid(restored)
  /\ settings' = restored /\ kill' = FALSE
  /\ updating' = Nobody
  /\ updater' = [u \in Updaters |-> IF updater[u].step = "idle" THEN NoUpdate
                                    ELSE [NoUpdate EXCEPT !.step = "done"]]
  /\ client' = restored["model"]
  /\ asked' = [field |-> restored, kill |-> FALSE]
  /\ UNCHANGED <<prefs, toggles>>

ControlNext ==
  \/ \E u \in Updaters :
       \/ \E e \in Edits : Candidate(u, e)
       \/ PersistSettings(u) \/ PublishSettings(u) \/ ReadModel(u) \/ SetClient(u)
  \/ \E on \in BOOLEAN : SetKill(on)
  \/ RestartControl

ControlSpec == ControlInit /\ [][ControlNext]_controlVars

-----------------------------------------------------------------------------
(* state.go:144: an edit that takes its time to be saved undoes neither a    *)
(* kill switch thrown meanwhile nor another edit: every field has the value  *)
(* last published for it, the switch its last position.                      *)
EditsKept == settings = asked.field /\ kill = asked.kill

(* application.go:221-251: a restart never refuses its own saved settings:   *)
(* whatever was saved, half of it or more than was reported, it is valid.    *)
RestartAccepted == Valid(Over(Env, prefs))

(* A published edit is lost neither to another nor to a restart.             *)
SettingsKept == EditsKept /\ RestartAccepted
=============================================================================
