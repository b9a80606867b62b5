--------------------------- MODULE CommandContent ---------------------------
(***************************************************************************)
(* What a command says, on its way from a client to the engine: the worker *)
(* judges the content of a batch (CommandValidator), the coordinator's     *)
(* reader only its shape (AdmitCommandBatch), and the engine thread finds  *)
(* the unit again and turns each command into one engine call              *)
(* (DrainCommandQueue, DispatchCommand).  The three are kept in step by    *)
(* eight lists of command arms in three files.                             *)
(*                                                                         *)
(* Threads, slots, sequence numbers and the queue's capacity are           *)
(* CommandPath's subject.  Here a behaviour follows one batch, a refused   *)
(* one changes nothing, and issue codes and wording are left out.          *)
(***************************************************************************)
EXTENDS Integers, Sequences, FiniteSets

CONSTANTS Units,      \* unit ids of our team, now or later
          Commands,   \* AICommand messages
          Batches,    \* what clients may send
          Settings,   \* CommandValidationSettings
          KnownDefs,  \* ids GetCircuitDefSafe finds
          MaxCommands,  \* kMaxCoordinatorBatchCommands
          HalfRange,  \* 2^31, where an id stops being an int32
          None

ASSUME ContentAssumption ==
  /\ HalfRange \in Nat \ {0} /\ MaxCommands \in Nat
  /\ Units \subseteq 1..(HalfRange - 1)
  /\ KnownDefs \subseteq Nat \ {0}
  /\ \A b \in Batches : /\ b.target \in 0..(2 * HalfRange - 1)
                        /\ b.commands \in Seq(Commands)

VARIABLES
  settings,   \* CommandValidator::settings_
  teamUnits,  \* ids in CCircuitAI::teamUnits; a unit is erased from it before
              \*   it is marked dead, so those in it are alive
  queue,      \* CommandQueue
  pending,    \* the vector DrainCommandQueue works on
  event,      \* the last CommandDispatchEvent and the call it stands for
  healthy     \* the gateway is not Disabled

vars == <<settings, teamUnits, queue, pending, event, healthy>>

Absent == -1   \* an optional id that is not set

(***************************************************************************)
(* The arms of AICommand, and the lists each file keeps of them            *)
(***************************************************************************)

\* The oneof of AICommand; a message without one reads "not_set".
Arms ==
  {"draw_add_point", "draw_add_line", "draw_remove_point",
   "send_text_message", "set_last_pos_message", "send_resources",
   "set_my_income_share_direct", "set_share_level", "pause_team",
   "group_add_unit", "group_remove_unit", "init_path", "get_approx_length",
   "get_next_waypoint", "free_path", "give_me", "give_me_new_unit",
   "call_lua_rules", "call_lua_ui", "create_spline_figure",
   "create_line_figure", "set_figure_position", "set_figure_color",
   "remove_figure", "draw_unit", "build_unit", "stop", "wait", "timed_wait",
   "squad_wait", "death_wait", "gather_wait", "move_unit", "patrol", "fight",
   "attack", "attack_area", "guard", "repair", "reclaim_unit",
   "reclaim_area", "reclaim_in_area", "reclaim_feature", "restore_area",
   "resurrect", "resurrect_in_area", "capture", "capture_area", "set_base",
   "self_destruct", "load_units", "load_units_area", "load_onto",
   "unload_unit", "unload_units_area", "set_wanted_max_speed", "stockpile",
   "dgun", "custom", "set_on_off", "set_repeat", "set_move_state",
   "set_fire_state", "set_trajectory", "set_auto_repair_level",
   "set_idle_mode"}

\* PositionOf
PositionArms ==
  {"draw_add_point", "draw_remove_point", "set_last_pos_message",
   "give_me_new_unit", "set_figure_position", "draw_unit", "build_unit",
   "move_unit", "patrol", "fight", "attack_area", "reclaim_area",
   "reclaim_in_area", "restore_area", "resurrect_in_area", "capture_area",
   "set_base", "load_units_area", "unload_unit", "unload_units_area"}

\* CommandArmName: every other arm is called "unsupported".
NamedArms ==
  {"move_unit", "patrol", "fight", "attack_area", "stop", "wait",
   "build_unit", "repair", "reclaim_unit", "reclaim_area",
   "resurrect_in_area", "self_destruct", "set_wanted_max_speed",
   "set_fire_state", "set_move_state", "pause_team", "give_me",
   "give_me_new_unit"}

\* kSupportedUnitArms, what GetCommandSchema announces.
SupportedUnitArms ==
  {"move_unit", "patrol", "fight", "attack_area", "stop", "wait",
   "build_unit", "repair", "reclaim_unit", "reclaim_area",
   "resurrect_in_area", "self_destruct", "set_wanted_max_speed",
   "set_fire_state", "set_move_state"}

\* CommandOptionsOf
OptionArms ==
  {"build_unit", "stop", "wait", "timed_wait", "squad_wait", "death_wait",
   "gather_wait", "move_unit", "patrol", "fight", "attack", "attack_area",
   "guard", "repair", "reclaim_unit", "reclaim_area", "reclaim_in_area",
   "reclaim_feature", "restore_area", "resurrect", "resurrect_in_area",
   "capture", "capture_area", "set_base", "self_destruct", "load_units",
   "load_units_area", "load_onto", "unload_unit", "unload_units_area",
   "set_wanted_max_speed", "stockpile", "dgun", "custom", "set_on_off",
   "set_repeat", "set_move_state", "set_fire_state", "set_trajectory",
   "set_auto_repair_level", "set_idle_mode"}

\* Forgetting an arm that was added last.
UnitBoundButOne == OptionArms \cup {"group_add_unit"}

\* TryCommandUnitId
UnitBound ==
  {"build_unit", "stop", "wait", "timed_wait", "squad_wait", "death_wait",
   "gather_wait", "move_unit", "patrol", "fight", "attack", "attack_area",
   "guard", "repair", "reclaim_unit", "reclaim_area", "reclaim_in_area",
   "reclaim_feature", "restore_area", "resurrect", "resurrect_in_area",
   "capture", "capture_area", "set_base", "self_destruct", "load_units",
   "load_units_area", "load_onto", "unload_unit", "unload_units_area",
   "set_wanted_max_speed", "stockpile", "dgun", "custom", "set_on_off",
   "set_repeat", "set_move_state", "set_fire_state", "set_trajectory",
   "set_auto_repair_level", "set_idle_mode", "group_add_unit",
   "group_remove_unit"}

\* IsGameWideCommand
GameWide ==
  {"send_text_message", "set_last_pos_message", "pause_team", "init_path",
   "get_approx_length", "get_next_waypoint", "free_path", "call_lua_rules",
   "call_lua_ui", "set_my_income_share_direct", "set_share_level",
   "draw_add_point", "draw_add_line", "draw_remove_point",
   "create_spline_figure", "create_line_figure", "set_figure_position",
   "set_figure_color", "remove_figure", "draw_unit", "give_me_new_unit",
   "send_resources", "give_me"}

\* Forgetting the arms that have no Cmd* method.
CarriedOptionsCmd ==
  {"build_unit", "stop", "wait", "move_unit", "patrol", "fight",
   "attack_area", "repair", "reclaim_unit", "reclaim_in_area",
   "resurrect_in_area", "self_destruct", "set_wanted_max_speed",
   "set_fire_state", "set_move_state"}

\* OptionsOf
CarriedOptions ==
  {"build_unit", "stop", "wait", "timed_wait", "move_unit", "patrol",
   "fight", "attack", "attack_area", "guard", "repair", "reclaim_unit",
   "reclaim_area", "reclaim_in_area", "reclaim_feature",
   "resurrect_in_area", "self_destruct", "dgun", "set_wanted_max_speed",
   "set_fire_state", "set_move_state"}

\* DispatchCommand, the arms with a method of CCircuitUnit: first those that
\* pass options and timeout on, then those whose method has no such parameter.
OrderArms ==
  {"move_unit", "patrol", "fight", "attack_area", "stop", "build_unit",
   "repair", "reclaim_unit", "reclaim_in_area", "resurrect_in_area"}
ValueArms == {"wait", "self_destruct", "set_wanted_max_speed",
              "set_fire_state", "set_move_state"}

\* DispatchCommand, the arms that go through ExecuteCustomCommand: with an id
\* of the engine, with the client's own, and the group arms.
RawArms ==
  {"attack", "guard", "dgun", "capture", "set_on_off", "set_repeat",
   "stockpile", "timed_wait", "squad_wait", "death_wait", "gather_wait",
   "reclaim_area", "reclaim_feature", "restore_area", "resurrect",
   "capture_area", "set_base", "load_units", "load_units_area", "load_onto",
   "unload_unit", "unload_units_area", "set_trajectory",
   "set_auto_repair_level", "set_idle_mode"}
CustomArms == {"custom"}
GroupArms == {"group_add_unit", "group_remove_unit"}
ExecuteArms == RawArms \cup CustomArms \cup GroupArms

\* DispatchCommand, the arms for Game, Pathing, Lua, Cheats, Drawer, Economy.
\* ScopedCheatEnable puts the cheat switch back on every way out.
GameArms ==
  {"send_text_message", "set_last_pos_message", "pause_team", "init_path",
   "get_approx_length", "get_next_waypoint", "free_path", "call_lua_rules",
   "call_lua_ui", "draw_add_point", "draw_add_line", "draw_remove_point",
   "create_spline_figure", "create_line_figure", "set_figure_position",
   "set_figure_color", "remove_figure", "draw_unit", "send_resources",
   "set_my_income_share_direct", "set_share_level", "give_me_new_unit",
   "give_me"}

(***************************************************************************)
(* The worker: CommandValidator                                            *)
(***************************************************************************)

\* static_cast<int32_t>(target_unit_id)
ToInt32(id) == IF id < HalfRange THEN id ELSE id - 2 * HalfRange

\* static_cast<short>(options)
ToShort(options) == ((options + 32768) % 65536) - 32768

ValidateCommandTarget(cmd, target) ==
  cmd.arm \in UnitBound => cmd.unit > 0 /\ cmd.unit = target

OwnsLiveUnit(id) == id \in teamUnits

\* CapabilityProvider::IsSupportedCommandArm of CommandArmName
IsSupported(arm) == arm \in NamedArms /\ arm \in SupportedUnitArms

Strict == settings.reject_unsupported_arms \/ settings.mode = "STRICT"

\* ValidateCommand: an empty command, an arm for the admin channel, an arm
\* that is not announced (strict only), option bits outside 0x7, an enum out
\* of range, a position that is not finite or outside the map, an unknown def.
ValidateCommand(cmd) ==
  /\ cmd.arm \in Arms
  /\ cmd.arm \in {"pause_team", "give_me", "give_me_new_unit"}
       => settings.allow_legacy_ai_admin
  /\ Strict => IsSupported(cmd.arm)
  /\ IsSupported(cmd.arm) /\ cmd.arm \in OptionArms => cmd.options \in 0..7
  /\ cmd.arm \in {"set_move_state", "set_fire_state"} => cmd.val \in 0..2
  /\ cmd.arm \in PositionArms => cmd.pos = "in_map"
  /\ cmd.arm = "build_unit" => cmd.val \in KnownDefs

\* ValidateBatch: the count, the correlation id and state basis a strict
\* service asks for, every command, then the ownership of the target.
ValidateBatch(b) ==
  LET target == ToInt32(b.target)
      cmds   == {b.commands[i] : i \in 1..Len(b.commands)}
  IN  /\ Len(b.commands) > 0
      /\ settings.max_batch_commands > 0
           => Len(b.commands) <= settings.max_batch_commands
      /\ settings.require_correlation => b.client_command_id # Absent
      /\ settings.require_state_basis => b.based
      /\ \A cmd \in cmds : /\ ValidateCommandTarget(cmd, target)
                           /\ ValidateCommand(cmd)
      /\ (\E cmd \in cmds : cmd.arm \in UnitBound) => OwnsLiveUnit(target)

(***************************************************************************)
(* Queueing                                                                *)
(***************************************************************************)

\* Bound: a behaviour follows one batch.
Idle == healthy /\ queue = <<>> /\ pending = <<>> /\ event = None

\* QueuedCommand.  "wire" and "via" are kept for the properties.
Queued(b, via) ==
  [i \in 1..Len(b.commands) |->
     [command |-> b.commands[i], target |-> ToInt32(b.target),
      wire |-> b.target, via |-> via]]

Enqueue(b, via) ==
  /\ queue' = Queued(b, via)
  /\ UNCHANGED <<settings, teamUnits, pending, event, healthy>>

\* SubmitCommands, a batch that passes.
Submit(b) == Idle /\ ValidateBatch(b) /\ Enqueue(b, "stream")

\* Trusting the cast.
AdmitAnyTarget(b) ==
  /\ Idle
  /\ Len(b.commands) \in 1..MaxCommands
  /\ b.batch_seq # 0
  /\ b.client_command_id \notin {Absent, 0}
  /\ Enqueue(b, "coordinator")

\* AdmitCommandBatch, a batch that passes: the content is not looked at.
Admit(b) ==
  /\ Idle
  /\ Len(b.commands) \in 1..MaxCommands
  /\ b.target < HalfRange
  /\ b.batch_seq # 0
  /\ b.client_command_id \notin {Absent, 0}
  /\ Enqueue(b, "coordinator")

(***************************************************************************)
(* The engine thread: DrainCommandQueue and DispatchCommand                *)
(***************************************************************************)

Drain ==
  /\ healthy /\ pending = <<>> /\ queue # <<>>
  /\ pending' = queue /\ queue' = <<>>
  /\ UNCHANGED <<settings, teamUnits, event, healthy>>

\* EffectiveDispatchTargetUnitId; 0 stands for nullopt.
EffectiveTarget(e) == IF e.command.arm \in GameWide THEN -1 ELSE e.target

\* The event of the head of the vector, and on to the next command.
Report(status, on, options) ==
  /\ event' = [entry |-> Head(pending), status |-> status, on |-> on,
               options |-> options]
  /\ pending' = Tail(pending)
  /\ UNCHANGED <<settings, teamUnits, queue, healthy>>

\* The rechecks before DispatchCommand.  The one for IsDead never fires: no
\* unit of teamUnits is marked.
Skip ==
  /\ pending # <<>>
  /\ LET t == EffectiveTarget(Head(pending))
     IN  \/ t = 0 /\ Report("no_target", None, None)
         \/ t > 0 /\ t \notin teamUnits /\ Report("target_missing", None, None)
         \/ t < 0 /\ teamUnits = {} /\ Report("not_ready", None, None)

\* unit_ctx: the target, or own.begin() for a negative target_id.
IsContext(u, t) ==
  /\ u \in teamUnits
  /\ IF t > 0 THEN u = t ELSE t < 0 /\ \A v \in teamUnits : u <= v

\* The parameter counts the "custom" arm allows for ids it knows.
ParamsFit(cmd) ==
  CASE cmd.id \in {"MANUAL_LAUNCH", "SET_TARGET"} -> cmd.val \in {1, 3}
    [] cmd.id = "MODE_TOGGLE" -> cmd.val = 1
    [] cmd.id = "CANCEL_TARGET" -> cmd.val = 0
    [] cmd.id = "SET_TARGET_RECTANGLE" -> cmd.val >= 3
    [] OTHER -> TRUE

\* What DispatchCommand returns false for, whatever the engine does.
Refused(cmd) ==
  \/ cmd.arm \notin OrderArms \cup ValueArms \cup ExecuteArms \cup GameArms
  \/ /\ cmd.arm \in {"build_unit", "draw_unit", "give_me_new_unit"}
     /\ cmd.val \notin KnownDefs
  \/ cmd.arm = "give_me" /\ cmd.val <= 0
  \/ cmd.arm = "custom" /\ ~ParamsFit(cmd)

\* Where it may also fail: GetFriendlyUnit finds nothing, an engine object is
\* null, cheats cannot be enabled, a cheat call throws inside its try block.
MayFail(cmd) ==
  cmd.arm \in {"repair", "reclaim_unit"} \cup ExecuteArms \cup GameArms

OptionsOf(cmd) ==
  IF cmd.arm \in CarriedOptions THEN ToShort(cmd.options) ELSE 0

\* The options of the engine call; None when they are not handed on.
CallOptions(cmd) ==
  IF cmd.arm \in OrderArms \cup ExecuteArms THEN OptionsOf(cmd) ELSE None

\* DispatchCommand returns true: one call, on unit_ctx unless the arm is for
\* another engine object (CmdWait and CmdSelfD save a call that changes nothing).
Apply ==
  /\ pending # <<>>
  /\ LET cmd == Head(pending).command
     IN  \E u \in Units :
           /\ IsContext(u, EffectiveTarget(Head(pending)))
           /\ ~Refused(cmd)
           /\ Report("applied", IF cmd.arm \in GameArms THEN None ELSE u,
                     CallOptions(cmd))

\* DispatchCommand returns false.
Refuse ==
  /\ pending # <<>>
  /\ LET cmd == Head(pending).command
     IN  \E u \in Units :
           /\ IsContext(u, EffectiveTarget(Head(pending)))
           /\ \/ Refused(cmd) /\ Report("refused", None, None)
              \/ MayFail(cmd) /\ Report("failed", None, None)

\* DispatchCommand throws: Disabled, and the rest of the vector is dropped.
Throw ==
  /\ pending # <<>>
  /\ \E u \in Units : IsContext(u, EffectiveTarget(Head(pending)))
  /\ healthy' = FALSE /\ pending' = <<>> /\ event' = None
  /\ UNCHANGED <<settings, teamUnits, queue>>

\* Engine callbacks, between ticks: a unit joins the team (RegisterTeamUnit) or
\* leaves it (UnregisterTeamUnit).  Bound: until the batch is dispatched.
UnitEvent(u) ==
  /\ pending = <<>> /\ event = None
  /\ \/ u \notin teamUnits /\ teamUnits' = teamUnits \cup {u}
     \/ u \in teamUnits /\ teamUnits' = teamUnits \ {u}
  /\ UNCHANGED <<settings, queue, pending, event, healthy>>

Init ==
  /\ settings \in Settings
  /\ teamUnits \in SUBSET Units
  /\ queue = <<>> /\ pending = <<>>
  /\ event = None
  /\ healthy = TRUE

Next ==
  \/ \E b \in Batches : Submit(b) \/ Admit(b)
  \/ Drain \/ Skip \/ Apply \/ Refuse \/ Throw
  \/ \E u \in Units : UnitEvent(u)

Spec == Init /\ [][Next]_vars

(***************************************************************************)
(* Properties                                                              *)
(***************************************************************************)

\* A command that is about a unit reaches no other unit: the call is made on
\* the unit the batch named on the wire, while it is ours, whichever way the
\* batch came and however its id reads as an int32; and if the batch was
\* validated, the command named that unit too.
ActsOnItsTarget ==
  event # None /\ event.status = "applied"
                 /\ event.entry.command.arm \in UnitBound
    => /\ event.on = event.entry.wire /\ OwnsLiveUnit(event.on)
       /\ event.entry.via = "stream" => event.entry.command.unit = event.on

\* The same of the coordinator's batches, which no run checks: "must either match
\* `target_unit_id` exactly or be rejected as `target_drift`".  AdmitCommandBatch
\* does not compare, and a command that names another unit acts on the target.
DriftIsRejected ==
  event # None /\ event.status = "applied"
                 /\ event.entry.command.arm \in UnitBound
    => event.entry.command.unit = event.on

\* What the validator passed is never dropped for want of a target: the arms
\* TryCommandUnitId leaves out are the ones IsGameWideCommand lists.
AcceptedHasTarget ==
  event # None /\ event.entry.via = "stream" => event.status # "no_target"

\* A command the service announces, which is any command a strict service passes,
\* is refused by the dispatcher only for what the engine lacks, and the call it
\* makes carries the options the client sent.  The five arms of ValueArms are
\* excepted: they are announced with the same option mask, but DispatchCommand
\* drops their options.
AnnouncedArrives ==
  event # None /\ event.entry.via = "stream"
               /\ (Strict \/ event.entry.command.arm \in SupportedUnitArms)
    => /\ event.status \notin {"no_target", "refused"}
       /\ event.status = "applied" /\ event.entry.command.arm \notin ValueArms
            => event.options = event.entry.command.options

\* The same without exception and of every arm with options, which no run checks:
\* "Each unit-order command carries its own `options`".  It fails for the arms of
\* ValueArms and for those OptionsOf does not list, which get 0.
OptionsArrive ==
  event # None /\ event.status = "applied"
               /\ event.entry.command.arm \in OptionArms
    => event.options = ToShort(event.entry.command.options)
=============================================================================
