-------------------------- MODULE MCCommandContent --------------------------
(***************************************************************************)
(* CommandContent with every arm of AICommand, well formed and with one    *)
(* field off, to every kind of target.                                     *)
(***************************************************************************)
EXTENDS CommandContent

MCUnits == {1, 2}
MCKnownDefs == {1}

\* A well-formed command of each arm for a unit.
Plain(arm, u) == [arm |-> arm, unit |-> u, options |-> 1, pos |-> "in_map",
                  val |-> 1, id |-> "OTHER"]

\* One field off, where the arm has the field: options outside the mask and
\* outside a short, a position that is no place on the map, a value at or
\* over an edge.
OneOff(arm) ==
  LET c == Plain(arm, 1)
  IN  {[c EXCEPT !.options = o] :
         o \in IF arm \in OptionArms THEN {0, 8, 65537} ELSE {}}
      \cup {[c EXCEPT !.pos = p] :
              p \in IF arm \in PositionArms THEN {"outside", "not_finite"}
                                            ELSE {}}
      \cup {[c EXCEPT !.val = v] :
              v \in IF arm \in {"build_unit", "draw_unit", "give_me",
                                "give_me_new_unit", "set_move_state",
                                "set_fire_state"}
                    THEN {-1, 0, 2, 3} ELSE {}}

CustomIds == {"MANUAL_LAUNCH", "SET_TARGET", "MODE_TOGGLE", "CANCEL_TARGET",
              "SET_TARGET_RECTANGLE"}

MCCommands ==
  {Plain(a, u) : a \in Arms \cup {"not_set"}, u \in {0, 1, 3, -3}}
  \cup UNION {OneOff(a) : a \in Arms}
  \cup {[Plain("custom", 1) EXCEPT !.id = i, !.val = v] :
          i \in CustomIds, v \in 0..4}

Batch(t, cmds) == [target |-> t, commands |-> cmds, batch_seq |-> 1,
                   client_command_id |-> 1, based |-> TRUE]

\* The batch's target and the command's unit: none, ours, not ours, one of
\* each, and 5, which reads as the int32 -3.
TargetPairs == {<<0, 0>>, <<1, 1>>, <<1, 0>>, <<2, 1>>, <<3, 3>>, <<5, -3>>}

MCBatches ==
  {Batch(tu[1], <<Plain(a, tu[2])>>) : a \in Arms \cup {"not_set"},
                                       tu \in TargetPairs}
  \cup {Batch(1, <<c>>) : c \in {d \in MCCommands : d.unit = 1}}
  \cup {Batch(1, <<Plain("stop", 1), c>>) : c \in OneOff("build_unit")}
  \cup {Batch(1, <<Plain("stop", 1), Plain("free_path", 0)>>),
        Batch(1, <<>>),
        Batch(1, <<Plain("stop", 1), Plain("stop", 1), Plain("stop", 1)>>)}
  \cup {[Batch(1, <<Plain("stop", 1)>>) EXCEPT !.client_command_id = i] :
          i \in {Absent, 0}}
  \cup {[Batch(1, <<Plain("stop", 1)>>) EXCEPT !.based = FALSE],
        [Batch(1, <<Plain("stop", 1)>>) EXCEPT !.batch_seq = 0]}

Compatibility == [mode |-> "COMPATIBILITY", max_batch_commands |-> 2,
                  require_correlation |-> FALSE, require_state_basis |-> FALSE,
                  allow_legacy_ai_admin |-> TRUE,
                  reject_unsupported_arms |-> FALSE]

\* What the configuration parser and the validator's tests can choose.
MCSettings ==
  {Compatibility,
   [Compatibility EXCEPT !.reject_unsupported_arms = TRUE],
   [Compatibility EXCEPT !.mode = "STRICT", !.require_correlation = TRUE,
                         !.require_state_basis = TRUE,
                         !.allow_legacy_ai_admin = FALSE]}
=============================================================================
