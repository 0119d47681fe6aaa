---------------------------- MODULE MCRulesEngine ----------------------------
(***************************************************************************)
(* An instance of the rules engine for TLC: two inputs, two outputs and    *)
(* three rules.  The second rule has two conditions on the same input, the *)
(* third one conditions on two inputs, a Start condition and two actions.  *)
(***************************************************************************)
EXTENDS RulesEngine

CONSTANTS i1, i2, o1, o2, x1

RuleOf(conditions, actions) == [conditions |-> conditions, actions |-> actions]
Act(o, a) == [id |-> o, action |-> a]

MCRules ==
  << RuleOf(<<Standard(i1, "Equal", BoolVal(TRUE))>>, <<Act(o1, Toggle)>>),
     RuleOf(<<Standard(i2, "Greater", IntVal(0)), Standard(i2, "Lower", IntVal(2))>>,
          <<Act(o2, SetValue(BoolVal(TRUE)))>>),
     RuleOf(<<Start, Standard(i1, "NotEqual", BoolVal(FALSE)),
            Standard(i2, "GreaterOrEqual", IntVal(1))>>,
          <<Act(o1, Stop), Act(o2, Toggle)>>) >>

MCCommand ==
  { Act(i1, SetValue(BoolVal(TRUE))), Act(i1, SetValue(BoolVal(FALSE))),
    Act(i2, SetValue(IntVal(1))), Act(i2, SetValue(IntVal(2))),
    Act(i1, Toggle), Act(x1, Stop) }

\* An input, and a client's command to an output.
MCFewCommands == {Act(i1, SetValue(BoolVal(TRUE))), Act(o1, Toggle)}

MCBroadcast ==
  { [id |-> o1, value |-> BoolVal(TRUE)], [id |-> o2, value |-> BoolVal(TRUE)],
    [id |-> o2, value |-> BoolVal(FALSE)] }

MCFewBroadcasts == {[id |-> i, value |-> BoolVal(TRUE)]: i \in {i1, o1}}
=============================================================================
