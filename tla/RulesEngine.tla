----------------------------- MODULE RulesEngine -----------------------------
(***************************************************************************)
(* The rules engine (core/src/rules_engine.rs) between its three channels: *)
(* input events and requests come in, commands for the outputs go out, and *)
(* the values broadcast by the output controllers come back.  Its two      *)
(* halves, handle_input and handle_output_feedback, are polled by the same *)
(* task (try_join!), so they interleave where handle_input awaits.         *)
(***************************************************************************)
EXTENDS Updates, SequencesExt

CONSTANTS
  Input,        \* ids of the inputs in the configuration
  Output,       \* ids of the outputs in the configuration
  Client,       \* who may ask for the home data
  Rules,        \* RulesConfig.rules, a sequence of rules
  Command,      \* the [id, action] records that inputs and clients may send
  Broadcast,    \* the [id, value] records that may be broadcast
  InputCapacity,\* CHANNEL_CAPACITY, of the input channel
  Capacity,     \* CHANNEL_CAPACITY, of the other two
  NoOutput      \* the server runs with --no_output

\* Conditions of config/rules.rs; the operators are those of IOValue.
Start == [kind |-> "Start"]
Standard(i, oper, v) == [kind |-> "Standard", input |-> i, operator |-> oper, value |-> v]

ASSUME CapacityAssumption == {InputCapacity, Capacity} \subseteq Nat \ {0} /\ NoOutput \in BOOLEAN
ASSUME IdsAssumption == Input \cap Output = {}

Condition == UNION {ToSet(r.conditions): r \in ToSet(Rules)}
Action    == Command \cup UNION {ToSet(r.actions): r \in ToSet(Rules)}
Rule      == [conditions: Seq(Condition), actions: Seq(Action)]

ASSUME RulesAssumption == Rules \in Seq(Rule)
ASSUME ValuesAssumption ==
  /\ \A b \in Broadcast: b.value \in IOValueSet
  /\ \A c \in Command: c.action[1] = "SetValue" => c.action[2] \in IOValueSet

VARIABLES
  inValue,      \* InputSharedContext.value
  outValue,     \* OutputSharedContext.value: the engine's copy
  rxInput,      \* the input channel
  cmds,         \* the output command channel
  rxOutput,     \* the engine's share of the broadcast channel
  lagged,       \* it has lost broadcasts it had not received
  pc,           \* where handle_input stands
  rules, acts,  \* what its two for loops have before them
  \* history of the input event being served, and of the broadcasts
  plan, known, done, published

engine  == <<pc, rules, acts>>
values  == <<inValue, outValue>>
history == <<plan, known, done, published>>
program == <<values, rxInput, cmds, rxOutput, lagged, engine>>
vars == <<program, history>>

Unknown(S) == [x \in S |-> NoValue]
Known(ov) == {o \in Output: ov[o] # NoValue}

(***************************************************************************)
(* make_input_context_map: a rule is pushed once for each of its           *)
(* conditions that names the input.                                        *)
(***************************************************************************)
RulesOf(i) ==
  FlattenSeq([r \in DOMAIN Rules |->
    LET cs == Rules[r].conditions
    IN  [n \in 1..Cardinality({c \in DOMAIN cs: cs[c].kind = "Standard" /\ cs[c].input = i}) |->
           Rules[r]]])

\* Every condition must hold; a Start condition always does, one on an input
\* that is unknown or has no value yet never does.
should_exec(rule, iv) ==
  \A c \in ToSet(rule.conditions):
    c.kind = "Standard" =>
      /\ c.input \in Input /\ iv[c.input] # NoValue
      /\ Holds(c.operator, iv[c.input], c.value)

\* What the rules rs ask for, all outputs being known; what an event on i does.
Wanted(rs, iv) ==
  FlattenSeq([r \in DOMAIN rs |-> IF should_exec(rs[r], iv) THEN rs[r].actions ELSE <<>>])

Plan(i, iv) == Wanted(RulesOf(i), iv)

Init ==
  /\ inValue = Unknown(Input) /\ outValue = Unknown(Output)
  /\ rxInput = <<>> /\ cmds = <<>> /\ rxOutput = <<>> /\ lagged = FALSE
  /\ pc = "recv" /\ rules = <<>> /\ acts = <<>>
  /\ plan = <<>> /\ known = {} /\ done = <<>>
  /\ published = Unknown(Output)

Room(q) == Len(q) < Capacity
InputRoom == Len(rxInput) < InputCapacity

(***************************************************************************)
(* The inputs and the clients.                                             *)
(***************************************************************************)
SendInput(c) ==
  /\ pc # "stopped" /\ InputRoom
  /\ rxInput' = Append(rxInput, [kind |-> "Action", action |-> c])
  /\ UNCHANGED <<values, cmds, rxOutput, lagged, engine>>

\* What the first n messages of the channel set the input i to.
Writes(i, n) ==
  [k \in 1..n |->
    LET m == rxInput[k]
    IN  IF m.kind = "Action" /\ m.action.id = i /\ m.action.action[1] = "SetValue"
        THEN m.action.action[2] ELSE NoValue]

\* The values the inputs will have when the first n messages have been handled.
Pending(n) == [i \in Input |-> Latest(inValue[i], Writes(i, n))]

\* Mutant: requests overtake the events.
AskFirst(c) ==
  /\ pc # "stopped" /\ InputRoom
  /\ rxInput' = <<[kind |-> "Request", client |-> c, promise |-> Pending(Len(rxInput))]>> \o rxInput
  /\ ~\E m \in ToSet(rxInput): m.kind = "Request" /\ m.client = c
  /\ UNCHANGED <<values, cmds, rxOutput, lagged, engine>>

Ask(c) ==
  /\ pc # "stopped" /\ InputRoom
  /\ rxInput' = Append(rxInput, [kind |-> "Request", client |-> c, promise |-> Pending(Len(rxInput))])
  /\ ~\E m \in ToSet(rxInput): m.kind = "Request" /\ m.client = c
  /\ UNCHANGED <<values, cmds, rxOutput, lagged, engine>>

(***************************************************************************)
(* The output controllers, and the dispatcher that feeds them.  A broadcast*)
(* channel that is full loses its oldest value.  The main server broadcasts*)
(* its inputs too.  With --no_output no output controller runs: nothing is *)
(* broadcast of any output then, and no rule's action has its reference.   *)
(***************************************************************************)
Publish(b) ==
  /\ pc # "stopped"
  /\ NoOutput => b.id \notin Output
  /\ rxOutput' = Append(IF Room(rxOutput) THEN rxOutput ELSE Tail(rxOutput), b)
  /\ lagged' = (lagged \/ ~Room(rxOutput))
  /\ UNCHANGED <<values, rxInput, cmds, engine>>

\* The receiver is held even where nothing polls it (select! evaluates the
\* expression of a branch that its precondition disables).
Dispatch ==
  /\ ~NoOutput /\ cmds # <<>> /\ cmds' = Tail(cmds)
  /\ UNCHANGED <<values, rxInput, rxOutput, lagged, engine>>

\* What is known of the outputs when b has been heard.
Heard(ov, b) == IF b.id \in Output THEN [ov EXCEPT ![b.id] = b.value] ELSE ov

(***************************************************************************)
(* handle_output_feedback.  A lagged receiver is an error: it ends both    *)
(* halves of the engine, and with them the server.                         *)
(***************************************************************************)
\* Mutant: a lagged receiver goes on with what is left.
FeedbackGoesOn ==
  /\ pc # "stopped" /\ rxOutput # <<>>
  /\ rxOutput' = Tail(rxOutput) /\ lagged' = FALSE
  /\ outValue' = Heard(outValue, Head(rxOutput))
  /\ UNCHANGED <<inValue, rxInput, cmds, engine>>

Feedback ==
  /\ pc # "stopped" /\ rxOutput # <<>> /\ ~lagged
  /\ rxOutput' = Tail(rxOutput)
  /\ outValue' = Heard(outValue, Head(rxOutput))
  /\ UNCHANGED <<inValue, rxInput, cmds, lagged, engine>>

FeedbackLagged ==
  /\ pc # "stopped" /\ lagged
  /\ pc' = "stopped" /\ rules' = <<>> /\ acts' = <<>>
  /\ UNCHANGED <<values, rxInput, cmds, rxOutput, lagged>>

(***************************************************************************)
(* handle_input.                                                           *)
(***************************************************************************)
Receive(kind) ==
  /\ pc = "recv" /\ rxInput # <<>>
  /\ Head(rxInput).kind = kind
  /\ rxInput' = Tail(rxInput)
  /\ UNCHANGED <<outValue, cmds, rxOutput, lagged>>

\* An input event: its value is kept, and the input's rules are gone through.
RecvEvent ==
  /\ Receive("Action")
  /\ LET c == Head(rxInput).action IN
       /\ c.id \in Input /\ c.action[1] = "SetValue"
       /\ inValue' = [inValue EXCEPT ![c.id] = c.action[2]]
       /\ rules' = RulesOf(c.id)
  /\ pc' = "rules" /\ UNCHANGED acts

\* "Ignoring unexpected input command".
RecvUnexpected ==
  /\ Receive("Action")
  /\ Head(rxInput).action.id \in Input /\ Head(rxInput).action.action[1] # "SetValue"
  /\ UNCHANGED <<inValue, engine>>

\* Any other id is forwarded, whether or not there is such an output.
RecvForward ==
  /\ Receive("Action")
  /\ Head(rxInput).action.id \notin Input
  /\ pc' = "forward" /\ acts' = <<Head(rxInput).action>>
  /\ UNCHANGED <<inValue, rules>>

\* HomeData::new reads both maps at once; the client gets it by a channel of
\* its own.  (The request carries, as history, what it should find.)
HomeData == inValue

RecvRequest ==
  /\ Receive("Request")
  /\ UNCHANGED <<inValue, engine>>

\* Mutant: a command is dropped when the channel is full.
SendCommandOrDrop ==
  /\ acts # <<>>
  /\ cmds' = IF Room(cmds) THEN Append(cmds, Head(acts)) ELSE cmds
  /\ acts' = Tail(acts)
  /\ UNCHANGED <<values, rxInput, rxOutput, lagged, rules>>

SendCommand ==
  /\ acts # <<>> /\ Room(cmds)
  /\ cmds' = Append(cmds, Head(acts))
  /\ acts' = Tail(acts)
  /\ UNCHANGED <<values, rxInput, rxOutput, lagged, rules>>

Forward ==
  /\ pc = "forward" /\ SendCommand
  /\ pc' = "recv"

\* Mutant: the first rule that holds is the last one served.
NextRuleFirstOnly ==
  /\ pc = "rules" /\ acts = <<>> /\ rules # <<>>
  /\ acts' = IF should_exec(Head(rules), inValue) THEN Head(rules).actions ELSE <<>>
  /\ rules' = IF should_exec(Head(rules), inValue) THEN <<>> ELSE Tail(rules)
  /\ UNCHANGED <<values, rxInput, cmds, rxOutput, lagged, pc>>

\* Mutant: a rule that does not hold is looked at again.
NextRuleStuck ==
  /\ pc = "rules" /\ acts = <<>> /\ rules # <<>>
  /\ acts' = IF should_exec(Head(rules), inValue) THEN Head(rules).actions ELSE <<>>
  /\ rules' = IF should_exec(Head(rules), inValue) THEN Tail(rules) ELSE rules
  /\ UNCHANGED <<values, rxInput, cmds, rxOutput, lagged, pc>>

NextRule ==
  /\ pc = "rules" /\ acts = <<>> /\ rules # <<>>
  /\ acts' = IF should_exec(Head(rules), inValue) THEN Head(rules).actions ELSE <<>>
  /\ rules' = Tail(rules)
  /\ UNCHANGED <<values, rxInput, cmds, rxOutput, lagged, pc>>

\* get_ref_value: an output must have been heard of before it is commanded.
HasReference(o) == o \in Known(outValue)

exec_action ==
  /\ pc = "rules" /\ SendCommand
  /\ HasReference(Head(acts).id)
  /\ UNCHANGED pc

\* Mutant: an output nothing is known of ends its whole rule.
SkipActionAndRest ==
  /\ pc = "rules" /\ acts # <<>> /\ ~HasReference(Head(acts).id)
  /\ acts' = <<>>
  /\ UNCHANGED <<values, rxInput, cmds, rxOutput, lagged, pc, rules>>

SkipAction ==
  /\ pc = "rules" /\ acts # <<>> /\ ~HasReference(Head(acts).id)
  /\ acts' = Tail(acts)
  /\ UNCHANGED <<values, rxInput, cmds, rxOutput, lagged, pc, rules>>

\* Mutant: the event is over with its last rule, whatever that rule asked for.
EventDoneEarly ==
  /\ pc = "rules" /\ rules = <<>>
  /\ pc' = "recv"
  /\ UNCHANGED <<values, rxInput, cmds, rxOutput, lagged, rules, acts>>

EventDone ==
  /\ pc = "rules" /\ acts = <<>> /\ rules = <<>>
  /\ pc' = "recv"
  /\ UNCHANGED <<values, rxInput, cmds, rxOutput, lagged, rules, acts>>

HandleInput ==
  \/ RecvEvent
  \/ RecvUnexpected
  \/ RecvForward
  \/ RecvRequest
  \/ Forward
  \/ NextRule
  \/ exec_action
  \/ SkipAction
  \/ EventDone

\* What is in the channels and in the maps goes with the server.
Fresh ==
  /\ inValue' = Unknown(Input) /\ outValue' = Unknown(Output)
  /\ rxInput' = <<>> /\ cmds' = <<>> /\ rxOutput' = <<>> /\ lagged' = FALSE
  /\ rules' = <<>> /\ acts' = <<>>

\* The server is started again by its service manager.
Restart == pc = "stopped" /\ pc' = "recv" /\ Fresh

(***************************************************************************)
(* The steps, with what the history remembers of each.                     *)
(***************************************************************************)
PublishedStep(b) ==
  /\ Publish(b)
  /\ published' = Heard(published, b)
  /\ UNCHANGED <<plan, known, done>>

EventStep ==
  /\ RecvEvent
  /\ plan' = Plan(Head(rxInput).action.id, inValue')
  /\ known' = Known(outValue) /\ done' = <<>> /\ UNCHANGED published

Gone(sent) ==
  /\ done' = Append(done, [action |-> Head(acts), sent |-> sent])
  /\ UNCHANGED <<plan, known, published>>

ActionStep == exec_action /\ Gone(TRUE)

SkipStep == SkipAction /\ Gone(FALSE)

RestartStep ==
  /\ Restart
  /\ plan' = <<>> /\ known' = {} /\ done' = <<>> /\ published' = Unknown(Output)

OtherStep ==
  \/ \E c \in Command: SendInput(c)
  \/ \E c \in Client: Ask(c)
  \/ Dispatch
  \/ Feedback
  \/ FeedbackLagged
  \/ RecvUnexpected
  \/ RecvForward
  \/ RecvRequest
  \/ Forward
  \/ NextRule
  \/ EventDone

Next ==
  \/ \E b \in Broadcast: PublishedStep(b)
  \/ EventStep
  \/ ActionStep
  \/ SkipStep
  \/ RestartStep
  \/ OtherStep /\ UNCHANGED history

Spec == Init /\ [][Next]_vars

\* tokio polls both halves of the engine, and the dispatcher, whenever they
\* can go on (the dispatcher is taken to be able to: see the README).
FairSpec ==
  /\ Spec
  /\ WF_program(HandleInput)
  /\ WF_program(Feedback) /\ WF_program(FeedbackLagged)
  /\ WF_program(Dispatch)

-----------------------------------------------------------------------------
Value   == IOValueSet \cup {NoValue}
Message == [kind: {"Action"}, action: Command]
             \cup [kind: {"Request"}, client: Client, promise: [Input -> Value]]

\* The channels keep their bounds, and handle_input takes its next message only
\* when it has done with the last one.
TypeOK ==
  /\ inValue \in [Input -> Value] /\ {outValue, published} \subseteq [Output -> Value]
  /\ rxInput \in Seq(Message) /\ Len(rxInput) <= InputCapacity
  /\ cmds \in Seq(Action) /\ Len(cmds) <= Capacity
  /\ rxOutput \in Seq(Broadcast) /\ Len(rxOutput) <= Capacity
  /\ pc \in {"recv", "rules", "forward", "stopped"} /\ lagged \in BOOLEAN
  /\ rules \in Seq(Rule) /\ acts \in Seq(Action)
  /\ pc = "recv" => rules = <<>> /\ acts = <<>>
  /\ pc = "forward" => rules = <<>> /\ Len(acts) = 1
  /\ plan \in Seq(Action) /\ known \subseteq Output
  /\ done \in Seq([action: Action, sent: BOOLEAN])

\* An input event is served as if in one step: whatever is broadcast in the
\* meantime, what is done for it is what the rules that held when it was received
\* ask for, in their order; only an action on an output of which nothing had been
\* heard by then may be left out, and only before the first news of that output.
EmitsPlan ==
  pc = "recv" =>
    /\ Len(done) = Len(plan)
    /\ \A n \in DOMAIN plan:
         /\ done[n].action = plan[n]
         /\ plan[n].id \in known => done[n].sent
         /\ done[n].sent =>
              /\ plan[n].id \in Known(outValue)
              /\ \A k \in n..Len(plan): plan[k].id = plan[n].id => done[k].sent

\* A client that asks for the home data finds every input event queued before
\* its request, and none queued after it.
ReadsItsWrites == [][RecvRequest => HomeData = Head(rxInput).promise]_vars

\* The engine's copy of an output is what was last broadcast for it, up to what
\* is still in the channel; when something was lost, the engine stops before
\* it acts on another broadcast.
NewsOf(o) ==
  [n \in DOMAIN rxOutput |-> IF rxOutput[n].id = o THEN rxOutput[n].value ELSE NoValue]

OutputsFollow ==
  pc # "stopped" /\ ~lagged =>
    \A o \in Output: published[o] = Latest(outValue[o], NewsOf(o))

(***************************************************************************)
(* The inductive invariant.  A queued request carries the values its       *)
(* predecessors in the channel will leave behind.  What was done for the   *)
(* event, what its current rule still asks for, and what the rules before  *)
(* it ask for, make up the plan.  What was left out was unknown when the   *)
(* event came and is not known before anything that was sent.              *)
(***************************************************************************)
Promised ==
  \A n \in DOMAIN rxInput: rxInput[n].kind = "Request" => rxInput[n].promise = Pending(n - 1)

Tried == [n \in DOMAIN done |-> done[n].action]

OnPlan ==
  /\ pc = "rules" => plan = Tried \o (acts \o Wanted(rules, inValue))
  /\ pc \in {"recv", "forward"} => plan = Tried

InTime ==
  /\ known \subseteq Known(outValue)
  /\ \A n \in DOMAIN done:
       /\ done[n].action.id \in known => done[n].sent
       /\ done[n].sent =>
            /\ done[n].action.id \in Known(outValue)
            /\ \A k \in n..Len(done): done[k].action.id = done[n].action.id => done[k].sent

IInv == TypeOK /\ Promised /\ OutputsFollow /\ OnPlan /\ InTime

\* A full input channel is drained: main server and clients are not blocked for
\* ever in their sends.
InputTaken == Len(rxInput) = InputCapacity ~> (Len(rxInput) < InputCapacity \/ pc = "stopped")
=============================================================================
