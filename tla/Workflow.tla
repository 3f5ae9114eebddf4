------------------------------ MODULE Workflow ------------------------------
(***************************************************************************)
(* core/runtime/workflows.py: one registered Workflow and its instances.   *)
(* current_state is a field of the Workflow, so all instances share it.    *)
(* start and trigger run guards, handlers, exit and entry actions of the   *)
(* application, which may raise and may call start, trigger and cancel     *)
(* themselves: the calls in progress form a stack.                         *)
(***************************************************************************)
EXTENDS Naturals, Sequences

CONSTANTS
    States,         \* names added with add_state
    Arrows,         \* Arrows[s]: the dictionary action -> target of state s
    Listed,         \* <<from, action>> of the transitions added
    Instances,      \* instance identifiers
    NoState,        \* current_state is None
    MaxDepth        \* bound: calls in progress

Targets == UNION {{Arrows[s][a] : a \in DOMAIN Arrows[s]} : s \in States}
Actions == UNION {DOMAIN Arrows[s] : s \in States}

ASSUME WorkflowAssumption ==
    /\ NoState \notin States \cup Targets
    /\ Listed \subseteq States \X Actions

VARIABLES
    current,    \* Workflow.current_state
    status,     \* status[i]: "none" before create_instance, then the status
    lastTo,     \* lastTo[i]: the target of the last entry of i's history
    disturbed,  \* history: what i recorded last may not be what happened last
    frames,     \* start and trigger calls in progress, innermost last
    lastMove    \* history: the last assignment of current

wfVars == <<current, status, lastTo, disturbed, frames, lastMove>>

NoMove == [from |-> NoState, to |-> NoState, fit |-> TRUE]

WfInit ==
    /\ current = NoState
    /\ status = [i \in Instances |-> "none"]
    /\ lastTo = [i \in Instances |-> NoState]
    /\ disturbed = [i \in Instances |-> FALSE]
    /\ frames = <<>>
    /\ lastMove = NoMove

callee == frames[Len(frames)]
Return == SubSeq(frames, 1, Len(frames) - 1)
At(where) == frames # <<>> /\ callee.pc = where
Continue(where) == frames' = [frames EXCEPT ![Len(frames)].pc = where]

\* create_instance
CreateInstance(i) ==
    /\ status[i] = "none"
    /\ status' = [status EXCEPT ![i] = "pending"]
    /\ UNCHANGED <<current, lastTo, disturbed, frames, lastMove>>

\* self.current_state = s; the call, number self of the stack, overtakes the
\* calls whose callbacks led to it.
Assign(s, self, stack, move) ==
    /\ current' = s
    /\ lastMove' = move
    /\ frames' = [k \in DOMAIN stack |->
                     [stack[k] EXCEPT !.overtaken = @ \/ k < self]]

\* Marks the instances for which Disturbs holds.
Disturb(Disturbs(_)) ==
    disturbed' = [i \in Instances |-> disturbed[i] \/ Disturbs(i)]

Frame(kind, i, target, where) ==
    [kind |-> kind, inst |-> i, target |-> target, pc |-> where, overtaken |-> FALSE]

\* start with a state of the workflow; any other returns False at once.
Start(i, s) ==
    /\ status[i] # "none"
    /\ Len(frames) < MaxDepth
    /\ Assign(s, Len(frames) + 1,
              Append(frames, Frame("start", i, s, "entry")), NoMove)
    /\ Disturb(LAMBDA j : j # i \/ frames # <<>>)
    /\ UNCHANGED <<status, lastTo>>

\* trigger up to the guard.  The status of the instance is not looked at.
\* In a state that was never added the lookup raises KeyError; the target is
\* the one of the state's dictionary, whatever the transition says.
TriggerIf(i, a, valid) ==
    /\ status[i] # "none"
    /\ Len(frames) < MaxDepth
    /\ current \in States
    /\ valid
    /\ a \in DOMAIN Arrows[current]
    /\ frames' = Append(frames, Frame("trigger", i, Arrows[current][a], "guard"))
    /\ Disturb(LAMBDA j : frames # <<>>)
    /\ UNCHANGED <<current, status, lastTo, lastMove>>

TriggerUnlisted(i, a) == TriggerIf(i, a, TRUE)

Trigger(i, a) == TriggerIf(i, a, <<current, a>> \in Listed)

\* The guard answers False or raises, or the handler raises: no transition.
Refuse ==
    /\ At("guard") \/ At("handler")
    /\ frames' = Return
    /\ UNCHANGED <<current, status, lastTo, disturbed, lastMove>>

\* The target becomes current; if it was never added KeyError ends the call.
Leave(where) ==
    LET t == callee.target IN
    /\ Assign(t, Len(frames),
              IF t \in States
              THEN [frames EXCEPT ![Len(frames)].pc = where] ELSE Return,
              [from |-> current, to |-> t, fit |-> ~callee.overtaken])
    /\ Disturb(LAMBDA j : j # callee.inst \/ t \notin States)
    /\ UNCHANGED <<status, lastTo>>

\* Assigns before the handler has run.
GuardHoldsAssigns == At("guard") /\ Leave("handler")

GuardHolds ==
    /\ At("guard")
    /\ Continue("handler")
    /\ UNCHANGED <<current, status, lastTo, disturbed, lastMove>>

\* The exit action that will run belongs to the state that is current now.
HandlerReturns ==
    /\ At("handler")
    /\ IF current \in States THEN Continue("exit") ELSE frames' = Return
    /\ UNCHANGED <<current, status, lastTo, disturbed, lastMove>>

\* The exit action returns or raises, which is only reported.
ExitReturns == At("exit") /\ Leave("entry")

\* The entry action returns: success, and the instance records where it went:
\* start the state it was given, trigger the one that is current now.
EntryReturns ==
    LET begun == callee.kind = "start" IN
    /\ At("entry")
    /\ frames' = Return
    /\ status' = IF begun THEN [status EXCEPT ![callee.inst] = "running"] ELSE status
    /\ lastTo' = [lastTo EXCEPT ![callee.inst] = IF begun THEN callee.target ELSE current]
    /\ disturbed' = [disturbed EXCEPT ![callee.inst] =
                        (@ /\ Len(frames) > 1) \/ (begun /\ callee.overtaken)]
    /\ UNCHANGED <<current, lastMove>>

\* The entry action raises: False, although current was assigned.
EntryRaises ==
    /\ At("entry")
    /\ frames' = Return
    /\ Disturb(LAMBDA j : j = callee.inst)
    /\ UNCHANGED <<current, status, lastTo, lastMove>>

Cancel(i) ==
    /\ status[i] # "none"
    /\ status' = [status EXCEPT ![i] = "cancelled"]
    /\ UNCHANGED <<current, lastTo, disturbed, frames, lastMove>>

WfNext ==
    \/ \E i \in Instances :
          \/ CreateInstance(i) \/ Cancel(i)
          \/ \E s \in States : Start(i, s)
          \/ \E a \in Actions : Trigger(i, a)
    \/ Refuse \/ GuardHolds \/ HandlerReturns
    \/ ExitReturns \/ EntryReturns \/ EntryRaises

-----------------------------------------------------------------------------
(* Properties *)

\* Between calls an instance's history ends in the state the workflow is
\* in, unless another instance moved the shared workflow, a callback called
\* the workflow again or an entry action failed after the move.  Guards that
\* refuse and handlers that fail leave no trace.
HistoryTracks ==
    frames = <<>> =>
        \A i \in Instances :
            lastTo[i] # NoState /\ ~disturbed[i] => lastTo[i] = current

\* Every move is an arrow of the state it leaves and one of the transitions
\* that were added, except when a callback of the same trigger moved the
\* workflow away before: then the old target is entered from the new state.
MovesDeclared ==
    lastMove # NoMove /\ lastMove.fit =>
        /\ lastMove.from \in States
        /\ \E a \in DOMAIN Arrows[lastMove.from] :
              /\ <<lastMove.from, a>> \in Listed
              /\ lastMove.to = Arrows[lastMove.from][a]

-----------------------------------------------------------------------------
(* The inductive invariant *)

FrameSet ==
    [kind : {"start", "trigger"}, inst : Instances, target : States \cup Targets,
     pc : {"guard", "handler", "exit", "entry"}, overtaken : BOOLEAN]

WfTypeOK ==
    /\ current \in States \cup Targets \cup {NoState}
    /\ lastTo \in [Instances -> States \cup Targets \cup {NoState}]
    /\ disturbed \in [Instances -> BOOLEAN]
    /\ frames \in Seq(FrameSet)

\* What a call that nobody overtook still relies on: start that the workflow
\* is where it put it, trigger that its arrow leaves the current state.
CallInv(call, state) ==
    /\ call.kind = "start" => call.pc = "entry"
    /\ ~call.overtaken =>
          /\ call.kind = "start" => state = call.target
          /\ call.pc # "entry" =>
                /\ state \in States
                /\ \E a \in DOMAIN Arrows[state] :
                      <<state, a>> \in Listed /\ call.target = Arrows[state][a]

StackInv == \A k \in DOMAIN frames : CallInv(frames[k], current)

\* Instance i is about to record where the outermost call has gone.
Recording(i) == frames # <<>> /\ frames[1].inst = i /\ frames[1].pc = "entry"

HistoryInv ==
    /\ Len(frames) > 1 => \A i \in Instances : disturbed[i]
    /\ \A i \in Instances :
          lastTo[i] # NoState /\ ~disturbed[i] /\ ~Recording(i) => lastTo[i] = current

WfIInv == WfTypeOK /\ StackInv /\ HistoryInv /\ MovesDeclared
=============================================================================
