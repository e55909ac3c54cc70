--------------------------- MODULE SharedExecutor ---------------------------
(***************************************************************************)
(* The one Executor (src/pyxcp/master/errorhandler.py) that all calls of   *)
(* all Masters of a process share, step by step: every access to its       *)
(* handler stack or error code is a step of its own, so that threads can   *)
(* interleave as they do in Python.                                        *)
(*                                                                         *)
(* What one call does alone is the subject of ErrorHandler; here a command *)
(* succeeds or fails with ERR_TIMEOUT (whose row asks for SYNCH and two    *)
(* repetitions) or with ERR_CMD_SYNCH.                                     *)
(***************************************************************************)
EXTENDS Integers, Sequences

CONSTANTS
  Calls,          \* calls of @wrapped methods, each made once
  Masters,        \* the Master objects
  MaxFailures,    \* bound: how many executions fail
  None, Raised    \* no handler; the call was left by an exception

VARIABLES
  master,         \* master[c]: the Master that call c is made on
  pc,             \* pc[c]: where the thread that runs call c is
  handler,        \* handler[c]: the handler it works on
  res,            \* res[c]: what the last handler it executed returned
  returned,       \* returned[c]: what the call has returned
  handlerStack,   \* Executor.handlerStack, top first
  errorCode,      \* Executor.error_code
  repeater,       \* the repetitions left of a handler
  service,        \* Master.service: what was requested last on a Master
  failures,       \* how many executions have failed
  succeeded       \* history: how often the command of a call succeeded

callVars == <<pc, handler, res, returned>>
executorVars == <<handlerStack, errorCode, repeater>>
sharedVars == <<master, callVars, executorVars, service, failures, succeeded>>

(* A handler is known by the call it was made for and whether it is a      *)
(* pre-action; what it returns carries its name.                           *)
Handlers == [call : Calls, pre : BOOLEAN]
Main(c) == [call |-> c, pre |-> FALSE]
Synch(c) == [call |-> c, pre |-> TRUE]

Places == {"idle", "new", "push", "top", "execute", "pop", "test", "act", "clean", "end"}

SharedTypeOK ==
  /\ master \in [Calls -> Masters]
  /\ pc \in [Calls -> Places]
  /\ handler \in [Calls -> Handlers \cup {None}]
  /\ res \in [Calls -> Handlers \cup {None}]
  /\ returned \in [Calls -> Handlers \cup {None, Raised}]
  /\ handlerStack \in Seq(Handlers)
  /\ errorCode \in {"none", "TIMEOUT", "CMD_SYNCH"}
  /\ repeater \in [Handlers -> 0 .. 2 \cup {None}]
  /\ service \in [Masters -> {"none", "main", "SYNCH"}]
  /\ failures \in 0 .. MaxFailures
  /\ succeeded \in [Calls -> Nat]

SharedInit ==
  /\ pc = [c \in Calls |-> "idle"]
  /\ handler = [c \in Calls |-> None]
  /\ res = [c \in Calls |-> None]
  /\ returned = [c \in Calls |-> None]
  /\ handlerStack = <<>>
  /\ errorCode = "none"
  /\ repeater = [h \in Handlers |-> None]
  /\ service = [m \in Masters |-> "none"]
  /\ failures = 0
  /\ succeeded = [c \in Calls |-> 0]

Inside(c) == pc[c] \notin {"idle", "end"}
Goto(c, l) == pc' = [pc EXCEPT ![c] = l]

(* The call is left by an exception.                                       *)
Raise(c) ==
  /\ returned' = [returned EXCEPT ![c] = Raised]
  /\ Goto(c, "clean")

-----------------------------------------------------------------------------
(* HandlerStack.push compares instance, function and arguments.            *)
Same(h, g) == h = g \/ (h.pre /\ g.pre /\ master[h.call] = master[g.call])
PushHandler(h) ==
  IF handlerStack # <<>> /\ Same(h, Head(handlerStack))
    THEN UNCHANGED <<handlerStack, repeater>>
    ELSE /\ handlerStack' = <<h>> \o handlerStack
         /\ repeater' = [repeater EXCEPT ![h] = None]
PopHandler ==
  handlerStack' = IF handlerStack = <<>> THEN <<>> ELSE Tail(handlerStack)

(* A thread enters @wrapped's inner function ...                           *)
Begin(c) ==
  /\ pc[c] = "idle"
  /\ Goto(c, "new")
  /\ UNCHANGED <<master, handler, res, returned, executorVars, service, failures, succeeded>>

(* ... where Executor() returns the one instance, whose __init__ gives it  *)
(* a new stack ...                                                         *)
New(c) ==
  /\ pc[c] = "new"
  /\ handlerStack' = <<>> /\ errorCode' = "none"
  /\ Goto(c, "push")
  /\ UNCHANGED <<master, handler, res, returned, repeater, service, failures, succeeded>>

(* ... on which the handler of the command is pushed.                      *)
PushMain(c) ==
  /\ pc[c] = "push"
  /\ PushHandler(Main(c))
  /\ Goto(c, "top")
  /\ UNCHANGED <<master, handler, res, returned, errorCode, service, failures, succeeded>>

(* The loop: the top of the stack; an empty one gives None, which cannot   *)
(* be executed.                                                            *)
Top(c) ==
  /\ pc[c] = "top"
  /\ IF handlerStack = <<>>
       THEN Raise(c) /\ UNCHANGED handler
       ELSE /\ handler' = [handler EXCEPT ![c] = Head(handlerStack)]
            /\ Goto(c, "execute")
            /\ UNCHANGED returned
  /\ UNCHANGED <<master, res, executorVars, service, failures, succeeded>>

Request(h) ==
  service' = [service EXCEPT ![master[h.call]] = IF h.pre THEN "SYNCH" ELSE "main"]

Succeeds(c) ==
  LET h == handler[c]
  IN /\ pc[c] = "execute"
     /\ Request(h)
     /\ res' = [res EXCEPT ![c] = h]
     /\ errorCode' = "none"
     /\ succeeded' = IF h.pre THEN succeeded
                     ELSE [succeeded EXCEPT ![h.call] = @ + 1]
     /\ Goto(c, "pop")
     /\ UNCHANGED <<master, handler, returned, handlerStack, repeater, failures>>

Fails(c) ==
  LET h == handler[c]
  IN /\ pc[c] = "execute" /\ failures < MaxFailures
     /\ failures' = failures + 1
     /\ Request(h)
     /\ errorCode' \in IF h.pre THEN {"TIMEOUT"} ELSE {"TIMEOUT", "CMD_SYNCH"}
     /\ Goto(c, "act")
     /\ UNCHANGED <<master, handler, res, returned, handlerStack, repeater, succeeded>>

(* After a success: whatever is on top is popped ...                       *)
Pop(c) ==
  /\ pc[c] = "pop"
  /\ PopHandler
  /\ Goto(c, "test")
  /\ UNCHANGED <<master, handler, res, returned, errorCode, repeater, service, failures, succeeded>>

(* ... and an empty stack means that the call is done.                     *)
Test(c) ==
  /\ pc[c] = "test"
  /\ IF handlerStack = <<>>
       THEN returned' = [returned EXCEPT ![c] = res[c]] /\ Goto(c, "clean")
       ELSE Goto(c, "act") /\ UNCHANGED returned
  /\ UNCHANGED <<master, handler, res, executorVars, service, failures, succeeded>>

(* The rest of the loop, with the error code and the last service as they  *)
(* are now: pre-actions, and the repeater of the handler.  A definition    *)
(* marked `Mutant' is a plausible mistake in the one after it.             *)
Exhausted(r) == r = 0
LeftBelowZero(r) == IF r = None THEN r ELSE r - 1   \* Mutant
LeftOf(r) == IF r \in {0, None} THEN r ELSE r - 1
Repeater(c) ==
  IF errorCode = "TIMEOUT" /\ repeater[handler[c]] = None THEN 2 ELSE repeater[handler[c]]
PreActions(c) ==
  IF errorCode = "TIMEOUT" /\ service[master[c]] = "main" THEN {Synch(c)} ELSE {}
NoRow(c) == errorCode = "TIMEOUT" /\ service[master[c]] = "none"

Act(c) ==
  LET r == Repeater(c)
      h == handler[c]
      pushed == {g \in PreActions(c) :
                   handlerStack = <<>> \/ ~Same(g, Head(handlerStack))}
  IN /\ pc[c] = "act"
     /\ IF errorCode = "CMD_SYNCH"
          THEN Goto(c, "top") /\ UNCHANGED <<returned, handlerStack, repeater>>
        ELSE IF NoRow(c)
          THEN Raise(c) /\ UNCHANGED <<handlerStack, repeater>>
        ELSE /\ handlerStack' = IF pushed = {} THEN handlerStack
                                ELSE <<Synch(c)>> \o handlerStack
             /\ repeater' = [g \in Handlers |->
                               IF g \in pushed THEN None
                               ELSE IF g = h THEN LeftOf(r) ELSE repeater[g]]
             /\ IF Exhausted(r) THEN Raise(c)
                                ELSE Goto(c, "top") /\ UNCHANGED returned
     /\ UNCHANGED <<master, handler, res, errorCode, service, failures, succeeded>>

(* The finally clause empties the stack, one handler after the other.      *)
StackKept == FALSE   \* Mutant
StackLeft == handlerStack # <<>>
Clean(c) ==
  /\ pc[c] = "clean"
  /\ IF StackLeft
       THEN PopHandler /\ UNCHANGED <<pc, errorCode>>
       ELSE /\ errorCode' = "none" /\ Goto(c, "end")
            /\ UNCHANGED handlerStack
  /\ UNCHANGED <<master, handler, res, returned, repeater, service, failures, succeeded>>

Run(c) ==
  \/ New(c) \/ PushMain(c) \/ Top(c) \/ Succeeds(c) \/ Fails(c)
  \/ Pop(c) \/ Test(c) \/ Act(c) \/ Clean(c)
=============================================================================
