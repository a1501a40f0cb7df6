------------------------------ MODULE Channel ------------------------------
(***************************************************************************)
(* ServerKit::Channel: a buffer of size one between a writer and a data    *)
(* callback that consumes at its own pace.  The object is a record and     *)
(* every method an operator from the object before the call to the object  *)
(* after it; FileBufferedChannel inherits from Channel, so its object has  *)
(* these fields and more.                                                  *)
(*                                                                         *)
(* A method returns where control leaves the object.  That is where it     *)
(* calls the data callback: caller then says who called it, and the        *)
(* callback is still executing until Returned.  Or it is where it calls    *)
(* consumedCallback, always the last thing a method does: notify is then   *)
(* TRUE, and the owner of the callback goes on from there.                 *)
(***************************************************************************)
EXTENDS Integers, Sequences

EndStates == {"CALLING_WITH_EOF_OR_ERROR", "WAITING_FOR_CALLBACK_WITH_EOF_OR_ERROR",
              "EOF_OR_ERROR_ACKNOWLEDGED"}

StopStates == {"STOPPED", "STOPPED_WHILE_CALLING", "STOPPED_WHILE_WAITING"}

LaterStates == StopStates \union {"CALLING", "WAITING_FOR_CALLBACK", "PLANNING_TO_CALL"}

State == EndStates \union LaterStates \union {"IDLE"}

(* The state in which the constructor and reinitialize() leave a channel. *)
NewChannel ==
  [state         |-> "IDLE",
   errcode       |-> FALSE,  \* whether an error was fed
   buffer        |-> <<>>,   \* what is passed to the data callback
   bytesConsumed |-> 0,
   planId        |-> FALSE,  \* whether planId names a command
   plans         |-> 0,      \* executeCall commands on the event loop
   caller        |-> "none", \* who called the data callback that is executing
   notify        |-> FALSE]  \* consumedCallback is being called

AcceptingInput(c) == c.state = "IDLE"

MayAcceptInputLater(c) == c.state \in LaterStates

ChannelEnded(c) == c.state \in EndStates

IsStarted(c) == c.state \notin StopStates

CallConsumedCallback(c) == [c EXCEPT !.bytesConsumed = 0, !.notify = TRUE]

(* SafeLibev::cancelCommand(planId), then planId = 0. *)
CancelPlan(c) ==
  [c EXCEPT !.plans = IF c.planId THEN @ - 1 ELSE @, !.planId = FALSE]

(* feedWithoutRefGuard: it starts the data callback.  The code asserts that *)
(* the channel is idle and that bytesConsumed is 0.                         *)
ChannelFeed(c, mbuf, who) ==
  [c EXCEPT !.state = IF mbuf = <<>> THEN "CALLING_WITH_EOF_OR_ERROR" ELSE "CALLING",
            !.buffer = mbuf,
            !.caller = who]

ChannelFeedError(c) ==
  LET failed == [c EXCEPT !.errcode = TRUE] IN
  CASE c.state = "IDLE" ->
         [failed EXCEPT !.state = "CALLING_WITH_EOF_OR_ERROR", !.caller = "error"]
    [] c.state = "EOF_OR_ERROR_ACKNOWLEDGED" -> failed
    [] c.state = "PLANNING_TO_CALL" ->
         CallConsumedCallback([CancelPlan(failed) EXCEPT !.state = "EOF_OR_ERROR_ACKNOWLEDGED"])
    [] OTHER ->
         CallConsumedCallback([failed EXCEPT !.state = "EOF_OR_ERROR_ACKNOWLEDGED"])

PlanNextActivity(c) ==
  IF c.buffer = <<>>
  THEN CallConsumedCallback([c EXCEPT !.state = "IDLE"])
  ELSE [c EXCEPT !.state = "PLANNING_TO_CALL", !.planId = TRUE, !.plans = @ + 1]

ChannelStart(c) ==
  CASE c.state = "STOPPED" -> PlanNextActivity(c)
    [] c.state = "STOPPED_WHILE_CALLING" -> [c EXCEPT !.state = "CALLING"]
    [] c.state = "STOPPED_WHILE_WAITING" -> [c EXCEPT !.state = "WAITING_FOR_CALLBACK"]
    [] OTHER -> c

(* In PLANNING_TO_CALL the code assigns STOPPED before it tests for         *)
(* PLANNING_TO_CALL, so that the command is never cancelled.                *)
ChannelStop(c) ==
  CASE c.state \in {"IDLE", "PLANNING_TO_CALL"} -> [c EXCEPT !.state = "STOPPED"]
    [] c.state = "CALLING" -> [c EXCEPT !.state = "STOPPED_WHILE_CALLING"]
    [] c.state = "WAITING_FOR_CALLBACK" -> [c EXCEPT !.state = "STOPPED_WHILE_WAITING"]
    [] OTHER -> c

(* executeCall, a command of the event loop. *)
ExecuteCall(c) ==
  [c EXCEPT !.plans = @ - 1, !.planId = FALSE, !.state = "CALLING", !.caller = "plan"]

ChannelConsumed(c, size, end) ==
  LET d == [c EXCEPT !.bytesConsumed = @ + size,
                     !.buffer = SubSeq(@, size + 1, Len(@))]
      ended == CallConsumedCallback([d EXCEPT !.state = "EOF_OR_ERROR_ACKNOWLEDGED"])
  IN CASE c.state = "WAITING_FOR_CALLBACK" -> IF end THEN ended ELSE PlanNextActivity(d)
       [] c.state = "STOPPED_WHILE_WAITING" ->
            IF end THEN ended ELSE [d EXCEPT !.state = "STOPPED"]
       [] c.state = "WAITING_FOR_CALLBACK_WITH_EOF_OR_ERROR" -> ended

(* callDataCallbackWithoutRefGuard after the data callback returned the     *)
(* Result (size, end); -1 is asynchronous consumption.  A buffer that is    *)
(* not consumed makes it call the callback again, which leaves caller.      *)
(* Left out: hook_isConnected says that the client is gone.  The code then  *)
(* stops in CALLING, and nothing calls the channel again: who disconnects a *)
(* client deinitializes its channels.                                       *)
Returned(c, size, end) ==
  LET back == [c EXCEPT !.caller = "none"]
      d == [back EXCEPT !.bytesConsumed = @ + size,
                        !.buffer = SubSeq(@, size + 1, Len(@))]
      ended == CallConsumedCallback([d EXCEPT !.state = "EOF_OR_ERROR_ACKNOWLEDGED"])
  IN CASE size < 0 ->
            [back EXCEPT !.state =
               CASE @ = "CALLING" -> "WAITING_FOR_CALLBACK"
                 [] @ = "STOPPED_WHILE_CALLING" -> "STOPPED_WHILE_WAITING"
                 [] OTHER -> "WAITING_FOR_CALLBACK_WITH_EOF_OR_ERROR"]
       [] size >= 0 /\ c.state = "CALLING" /\ end -> ended
       [] size >= 0 /\ c.state = "CALLING" /\ ~end /\ d.buffer = <<>> ->
            CallConsumedCallback([d EXCEPT !.state = "IDLE"])
       [] size >= 0 /\ c.state = "CALLING" /\ ~end /\ d.buffer # <<>> ->
            [d EXCEPT !.caller = c.caller]
       [] size >= 0 /\ c.state = "STOPPED_WHILE_CALLING" ->
            IF end THEN ended ELSE [d EXCEPT !.state = "STOPPED"]
       [] size >= 0 /\ c.state = "CALLING_WITH_EOF_OR_ERROR" -> ended
       [] size >= 0 /\ c.state = "EOF_OR_ERROR_ACKNOWLEDGED" -> d
=============================================================================
