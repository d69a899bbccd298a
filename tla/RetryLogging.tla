---------------------------- MODULE RetryLogging ----------------------------
(***************************************************************************)
(* Retry logging (src/py_lib_runtime/_internal/logging/service.py).  The   *)
(* application builds one before-sleep callback, which threads that retry  *)
(* operations under tenacity call at once; when the attempts are used up   *)
(* they log that too.  An event is a function from its fields' names.  The *)
(* state sink, the getter of the context and the exception's str are the   *)
(* application's, and may raise; the threads go on between them.           *)
(***************************************************************************)
EXTENDS RuntimeConfig, Previews

CONSTANTS
  Retriers,      \* threads that retry operations
  Given,         \* an event type given as an argument
  Project,       \* the event types of a LoggingSettings: scheduled, exhausted
  Errors,        \* exceptions: a type and a message, in pieces
  NoError,       \* the attempt returned a result that asks for another one
  Waits,         \* Waits[t]: next_action.sleep, or NoWait without a next action
  NoWait,
  Stops,         \* Stops[t]: stop.max_attempt_number, or NoStop
  NoStop,
  Contexts,      \* the fields a context brings, as functions from their names
  MaxChars,      \* _MAX_PREVIEW_CHARS
  MaxAttempts    \* bound: attempts of an operation

NumberFields == {"attempt_number", "wait_seconds", "max_attempts"}
EventFields == NumberFields \cup {"event_type", "error_type", "error_message"}
Fields == EventFields \cup UNION {DOMAIN c : c \in Contexts}

ASSUME RetryAssumption ==
  /\ \A e \in Errors : e.type \in Seq(Piece) \ {<< >>} /\ e.message \in Seq(Piece)
  /\ NoError \notin Errors
  /\ MaxChars \in Nat \ {0} /\ MaxAttempts \in Nat \ {0}

VARIABLES
  callback,    \* how its event type was resolved and to what; if it has a sink
  retryPc,     \* where a thread is
  state,       \* state[t]: the RetryState of its last attempt
  event,       \* event[t]: the event of its call in progress
  sunk,        \* sunk[t]: what the state sink was last given
  context,     \* context[t]: the context of the last event it logged
  logged       \* logged[t]: the last event it logged

retryVars == <<callback, retryPc, state, event, sunk, context, logged>>

NoEvent == << >>
Unbuilt == [source |-> "none", type |-> Blank, sink |-> FALSE]
Fresh == [attempt |-> 0, error |-> NoError]

RetryInit ==
  /\ callback = Unbuilt
  /\ retryPc = [t \in Retriers |-> "idle"]
  /\ state = [t \in Retriers |-> Fresh]
  /\ event = [t \in Retriers |-> NoEvent]
  /\ sunk = [t \in Retriers |-> NoEvent]
  /\ context = [t \in Retriers |-> NoEvent]
  /\ logged = [t \in Retriers |-> NoEvent]

GotoRetry(t, l) == retryPc' = [retryPc EXCEPT ![t] = l]

\* The operation is over, and the event that was being made is lost; the sink
\* keeps what it has.
End(t, outcome) ==
  /\ GotoRetry(t, outcome)
  /\ event' = [event EXCEPT ![t] = NoEvent]

Done(t) == End(t, "done") /\ state' = [state EXCEPT ![t] = Fresh]

\* dict.update.
Update(e, fields) ==
  [f \in DOMAIN e \cup DOMAIN fields |-> IF f \in DOMAIN fields THEN fields[f] ELSE e[f]]

\* The event type of an argument, of the project's settings, or installed.
Resolved(source, kind) ==
  CASE source = "argument" -> Given
    [] source = "settings" -> Project[kind]
    [] source = "installed" -> IF kind = "scheduled" THEN installed.scheduled ELSE installed.exhausted

Sources == {"argument", "settings", "installed"}

\* build_retry_before_sleep_logger.
Build(s, sink) ==
  /\ callback = Unbuilt
  /\ callback' = [source |-> s, type |-> Resolved(s, "scheduled"), sink |-> sink]
  /\ UNCHANGED <<retryPc, state, event, sunk, context, logged>>

\* An attempt of the operation under tenacity, the first or another one.
Attempt(t) ==
  /\ callback # Unbuilt
  /\ retryPc[t] \in {"idle", "slept"}
  /\ \/ Done(t)
     \/ /\ \E e \in Errors \cup {NoError} :
             state' = [state EXCEPT ![t] = [attempt |-> @.attempt + 1, error |-> e]]
        /\ GotoRetry(t, IF state[t].attempt + 1 < MaxAttempts THEN "before_sleep" ELSE "exhausted")
        /\ UNCHANGED event
  /\ UNCHANGED <<callback, sunk, context, logged>>

-----------------------------------------------------------------------------

ErrorFields(e) ==
  [f \in {"error_type", "error_message"} |->
     IF f = "error_type" THEN e.type ELSE PreviewExceptionMessage(e, MaxChars)]

\* The numbers of a RetryState, those that are known.
Numbers(t) ==
  [f \in {"attempt_number"}
         \cup (IF Waits[t] = NoWait THEN {} ELSE {"wait_seconds"})
         \cup (IF Stops[t] = NoStop THEN {} ELSE {"max_attempts"}) |->
     CASE f = "attempt_number" -> state[t].attempt
       [] f = "wait_seconds" -> Waits[t]
       [] f = "max_attempts" -> Stops[t]]

\* What a scheduled event says of the attempt.
AttemptFields(t) ==
  Update(Numbers(t), IF state[t].error = NoError THEN << >> ELSE ErrorFields(state[t].error))

\* Faulty variant: one dict is filled again and again.
BuildRetryScheduledEventReused(t, type) ==
  Update(event[t], Update([f \in {"event_type"} |-> type], AttemptFields(t)))

\* _build_retry_scheduled_event: made anew for every call.
BuildRetryScheduledEvent(t, type) ==
  Update([f \in {"event_type"} |-> type], AttemptFields(t))

\* _build_retry_state_snapshot.
StateSnapshot(e) == [f \in DOMAIN e \cap NumberFields |-> e[f]]

\* Faulty variant: the event type is resolved when the callback is called.
CallbackTypeLate == Resolved(callback.source, "scheduled")

CallbackType == callback.type

\* The callback, up to the end of the state sink, if there is one.  The str of
\* the exception may raise, and so may the sink, having kept the numbers or not.
Schedule(t) ==
  /\ retryPc[t] = "before_sleep"
  /\ LET e == BuildRetryScheduledEvent(t, CallbackType)
         given == IF callback.sink THEN [sunk EXCEPT ![t] = StateSnapshot(e)] ELSE sunk
     IN \/ /\ event' = [event EXCEPT ![t] = e]
           /\ sunk' = given
           /\ GotoRetry(t, "context")
        \/ state[t].error # NoError /\ End(t, "raised") /\ UNCHANGED sunk
        \/ callback.sink /\ End(t, "raised") /\ sunk' \in {sunk, given}
  /\ UNCHANGED <<callback, state, context, logged>>

\* Faulty variant: the sink holds the event itself, and sees it change.
AddContextAliased(t, fields) ==
  /\ retryPc[t] = "context" /\ "event" \notin DOMAIN fields
  /\ LET e == Update(event[t], fields) IN
       /\ event' = [event EXCEPT ![t] = e]
       /\ sunk' = [sunk EXCEPT ![t] = IF callback.sink THEN StateSnapshot(e) ELSE @]
       /\ context' = [context EXCEPT ![t] = fields]
       /\ logged' = [logged EXCEPT ![t] = e]
       /\ GotoRetry(t, "slept")
  /\ UNCHANGED <<callback, state>>

\* The rest of the callback: the context, and the log.
AddContext(t, fields) ==
  /\ retryPc[t] = "context" /\ "event" \notin DOMAIN fields
  /\ LET e == Update(event[t], fields) IN
       /\ event' = [event EXCEPT ![t] = e]
       /\ context' = [context EXCEPT ![t] = fields]
       /\ logged' = [logged EXCEPT ![t] = e]
       /\ GotoRetry(t, "slept")
  /\ UNCHANGED <<callback, state, sunk>>

\* The getter raises, or logger.warning, which takes a field of the name
\* "event" for its message; either ends the operation, after the sink.
ContextRaises(t) ==
  /\ retryPc[t] = "context"
  /\ End(t, "unlogged")
  /\ UNCHANGED <<callback, state, sunk, context, logged>>

\* log_retry_exhausted, with the error and the context the application gives.
\* The str of the error may raise, and logger.warning, as it does on a field
\* of the name "event".
LogRetryExhausted(t, source, e, fields) ==
  /\ retryPc[t] = "exhausted"
  /\ \/ /\ "event" \notin DOMAIN fields
        /\ logged' = [logged EXCEPT ![t] =
             Update(Update([f \in {"event_type"} |-> Resolved(source, "exhausted")],
                           ErrorFields(e)), fields)]
        /\ context' = [context EXCEPT ![t] = fields]
        /\ Done(t)
     \/ End(t, "raised") /\ UNCHANGED <<state, context, logged>>
  /\ UNCHANGED <<callback, sunk>>

RetryStep(t) ==
  \/ Attempt(t) \/ Schedule(t) \/ ContextRaises(t)
  \/ \E fields \in Contexts :
       \/ AddContext(t, fields)
       \/ \E s \in Sources, e \in Errors : LogRetryExhausted(t, s, e, fields)
-----------------------------------------------------------------------------
(* Properties.                                                              *)

Phases == {"idle", "before_sleep", "context", "slept", "exhausted", "done", "raised", "unlogged"}

RetryTypes ==
  /\ callback \in [source : Sources \cup {"none"}, type : Texts \cup {Given, Project["scheduled"]},
                   sink : BOOLEAN]
  /\ retryPc \in [Retriers -> Phases]
  /\ \A t \in Retriers :
       /\ state[t].attempt \in 0..MaxAttempts
       /\ state[t].error \in Errors \cup {NoError}
       /\ DOMAIN sunk[t] \subseteq NumberFields
       /\ context[t] \in Contexts \cup {NoEvent}
       /\ DOMAIN event[t] \subseteq Fields /\ DOMAIN logged[t] \subseteq Fields

\* From the end of the sink on it holds the numbers of the attempt, also when
\* the getter or the log raises after it; once a scheduled retry is logged, the
\* log has the same numbers, but where the context put others in their place.
SinkKeepsNumbers ==
  \A t \in Retriers : callback.sink =>
    /\ retryPc[t] \in {"context", "slept", "unlogged"} => sunk[t] = Numbers(t)
    /\ retryPc[t] = "slept" => \A f \in NumberFields \ DOMAIN context[t] :
         /\ f \in DOMAIN logged[t] <=> f \in DOMAIN sunk[t]
         /\ f \in DOMAIN sunk[t] => logged[t][f] = sunk[t][f]

\* An attempt has failed and its retry has not been logged, or never will be
\* because the callback or the report of exhaustion raised.
Unlogged(t) == retryPc[t] \in {"before_sleep", "context", "exhausted", "raised", "unlogged"}

\* A scheduled event tells of its own attempt and of its own context: nothing
\* an earlier attempt or another thread brought comes back.  A callback that
\* raises has logged nothing of its attempt, and the log still ends with the
\* one before it.
LogsOwnAttempt ==
  \A t \in Retriers :
    /\ retryPc[t] = "slept" =>
         /\ DOMAIN logged[t] = {"event_type"} \cup DOMAIN AttemptFields(t) \cup DOMAIN context[t]
         /\ \A f \in DOMAIN AttemptFields(t) \ DOMAIN context[t] :
              logged[t][f] = AttemptFields(t)[f]
    /\ Unlogged(t) =>
         \/ state[t].attempt = 1 /\ logged[t] = NoEvent
         \/ "attempt_number" \in DOMAIN context[t]
         \/ logged[t]["attempt_number"] = state[t].attempt - 1

\* All that a callback logs has one event type, that of its building, however
\* often configurations are installed between the calls.
OneTypePerCallback ==
  \A t, u \in Retriers :
    retryPc[t] = "slept" /\ retryPc[u] = "slept"
    /\ "event_type" \notin DOMAIN context[t] \cup DOMAIN context[u]
    => logged[t]["event_type"] = logged[u]["event_type"]

\* A message that is logged fits its width and is not empty; if it was cut,
\* not one more of its words would have fitted.
MessagesBounded ==
  \A t \in Retriers : "error_message" \in DOMAIN logged[t] \ DOMAIN context[t] =>
    LET message == logged[t]["error_message"] IN
      /\ PreviewLength(message) \in 1..MaxChars
      /\ \E e \in Errors : \E words \in {e.message, e.type, Empty} :
           /\ IsPrefix(message.words, words)
           /\ message.dots = 0 <=> message.words = words
           /\ message.dots > 0 =>
                WordsLength(words, Len(message.words) + 1) + Dots(MaxChars) > MaxChars
=============================================================================
