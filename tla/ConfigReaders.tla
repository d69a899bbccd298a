--------------------------- MODULE ConfigReaders ---------------------------
(***************************************************************************)
(* The readers of the configuration registry other than the logging        *)
(* set-up: threads that open caches and threads that retry operations,     *)
(* while the application installs configurations.                          *)
(***************************************************************************)
EXTENDS CacheOpening, RetryLogging

CONSTANT MaxInstalls   \* bound: configurations installed

VARIABLE installs

vars == <<installed, installs, openVars, retryVars>>

ASSUME ReadersAssumption == MaxInstalls \in Nat /\ Openers = Retriers

Init == ConfigInit /\ OpeningInit /\ RetryInit /\ installs = 0

\* install_config, of a snapshot that is refused when it is built, or not.
InstallConfig ==
  \E c \in Candidates :
    \/ Refuse(c) /\ UNCHANGED <<installs, openVars, retryVars>>
    \/ /\ installs < MaxInstalls
       /\ installs' = installs + 1
       /\ Install(c) /\ Notice
       /\ UNCHANGED <<openPc, asked, dir, limit, made, retryVars>>

\* A thread opens a cache or retries an operation.
BeginOpen(t) ==
  /\ retryPc[t] = "idle"
  /\ \E d \in Explicit \cup {NoPath}, n \in Namespaces, s \in Sizes \cup {NoSize} : Open(t, d, n, s)

Reader ==
  /\ \E t \in Openers : BeginOpen(t) \/ OpenStep(t)
  /\ UNCHANGED <<installed, installs, retryVars>>

Retrier ==
  /\ \/ \E s \in Sources, sink \in BOOLEAN : Build(s, sink)
     \/ \E t \in Retriers : openPc[t] = "idle" /\ RetryStep(t)
  /\ UNCHANGED <<installed, installs, openVars>>

Next == InstallConfig \/ Reader \/ Retrier

Spec == Init /\ [][Next]_vars
-----------------------------------------------------------------------------
(* Properties.                                                              *)

\* Every variable holds a value of its type; what is installed is valid, and
\* so is what the calls under way have seen.
TypeOK == ConfigOK /\ installs \in 0..MaxInstalls /\ OpeningTypes /\ RetryTypes
=============================================================================
