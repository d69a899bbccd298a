-------------------------- MODULE MCConfigReaders --------------------------
(* ConfigReaders with its constants bound for TLC. *)
EXTENDS ConfigReaders, TLC

CONSTANTS info, t1, t2

Writings == {"VAR", " VAR ", "OTHER", "OLD", "retry", "exhausted", "retry2", " ", ""}
Stripped == [x \in Writings |-> CASE x = " VAR " -> "VAR" [] x = " " -> "" [] OTHER -> x]

At(absolute, parts) == [absolute |-> absolute, parts |-> parts]
Environment ==
  [x \in Writings |->
     CASE x = "VAR" -> At(TRUE, <<"cache">>) [] x = "OLD" -> At(FALSE, <<"..">>)
       [] OTHER -> NoPath]

Config(env, size, scheduled) ==
  [third |-> info, exact |-> TRUE, quiet |-> << >>, env |-> env, size |-> size,
   scheduled |-> scheduled, exhausted |-> "exhausted"]

BuiltIn == Config("OLD", 1, "retry")

\* Another variable and another event type; a variable that is not set; a
\* size that is refused and a blank name.
Snapshots ==
  { Config(" VAR ", 2, "retry2"), Config("OTHER", 2, "retry"), Config("VAR", 0, "retry"),
    Config("VAR", 1, " ") }

Places == {At(FALSE, <<"mine">>)}
Scopes == {At(FALSE, <<"ns">>), At(FALSE, <<"..", "ns">>), At(TRUE, <<"ns">>)}

ProjectTypes == [scheduled |-> "project retry", exhausted |-> "project exhausted"]

Word(size) == [size |-> size, gap |-> 1]
Part(size) == [size |-> size, gap |-> 0]

\* A message that is cut at a hyphen, and none.
Long == [type |-> <<Word(4)>>, message |-> <<Word(1), Word(1), Part(4)>>]
Silent == [type |-> <<Word(7)>>, message |-> << >>]

Failures == {Long, Silent}

\* The time to the next attempt is known, a last attempt is not.
WaitsFor == [t \in {t1, t2} |-> 1]
StopsAt == [t \in {t1, t2} |-> NoStop]

\* A field of the context's own and two of the event's; the reserved one.
Added ==
  { << >>, [request |-> 1, attempt_number |-> 0, error_message |-> "?"], [event |-> 0] }

\* The threads are alike.
Symmetry == Permutations({t1, t2})
=============================================================================
