--------------------------- MODULE MCLoggingSetup ---------------------------
(* LoggingSetup with its constants bound for TLC.                           *)
EXTENDS LoggingSetup, TLC

CONSTANTS info, error, pkg, pkgPadded, other, spaces

Stripped ==
  [x \in Texts |-> CASE x = pkgPadded -> pkg [] x = spaces -> Blank [] OTHER -> x]

Config(third, exact, quiet) ==
  [third |-> third, exact |-> exact, quiet |-> quiet,
   env |-> other, size |-> 1, scheduled |-> other, exhausted |-> other]

\* Foreign loggers at one level, kept quiet by name.
Quietly == Config(error, TRUE, <<other>>)

\* Another level; a package is among the quiet names, written in two ways.
Louder == Config(info, TRUE, <<pkg, other, pkgPadded>>)

\* A level that validation accepts and root.setLevel refuses.
LowerCase == Config(info, FALSE, << >>)

BadLevel == Config(Unknown, TRUE, << >>)
BadName == Config(info, TRUE, <<spaces>>)

\* Levels set by hand, of loggers that the snapshots speak of.
Entry(name, l) == [name |-> name, level |-> l]
Maps == {<<Entry(other, Unknown), Entry(Root, error)>>}

Snapshots == {Louder, LowerCase, BadLevel, BadName}

ThreadSymmetry == Permutations(Threads)
=============================================================================
