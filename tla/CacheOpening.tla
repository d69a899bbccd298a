---------------------------- MODULE CacheOpening ----------------------------
(***************************************************************************)
(* Opening a cache: a thread resolves the directory                        *)
(* (src/py_lib_runtime/_internal/cache/paths.py) and constructs a manager  *)
(* on it (base.py, BaseCacheManager.__init__).  Each of the two reads the  *)
(* installed configuration for itself.  Paths are as expanduser leaves     *)
(* them.                                                                   *)
(***************************************************************************)
EXTENDS RuntimeConfig, SequencesExt

CONSTANTS
  Openers,      \* threads that open caches
  Environ,      \* Environ[x]: the path in environment variable x, or NoPath
  NoPath,       \* a variable that is unset or empty, or no path given
  Explicit,     \* the directories callers name themselves
  Namespaces,   \* the namespaces they give
  Sizes,        \* the values of max_size
  NoSize        \* max_size is None

Path == [absolute : BOOLEAN, parts : Seq(STRING)]

ASSUME OpeningAssumption ==
  /\ Environ \in [Texts -> Path \cup {NoPath}]
  /\ Explicit \subseteq Path /\ Namespaces \subseteq Path /\ NoPath \notin Path
  /\ Sizes \subseteq Int /\ NoSize \notin Int

VARIABLES
  openPc,       \* where a thread is in its call
  asked,        \* asked[t]: the directory, namespace and size of its call
  dir,          \* dir[t]: the directory resolved, or NoPath
  limit,        \* limit[t]: the size limit of the manager it has opened
  made,         \* the directories that opening caches has made, or found there
  during        \* during[t]: the snapshots installed while its call ran

openVars == <<openPc, asked, dir, limit, made, during>>

Nothing == [dir |-> NoPath, namespace |-> [absolute |-> FALSE, parts |-> << >>], size |-> NoSize]

OpeningInit ==
  /\ openPc = [t \in Openers |-> "idle"]
  /\ asked = [t \in Openers |-> Nothing]
  /\ dir = [t \in Openers |-> NoPath]
  /\ limit = [t \in Openers |-> NoSize]
  /\ made = {}
  /\ during = [t \in Openers |-> {}]

Opening(t) == openPc[t] \notin {"idle", "open", "raised", "no directory"}
GotoOpen(t, l) == openPc' = [openPc EXCEPT ![t] = l]

\* root / namespace_path.
Join(root, path) ==
  IF path.absolute THEN path ELSE [root EXCEPT !.parts = @ \o path.parts]

\* Faulty variant: a namespace may climb out of the root.
BadNamespaceAbsolute(path) == path.absolute

BadNamespace(path) == path.absolute \/ ".." \in Names(path.parts)

Open(t, d, n, s) ==
  /\ openPc[t] = "idle"
  /\ asked' = [asked EXCEPT ![t] = [dir |-> d, namespace |-> n, size |-> s]]
  /\ during' = [during EXCEPT ![t] = {installed}]
  /\ GotoOpen(t, "resolve")
  /\ UNCHANGED <<dir, limit, made>>

\* resolve_cache_dir: a directory that is given wins, and then the namespace
\* is not looked at; nor is it where the environment names no root.
Resolve(t) ==
  /\ openPc[t] = "resolve"
  /\ LET root == Environ[installed.env]
         namespace == asked[t].namespace
     IN \/ /\ asked[t].dir # NoPath
           /\ dir' = [dir EXCEPT ![t] = asked[t].dir] /\ GotoOpen(t, "construct")
        \/ /\ asked[t].dir = NoPath /\ root = NoPath
           /\ GotoOpen(t, "no directory") /\ UNCHANGED dir
        \/ /\ asked[t].dir = NoPath /\ root # NoPath /\ BadNamespace(namespace)
           /\ GotoOpen(t, "raised") /\ UNCHANGED dir
        \/ /\ asked[t].dir = NoPath /\ root # NoPath /\ ~BadNamespace(namespace)
           /\ dir' = [dir EXCEPT ![t] = Join(root, namespace)] /\ GotoOpen(t, "construct")
  /\ UNCHANGED <<asked, limit, made, during>>

\* Faulty variant: the default is read once, when the function is defined.
ResolvedSizeOnce(size) == IF size = NoSize THEN Default.size ELSE size

ResolvedSize(size) == IF size = NoSize THEN installed.size ELSE size

\* _validate_positive_number.
PositiveNumber(n) == n > 0

\* The constructor, up to its checks of the numbers it is given; the other two
\* may be refused as well.
Construct(t) ==
  /\ openPc[t] = "construct"
  /\ \/ GotoOpen(t, "raised") /\ UNCHANGED limit
     \/ /\ PositiveNumber(ResolvedSize(asked[t].size))
        /\ limit' = [limit EXCEPT ![t] = ResolvedSize(asked[t].size)]
        /\ GotoOpen(t, "make")
  /\ UNCHANGED <<asked, dir, made, during>>

\* The first n directories on the way to path.
OnTheWay(path, n) == {[path EXCEPT !.parts = SubSeq(@, 1, i)] : i \in 1..n}

\* mkdir, with the parents that are missing, and the Cache of diskcache; the
\* disk may refuse any of them.
Make(t) ==
  /\ openPc[t] = "make"
  /\ \E n \in 0..Len(dir[t].parts) :
       /\ made' = made \cup OnTheWay(dir[t], n)
       /\ GotoOpen(t, "raised") \/ (n = Len(dir[t].parts) /\ GotoOpen(t, "open"))
  /\ UNCHANGED <<asked, dir, limit, during>>

OpenStep(t) == Resolve(t) \/ Construct(t) \/ Make(t)

\* The calls under way see the snapshot that is installed.
Notice == during' = [t \in Openers |-> IF Opening(t) THEN during[t] \cup {installed'} ELSE during[t]]

-----------------------------------------------------------------------------
(* Properties.                                                              *)

OpeningTypes ==
  /\ openPc \in [Openers -> {"idle", "resolve", "construct", "make", "open", "raised", "no directory"}]
  /\ \A t \in Openers :
       /\ asked[t].dir \in Path \cup {NoPath} /\ asked[t].namespace \in Path
       /\ asked[t].size \in Int \cup {NoSize}
       /\ dir[t] \in Path \cup {NoPath} /\ limit[t] \in Nat \cup {NoSize}
       /\ \A c \in during[t] : c \in Snapshot /\ Valid(c)
  /\ made \subseteq Path

\* A path below root, whatever directories there are.
Below(path, root) ==
  /\ path.absolute = root.absolute
  /\ Len(path.parts) >= Len(root.parts)
  /\ SubSeq(path.parts, 1, Len(root.parts)) = root.parts
  /\ \A i \in (Len(root.parts) + 1)..Len(path.parts) : path.parts[i] # ".."

\* d is path or on the way to it.
LeadsTo(d, path) == d.absolute = path.absolute /\ IsPrefix(d.parts, path.parts)

\* Whatever namespaces come, and wherever opening a cache breaks off, no
\* directory is made but those on the way to one a caller named or to a root
\* that an installed configuration declared, and those below such a root.
MadeBelowRoots ==
  \A d \in made :
    \/ \E e \in Explicit : LeadsTo(d, e)
    \/ \E t \in Openers : \E c \in during[t] :
         /\ Environ[c.env] # NoPath
         /\ LeadsTo(d, Environ[c.env]) \/ Below(d, Environ[c.env])

\* A cache is opened under a root and with a size limit that were configured
\* during the call: those of one snapshot, if none was installed meanwhile.
OpensOfItsTime ==
  \A t \in Openers : openPc[t] = "open" =>
    /\ \/ dir[t] = asked[t].dir
       \/ \E c \in during[t] : /\ Environ[c.env] # NoPath
                              /\ dir[t] = Join(Environ[c.env], asked[t].namespace)
    /\ \/ limit[t] = asked[t].size
       \/ \E c \in during[t] : limit[t] = c.size
=============================================================================
