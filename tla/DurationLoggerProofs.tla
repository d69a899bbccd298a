------------------------ MODULE DurationLoggerProofs ------------------------
(***************************************************************************)
(* Theorems about DurationLogger, for every number of threads, uses and    *)
(* levels of nesting, and for every bound of the clock.                    *)
(***************************************************************************)
EXTENDS DurationLogger, SequenceTheorems, TLAPS

USE BoundsAssumption, NothingAssumption DEF Times, Points, IsWith, Goto

-----------------------------------------------------------------------------
(* The stack of uses of a thread.                                           *)

LEMMA Pushed ==
  ASSUME NEW S, NEW s \in Seq(S), NEW e \in S
  PROVE  /\ Append(s, e) \in Seq(S) /\ Append(s, e) # << >>
         /\ Len(Append(s, e)) = Len(s) + 1
         /\ Len(s) \in Nat /\ DOMAIN s = 1..Len(s)
         /\ DOMAIN Append(s, e) = 1..(Len(s) + 1)
         /\ \A i \in DOMAIN s : Append(s, e)[i] = s[i]
         /\ Append(s, e)[Len(s) + 1] = e
BY AppendProperties, LenProperties

LEMMA Popped ==
  ASSUME NEW S, NEW s \in Seq(S), s # << >>
  PROVE  /\ SubSeq(s, 1, Len(s) - 1) \in Seq(S)
         /\ Len(s) \in Nat \ {0} /\ DOMAIN s = 1..Len(s)
         /\ s[Len(s)] \in S
         /\ Len(SubSeq(s, 1, Len(s) - 1)) = Len(s) - 1
         /\ DOMAIN SubSeq(s, 1, Len(s) - 1) = 1..(Len(s) - 1)
         /\ \A i \in 1..(Len(s) - 1) : SubSeq(s, 1, Len(s) - 1)[i] = s[i]
<1>1. Len(s) \in Nat \ {0} /\ DOMAIN s = 1..Len(s)
  BY LenProperties, EmptySeq
<1>2. \A i \in 1..(Len(s) - 1) : s[i] \in S
  BY <1>1, ElementOfSeq
<1> QED
  BY <1>1, <1>2, SubSeqProperties, ElementOfSeq, LenProperties

LEMMA OverlappedUses ==
  ASSUME NEW t \in Threads, NEW u \in Threads, open[u] \in Seq(Use)
  PROVE  /\ Overlapped(t, u) \in Seq(Use)
         /\ DOMAIN Overlapped(t, u) = DOMAIN open[u]
         /\ Len(Overlapped(t, u)) = Len(open[u])
         /\ \A i \in DOMAIN open[u] :
              /\ Overlapped(t, u)[i].kind = open[u][i].kind
              /\ Overlapped(t, u)[i].began = open[u][i].began
              /\ IsWith(open[u][i]) =>
                   /\ ~Overlapped(t, u)[i].own
                   /\ Overlapped(t, u)[i].local <=> open[u][i].local /\ t = u
<1>1. Len(open[u]) \in Nat /\ DOMAIN open[u] = 1..Len(open[u])
      /\ \A i \in DOMAIN open[u] : open[u][i] \in Use
  BY LenProperties, ElementOfSeq
<1>2. Overlapped(t, u) \in [1..Len(open[u]) -> Use]
  BY <1>1, ZenonT(30) DEF Overlapped, Use
<1>3. Overlapped(t, u) \in Seq(Use) /\ Len(Overlapped(t, u)) = Len(open[u])
  BY <1>1, <1>2, SeqDef, LenProperties
<1> QED
  BY <1>1, <1>3 DEF Overlapped, Use

\* What __enter__ does to the stacks.
LEMMA EnterStacks ==
  ASSUME TypeOK, NEW t \in Threads, Push(t)
  PROVE  /\ open' \in [Threads -> Seq(Use)]
         /\ DOMAIN open[t] = 1..Len(open[t]) /\ Len(open[t]) \in Nat
         /\ DOMAIN open'[t] = 1..(Len(open[t]) + 1) /\ Len(open'[t]) = Len(open[t]) + 1
         /\ open'[t] # << >>
         /\ \A u \in Threads : \A i \in DOMAIN open[u] :
              /\ i \in DOMAIN open'[u]
              /\ open'[u][i].kind = open[u][i].kind
              /\ open'[u][i].began = open[u][i].began
              /\ IsWith(open[u][i]) =>
                   ~open'[u][i].own /\ (open'[u][i].local <=> open[u][i].local /\ t = u)
         /\ \A u \in Threads \ {t} : DOMAIN open'[u] = DOMAIN open[u]
                                    /\ Len(open'[u]) = Len(open[u])
         /\ IsWith(Innermost(t)') /\ Innermost(t)'.began = clock
         /\ Innermost(t)'.own <=> \A u \in Threads : ~Busy(u)
         /\ Innermost(t)'.local <=> \A u \in Threads \ {t} : ~Busy(u)
<1> DEFINE use == [kind |-> "with", began |-> clock,
                   own |-> \A u \in Threads : ~Busy(u),
                   local |-> \A u \in Threads \ {t} : ~Busy(u)]
<1>1. \A u \in Threads : open[u] \in Seq(Use)
  BY DEF TypeOK
<1>2. use \in Use
  BY DEF TypeOK, Use
<1>3. /\ open'[t] = Append(Overlapped(t, t), use)
      /\ \A u \in Threads \ {t} : open'[u] = Overlapped(t, u)
      /\ open' = [u \in Threads |-> IF u = t THEN Append(Overlapped(t, t), use)
                                    ELSE Overlapped(t, u)]
  BY DEF Push
<1>4. use.kind = "with" /\ use.began = clock
      /\ (use.own <=> \A u \in Threads : ~Busy(u))
      /\ (use.local <=> \A u \in Threads \ {t} : ~Busy(u))
  OBVIOUS
<1> HIDE DEF use
<1>5. /\ open'[t] \in Seq(Use) /\ open'[t] # << >>
      /\ Len(open'[t]) = Len(open[t]) + 1 /\ Len(open[t]) \in Nat
      /\ DOMAIN open[t] = 1..Len(open[t])
      /\ DOMAIN open'[t] = 1..(Len(open[t]) + 1)
      /\ \A i \in DOMAIN open[t] : open'[t][i] = Overlapped(t, t)[i]
      /\ open'[t][Len(open[t]) + 1] = use
  BY <1>1, <1>2, <1>3, Pushed, OverlappedUses
<1>6. Innermost(t)' = use
  BY <1>5 DEF Innermost
<1>7. \A u \in Threads : \A i \in DOMAIN open[u] : i \in DOMAIN open'[u] /\ open'[u][i] = Overlapped(t, u)[i]
  BY <1>1, <1>3, <1>5, OverlappedUses
<1>8. open' \in [Threads -> Seq(Use)]
  BY <1>1, <1>3, <1>5, OverlappedUses
<1>9. \A u \in Threads \ {t} : DOMAIN open'[u] = DOMAIN open[u] /\ Len(open'[u]) = Len(open[u])
  BY <1>1, <1>3, OverlappedUses
<1> QED
  BY <1>1, <1>4, <1>5, <1>6, <1>7, <1>8, <1>9, OverlappedUses

\* What the call of a decorated function does to the stack of its thread.
LEMMA CallStacks ==
  ASSUME TypeOK, NEW t \in Threads, Call(t)
  PROVE  /\ open' \in [Threads -> Seq(Use)]
         /\ \A u \in Threads \ {t} : open'[u] = open[u]
         /\ DOMAIN open[t] = 1..Len(open[t]) /\ Len(open[t]) \in Nat
         /\ DOMAIN open'[t] = 1..(Len(open[t]) + 1) /\ Len(open'[t]) = Len(open[t]) + 1
         /\ \A i \in DOMAIN open[t] : open'[t][i] = open[t][i]
         /\ ~IsWith(Innermost(t)') /\ Innermost(t)'.began = clock
<1> DEFINE use == [kind |-> "call", began |-> clock, own |-> TRUE, local |-> TRUE]
<1>1. use \in Use /\ use.kind = "call" /\ use.began = clock
  BY DEF TypeOK, Use
<1>2. open' = [open EXCEPT ![t] = Append(open[t], use)]
  BY DEF Call
<1> HIDE DEF use
<1>3. /\ open'[t] = Append(open[t], use) /\ open[t] \in Seq(Use)
      /\ \A u \in Threads \ {t} : open'[u] = open[u]
  BY <1>2 DEF TypeOK
<1>4. open'[t] \in Seq(Use)
  BY <1>1, <1>3, Pushed
<1>5. open' \in [Threads -> Seq(Use)]
  BY <1>2, <1>3, <1>4 DEF TypeOK
<1> QED
  BY <1>1, <1>3, <1>5, Pushed DEF Innermost

\* What leaving a use does to them.
LEMMA LeaveStacks ==
  ASSUME TypeOK, NEW t \in Threads, open[t] # << >>, NEW e, NEW end, Leave(t, e, end)
  PROVE  /\ open' \in [Threads -> Seq(Use)]
         /\ \A u \in Threads \ {t} : open'[u] = open[u]
         /\ Len(open[t]) \in Nat \ {0} /\ DOMAIN open[t] = 1..Len(open[t])
         /\ Innermost(t) \in Use
         /\ Len(open'[t]) = Len(open[t]) - 1 /\ DOMAIN open'[t] = 1..(Len(open[t]) - 1)
         /\ \A i \in DOMAIN open'[t] : i \in DOMAIN open[t] /\ open'[t][i] = open[t][i]
<1>1. /\ open'[t] = SubSeq(open[t], 1, Len(open[t]) - 1) /\ open[t] \in Seq(Use)
      /\ open' = [open EXCEPT ![t] = open'[t]]
      /\ \A u \in Threads \ {t} : open'[u] = open[u]
  BY DEF Leave, TypeOK
<1>2. open'[t] \in Seq(Use)
  BY <1>1, Popped
<1>3. open' \in [Threads -> Seq(Use)]
  BY <1>1, <1>2 DEF TypeOK
<1>4. Len(open[t]) \in Nat \ {0} /\ DOMAIN open[t] = 1..Len(open[t]) /\ Innermost(t) \in Use
  BY <1>1, Popped DEF Innermost
<1>5. Len(open'[t]) = Len(open[t]) - 1 /\ DOMAIN open'[t] = 1..(Len(open[t]) - 1)
      /\ \A i \in 1..(Len(open[t]) - 1) : open'[t][i] = open[t][i]
  BY <1>1, Popped
<1> QED
  BY <1>1, <1>3, <1>4, <1>5

-----------------------------------------------------------------------------
(* Types and the clock.                                                     *)

\* What the slot and the uses have to do with the clock: a use nested in
\* another began no earlier, and only a block has points of its own.
ClockInv ==
  /\ TypeOK
  /\ start # Nothing => start <= clock
  /\ \A t \in Threads :
       /\ \A i \in DOMAIN open[t] : open[t][i].began <= clock
       /\ \A i, j \in DOMAIN open[t] : i <= j => open[t][i].began <= open[t][j].began
       /\ pc[t] # "body" => open[t] # << >> /\ IsWith(Innermost(t))
       /\ pc[t] # "reset" => event[t] = Nothing

LEMMA Emission ==
  ASSUME NEW t \in Threads, NEW from \in Times, from <= clock, clock \in Times,
         Innermost(t).began \in Times, Innermost(t).began <= clock
  PROVE  /\ Emitted(t, from) \in Event /\ Emitted(t, from) # Nothing
         /\ Emitted(t, from).duration = clock - from
         /\ Emitted(t, from).elapsed = clock - Innermost(t).began
<1>1. clock - from \in Times /\ clock - Innermost(t).began \in Times
  OBVIOUS
<1>2. Emitted(t, from) \in Event
  BY <1>1 DEF Emitted, Event, Duration
<1> QED
  BY <1>2 DEF Emitted, Duration

\* The innermost use of a thread, if it is in one.
LEMMA InnermostType ==
  ASSUME ClockInv, NEW t \in Threads, open[t] # << >>
  PROVE  /\ Len(open[t]) \in Nat \ {0} /\ DOMAIN open[t] = 1..Len(open[t])
         /\ Innermost(t) \in Use /\ Innermost(t).began \in Times
         /\ Innermost(t).began <= clock
<1>1. open[t] \in Seq(Use)
  BY DEF ClockInv, TypeOK
<1>2. Len(open[t]) \in Nat \ {0} /\ DOMAIN open[t] = 1..Len(open[t]) /\ Innermost(t) \in Use
  BY <1>1, Popped DEF Innermost
<1> QED
  BY <1>2 DEF ClockInv, Innermost, Use

\* The conjuncts of ClockInv that a thread's stack decides.
Stacked(t) ==
  /\ \A i \in DOMAIN open[t] : open[t][i].began <= clock
  /\ \A i, j \in DOMAIN open[t] : i <= j => open[t][i].began <= open[t][j].began

Pointed(t) ==
  /\ pc[t] # "body" => open[t] # << >> /\ IsWith(Innermost(t))
  /\ pc[t] # "reset" => event[t] = Nothing

\* A use that begins now is put on top.
LEMMA NewestLast ==
  ASSUME NEW t \in Threads, Stacked(t), clock \in Times, clock' = clock,
         Len(open[t]) \in Nat, DOMAIN open[t] = 1..Len(open[t]),
         DOMAIN open'[t] = 1..(Len(open[t]) + 1),
         \A i \in DOMAIN open[t] : open'[t][i].began = open[t][i].began,
         open'[t][Len(open[t]) + 1].began = clock
  PROVE  Stacked(t)'
<1> DEFINE n == Len(open[t]) + 1
<1>1. /\ DOMAIN open[t] = 1..(n - 1) /\ DOMAIN open'[t] = 1..n /\ n \in Nat
      /\ \A i \in 1..(n - 1) : open'[t][i].began = open[t][i].began
      /\ open'[t][n].began = clock
  OBVIOUS
<1>2. \A i \in 1..(n - 1) : open[t][i].began <= clock
  BY <1>1 DEF Stacked
<1> HIDE DEF n
<1>3. \A i \in 1..n : i = n \/ i \in 1..(n - 1)
  BY <1>1
<1>4. \A i \in 1..n : open'[t][i].began <= clock'
  BY <1>1, <1>2, <1>3, SMTT(30)
<1>5. ASSUME NEW i \in 1..n, NEW j \in 1..n, i <= j
      PROVE  open'[t][i].began <= open'[t][j].began
  <2>1. CASE j = n
    BY <1>1, <1>4, <2>1
  <2>2. CASE j \in 1..(n - 1)
    <3>1. i \in 1..(n - 1)
      BY <1>1, <1>5, <2>2
    <3> QED
      BY <1>1, <1>5, <2>2, <3>1 DEF Stacked
  <2> QED
    BY <1>3, <2>1, <2>2
<1> QED
  BY <1>1, <1>4, <1>5 DEF Stacked

\* A thread leaves its innermost use.
LEMMA ClockLeave ==
  ASSUME ClockInv, NEW t \in Threads, open[t] # << >>,
         NEW e \in Event \cup {Nothing}, NEW end \in Ends,
         Leave(t, e, end), UNCHANGED <<log, clock, uses>>, start' \in {start, Nothing}
  PROVE  ClockInv'
<1>1. TypeOK /\ \A u \in Threads : Stacked(u) /\ Pointed(u)
  BY DEF ClockInv, Stacked, Pointed
<1>2. \A u \in Threads : Stacked(u)'
  <2>1. ASSUME NEW u \in Threads \ {t} PROVE Stacked(u)'
    BY <1>1, LeaveStacks DEF Stacked
  <2>2. Stacked(t)'
    BY <1>1, LeaveStacks DEF Stacked
  <2> QED
    BY <2>1, <2>2
<1>3. \A u \in Threads : Pointed(u)'
  <2>1. pc'[t] = "body" /\ event'[t] = Nothing
    BY <1>1 DEF Leave, TypeOK
  <2>2. ASSUME NEW u \in Threads \ {t} PROVE Pointed(u)'
    <3>1. pc'[u] = pc[u] /\ event'[u] = event[u] /\ open'[u] = open[u]
      BY <1>1, LeaveStacks DEF Leave, TypeOK
    <3> QED
      BY <1>1, <3>1 DEF Pointed, Innermost
  <2> QED
    BY <2>1, <2>2 DEF Pointed
<1>4. TypeOK'
  <2>1. Innermost(t) \in Use
    BY InnermostType
  <2>2. /\ open' \in [Threads -> Seq(Use)] /\ clock' \in Times
        /\ start' \in Times \cup {Nothing} /\ uses' \in [Threads -> 0..MaxUses]
    BY <1>1, LeaveStacks DEF TypeOK
  <2>3. log' \in (SUBSET Outcomes) \ {{}}
    BY <1>1 DEF TypeOK
  <2>4. pc' \in [Threads -> Points] /\ event' \in [Threads -> Event \cup {Nothing}]
    BY <1>1 DEF Leave, TypeOK
  <2>5. report' \in [Threads -> {Nothing} \cup
          [event : Event \cup {Nothing}, use : Use, end : Ends]]
    BY <1>1, <2>1 DEF Leave, TypeOK
  <2> QED
    BY <2>2, <2>3, <2>4, <2>5 DEF TypeOK
<1> QED
  BY <1>2, <1>3, <1>4 DEF ClockInv, Stacked, Pointed

\* __exit__'s report is made, or the block is left with an exception instead.
Reports(t) ==
  /\ start # Nothing
  /\ event' = [event EXCEPT ![t] = Emitted(t, start)]
  /\ pc' = [pc EXCEPT ![t] = "reset"]
  /\ UNCHANGED <<open, report>>

Fails(t, end) ==
  /\ Leave(t, Nothing, end)
  /\ \/ end = "log raised" /\ "raised" \in log
     \/ end = "slot empty" /\ start = Nothing

LEMMA EmitEnds ==
  ASSUME NEW t \in Threads, EmitDuration(t)
  PROVE  /\ pc[t] = "emit" /\ UNCHANGED <<log, clock, start, uses>>
         /\ Reports(t) \/ \E end \in Ends : Fails(t, end)
<1>1. CASE start # Nothing /\ "raised" \in log /\ Leave(t, Nothing, "log raised")
  BY <1>1 DEF EmitDuration, Fails, Ends
<1>2. CASE start = Nothing /\ Leave(t, Nothing, "slot empty")
  BY <1>2 DEF EmitDuration, Fails, Ends
<1> QED
  BY <1>1, <1>2 DEF EmitDuration, Reports

LEMMA ReturnEnds ==
  ASSUME NEW t \in Threads, Return(t)
  PROVE  /\ open[t] # << >> /\ pc[t] = "body" /\ UNCHANGED <<log, clock, start, uses>>
         /\ \/ Leave(t, Emitted(t, Innermost(t).began), "plain")
            \/ "raised" \in log /\ Leave(t, Nothing, "log raised")
BY DEF Return, InBody

LEMMA ClockStep == ClockInv /\ [Next]_vars => ClockInv'
<1> SUFFICES ASSUME ClockInv, [Next]_vars PROVE ClockInv'
  OBVIOUS
<1>0. TypeOK /\ \A t \in Threads : Stacked(t) /\ Pointed(t)
  BY DEF ClockInv, Stacked, Pointed
\* One thread goes from one point to another, its stack unchanged.
<1>a. ASSUME NEW t \in Threads, TypeOK', UNCHANGED <<clock, open>>, Pointed(t)',
             start' # Nothing => start' <= clock,
             \A u \in Threads \ {t} : pc'[u] = pc[u] /\ event'[u] = event[u]
      PROVE  ClockInv'
  BY <1>0, <1>a DEF ClockInv, Stacked, Pointed, Innermost
<1>1. ASSUME NEW t \in Threads, Enter(t) PROVE ClockInv'
  <2>0. Push(t) /\ pc[t] = "body" /\ UNCHANGED <<log, clock, start, event>>
        /\ report' = [report EXCEPT ![t] = Nothing]
        /\ pc' = [pc EXCEPT ![t] = "enter"]
    BY <1>1 DEF Enter, Begin
  <2>1. TypeOK'
    <3>1. open' \in [Threads -> Seq(Use)]
      BY <1>0, <2>0, EnterStacks
    <3>2. uses' \in [Threads -> 0..MaxUses]
      BY <1>0, <1>1 DEF Enter, Begin, TypeOK
    <3> QED
      BY <1>0, <2>0, <3>1, <3>2 DEF TypeOK
  <2>2. Stacked(t)'
    <3>1. /\ Len(open[t]) \in Nat /\ DOMAIN open[t] = 1..Len(open[t])
          /\ DOMAIN open'[t] = 1..(Len(open[t]) + 1)
          /\ \A i \in DOMAIN open[t] : open'[t][i].began = open[t][i].began
      BY <1>0, <2>0, EnterStacks
    <3>2. open'[t][Len(open[t]) + 1].began = clock /\ clock \in Times
      BY <1>0, <2>0, EnterStacks DEF Innermost, TypeOK
    <3> QED
      BY <1>0, <2>0, <3>1, <3>2, NewestLast
  <2>3. ASSUME NEW u \in Threads \ {t} PROVE Stacked(u)'
    <3>1. /\ DOMAIN open'[u] = DOMAIN open[u] /\ clock' = clock
          /\ \A i \in DOMAIN open[u] : open'[u][i].began = open[u][i].began
      BY <1>0, <2>0, EnterStacks
    <3> QED
      BY <1>0, <3>1 DEF Stacked
  <2>4. Pointed(t)'
    BY <1>0, <2>0, EnterStacks DEF Pointed, TypeOK
  <2>5. ASSUME NEW u \in Threads \ {t} PROVE Pointed(u)'
    <3>1. pc'[u] = pc[u] /\ event'[u] = event[u]
      BY <1>0, <2>0 DEF TypeOK
    <3>2. CASE pc[u] # "body"
      <4>1. open[u] # << >> /\ IsWith(Innermost(u)) /\ open[u] \in Seq(Use)
        BY <1>0, <3>2 DEF Pointed, TypeOK
      <4>2. Len(open[u]) \in DOMAIN open[u] /\ Len(open[u]) > 0
        BY <4>1, Popped
      <4>3. Len(open'[u]) = Len(open[u]) /\ open'[u] # << >>
            /\ open'[u][Len(open[u])].kind = open[u][Len(open[u])].kind
        BY <1>0, <2>0, <4>2, EnterStacks, EmptySeq
      <4> QED
        BY <1>0, <3>1, <4>1, <4>3 DEF Pointed, Innermost
    <3> QED
      BY <1>0, <3>1, <3>2 DEF Pointed
  <2> QED
    BY <2>0, <2>1, <2>2, <2>3, <2>4, <2>5 DEF ClockInv, Stacked, Pointed
<1>2. ASSUME NEW t \in Threads, Start(t) PROVE ClockInv'
  <2>1. open[t] # << >> /\ IsWith(Innermost(t)) /\ event[t] = Nothing
    BY <1>0, <1>2 DEF Start, Pointed
  <2>2. Innermost(t).began \in Times /\ Innermost(t).began <= clock
    BY <2>1, InnermostType
  <2>3. TypeOK' /\ Pointed(t)'
    BY <1>0, <1>2, <2>1, <2>2 DEF Start, TypeOK, Pointed
  <2> QED
    BY <1>0, <1>2, <1>a, <2>2, <2>3 DEF Start, TypeOK
<1>3. ASSUME NEW t \in Threads, Exit(t) PROVE ClockInv'
  <2>1. TypeOK' /\ Pointed(t)'
    BY <1>0, <1>3 DEF Exit, InBody, TypeOK, Pointed, Innermost
  <2> QED
    BY <1>0, <1>3, <1>a, <2>1 DEF Exit, TypeOK, ClockInv
<1>4. ASSUME NEW t \in Threads, EmitDuration(t) PROVE ClockInv'
  <2>1. open[t] # << >> /\ IsWith(Innermost(t)) /\ event[t] = Nothing
    BY <1>0, <1>4 DEF EmitDuration, Pointed
  <2>2. CASE Reports(t)
    <3>1. Emitted(t, start) \in Event
      BY <1>0, <2>1, <2>2, InnermostType, Emission DEF Reports, ClockInv, TypeOK
    <3>2. TypeOK' /\ Pointed(t)'
      BY <1>0, <1>4, <2>1, <2>2, <3>1, EmitEnds, ZenonT(30)
         DEF Reports, TypeOK, Pointed, Innermost
    <3> QED
      <4>1. /\ UNCHANGED <<clock, start, open>> /\ (start # Nothing => start <= clock)
            /\ \A u \in Threads \ {t} : pc'[u] = pc[u] /\ event'[u] = event[u]
        BY <1>0, <1>4, <2>2, EmitEnds DEF Reports, TypeOK, ClockInv
      <4> QED
        BY <1>a, <3>2, <4>1
  <2>3. ASSUME NEW end \in Ends, Fails(t, end) PROVE ClockInv'
    BY <1>4, <2>1, <2>3, EmitEnds, ClockLeave DEF Fails
  <2> QED
    BY <1>4, <2>2, <2>3, EmitEnds
<1>5. ASSUME NEW t \in Threads, Reset(t) PROVE ClockInv'
  <2>1. open[t] # << >> /\ event[t] \in Event \cup {Nothing}
    BY <1>0, <1>5 DEF Reset, Pointed, TypeOK
  <2> QED
    BY <1>5, <2>1, ClockLeave DEF Reset, Ends
<1>6. ASSUME NEW t \in Threads, Call(t) PROVE ClockInv'
  <2>0. pc[t] = "body" /\ UNCHANGED <<log, clock, start, pc, event>>
        /\ report' = [report EXCEPT ![t] = Nothing]
    BY <1>6 DEF Call, Begin
  <2>1. TypeOK'
    <3>1. open' \in [Threads -> Seq(Use)]
      BY <1>0, <1>6, CallStacks
    <3>2. uses' \in [Threads -> 0..MaxUses]
      BY <1>0, <1>6 DEF Call, Begin, TypeOK
    <3> QED
      BY <1>0, <2>0, <3>1, <3>2 DEF TypeOK
  <2>2. Stacked(t)'
    BY <1>0, <1>6, <2>0, CallStacks, NewestLast DEF Innermost, TypeOK
  <2>3. ASSUME NEW u \in Threads \ {t} PROVE Stacked(u)' /\ Pointed(u)'
    BY <1>0, <1>6, <2>0, CallStacks DEF Stacked, Pointed, Innermost
  <2>4. Pointed(t)'
    BY <1>0, <2>0 DEF Pointed
  <2> QED
    BY <2>0, <2>1, <2>2, <2>3, <2>4 DEF ClockInv, Stacked, Pointed
<1>7. ASSUME NEW t \in Threads, Return(t) PROVE ClockInv'
  <2>1. open[t] # << >>
    BY <1>7, ReturnEnds
  <2>2. Emitted(t, Innermost(t).began) \in Event
    BY <1>0, <2>1, InnermostType, Emission DEF TypeOK
  <2> QED
    BY <1>7, <2>1, <2>2, ReturnEnds, ClockLeave DEF Ends
<1>8. CASE Tick
  <2>1. TypeOK' /\ clock' = clock + 1 /\ clock \in Times
        /\ UNCHANGED <<start, open, pc, event>>
    BY <1>0, <1>8 DEF Tick, TypeOK
  <2>2. start # Nothing => start' <= clock'
    BY <1>0, <2>1 DEF ClockInv, TypeOK
  <2>3. ASSUME NEW t \in Threads, NEW i \in DOMAIN open[t]
        PROVE  open'[t][i].began <= clock'
    <3>1. open[t] \in Seq(Use) /\ open[t][i].began <= clock
      BY <1>0 DEF TypeOK, Stacked
    <3>2. open[t][i] \in Use
      BY <3>1, ElementOfSeq, LenProperties
    <3> QED
      BY <2>1, <3>1, <3>2 DEF Use
  <2> QED
    BY <1>0, <2>1, <2>2, <2>3 DEF ClockInv, Stacked, Pointed, Innermost
<1>9. CASE Finished \/ UNCHANGED vars
  BY <1>0, <1>9 DEF Finished, vars, ClockInv, TypeOK, Innermost
<1> QED
  BY <1>1, <1>2, <1>3, <1>4, <1>5, <1>6, <1>7, <1>8, <1>9 DEF Next

LEMMA ClockHolds == Spec => []ClockInv
<1>1. Init => ClockInv
  <2> SUFFICES ASSUME Init PROVE ClockInv
    OBVIOUS
  <2>1. TypeOK
    BY EmptySeq DEF Init, TypeOK
  <2>2. DOMAIN << >> = {}
    BY EmptySeq, LenProperties
  <2>3. \A t \in Threads : open[t] = << >> /\ pc[t] = "body" /\ event[t] = Nothing
    BY DEF Init
  <2> QED
    BY <2>1, <2>2, <2>3 DEF Init, ClockInv
<1> QED
  BY <1>1, ClockStep, PTL DEF Spec

\* Every duration that is ever reported, and the time of every use, lies
\* between zero and the clock.
THEOREM DurationTypes == Spec => []TypeOK
<1>1. ClockInv => TypeOK
  BY DEF ClockInv
<1> QED
  BY <1>1, ClockHolds, PTL

-----------------------------------------------------------------------------
(* What the slot holds.                                                     *)

\* Use i of thread t has taken its time and not put it into the slot.
Entering(t, i) == pc[t] = "enter" /\ i = Len(open[t])

\* Use i of thread t has not been overlapped: it is the only block, and the
\* slot is its own.
Sole(t, i) ==
  /\ \A u \in Threads \ {t} : ~Busy(u)
  /\ \A j \in DOMAIN open[t] : IsWith(open[t][j]) => j = i
  /\ Entering(t, i) \/ start = open[t][i].began
  /\ pc[t] = "reset" => event[t] # Nothing /\ event[t].duration = event[t].elapsed

OwnInv ==
  \A t \in Threads : \A i \in DOMAIN open[t] :
    IsWith(open[t][i]) /\ open[t][i].own => Sole(t, i)

\* Use i of thread t has been overlapped by its own thread only: the slot holds
\* no time before its own, and none empties it between __exit__'s two reads.
Alone(t, i) ==
  /\ \A u \in Threads \ {t} : ~Busy(u)
  /\ Entering(t, i) \/ start = Nothing \/ open[t][i].began <= start
  /\ i = Len(open[t]) /\ pc[t] = "emit" => start # Nothing
  /\ i = Len(open[t]) /\ event[t] # Nothing => event[t].duration <= event[t].elapsed

LocalInv ==
  \A t \in Threads : \A i \in DOMAIN open[t] :
    IsWith(open[t][i]) /\ open[t][i].local => Alone(t, i)

\* A thread in a block is busy.
LEMMA InBlock ==
  ASSUME ClockInv, NEW t \in Threads, open[t] # << >>, IsWith(Innermost(t))
  PROVE  Busy(t) /\ Len(open[t]) \in DOMAIN open[t]
BY InnermostType DEF Busy, Innermost

LEMMA PointsAreInBlocks ==
  ASSUME ClockInv, NEW t \in Threads, pc[t] # "body" \/ InBody(t, "with")
  PROVE  open[t] # << >> /\ IsWith(Innermost(t))
BY DEF ClockInv, InBody

\* Leaving ends the innermost use and no other.
LEMMA LeftUses ==
  ASSUME TypeOK, NEW t \in Threads, open[t] # << >>, NEW e, NEW end, Leave(t, e, end),
         NEW u \in Threads, NEW i \in DOMAIN open'[u]
  PROVE  i \in DOMAIN open[u] /\ open'[u][i] = open[u][i] /\ ~(u = t /\ i = Len(open[t]))
<1>1. CASE u = t
  <2>1. /\ Len(open[t]) \in Nat /\ i \in 1..(Len(open[t]) - 1)
        /\ i \in DOMAIN open[t] /\ open'[t][i] = open[t][i]
    BY <1>1, LeaveStacks
  <2> QED
    BY <1>1, <2>1
<1>2. CASE u # t
  BY <1>2, LeaveStacks
<1> QED
  BY <1>1, <1>2

LEMMA OwnStep ==
  ASSUME ClockInv, OwnInv, [Next]_vars
  PROVE  OwnInv'
<1>0. TypeOK /\ ClockInv
  BY DEF ClockInv
<1> SUFFICES ASSUME NEW u \in Threads, NEW i \in DOMAIN open'[u],
                    IsWith(open'[u][i]), open'[u][i].own
             PROVE  Sole(u, i)'
  BY DEF OwnInv
\* A block that was there and was not overlapped: no other thread is in one.
<1>a. ASSUME i \in DOMAIN open[u], IsWith(open[u][i]), open[u][i].own,
             NEW t \in Threads, pc[t] # "body" \/ InBody(t, "with")
      PROVE  Sole(u, i) /\ t = u /\ i = Len(open[t])
  <2>1. Sole(u, i)
    BY <1>a DEF OwnInv
  <2>2. Busy(t) /\ Len(open[t]) \in DOMAIN open[t] /\ IsWith(Innermost(t))
    BY <1>a, PointsAreInBlocks, InBlock
  <2> QED
    BY <2>1, <2>2 DEF Sole, Innermost
<1>1. ASSUME NEW t \in Threads, Enter(t) PROVE Sole(u, i)'
  <2>0. Push(t) /\ pc'[t] = "enter"
    BY <1>0, <1>1 DEF Enter, TypeOK
  <2>1. u = t /\ i = Len(open[t]) + 1
    BY <1>0, <2>0, EnterStacks
  <2>2. \A x \in Threads : ~Busy(x)
    BY <1>0, <2>0, <2>1, EnterStacks DEF Innermost
  <2>3. \A x \in Threads \ {t} : ~Busy(x)'
    <3>1. ASSUME NEW x \in Threads \ {t}
          PROVE  /\ DOMAIN open'[x] = DOMAIN open[x]
                 /\ \A j \in DOMAIN open[x] : open'[x][j].kind = open[x][j].kind
      BY <1>0, <2>0, EnterStacks
    <3> QED
      BY <2>2, <3>1 DEF Busy
  <2>4. \A j \in DOMAIN open'[t] : IsWith(open'[t][j]) => j = i
    BY <1>0, <2>0, <2>1, <2>2, EnterStacks DEF Busy
  <2>5. Entering(t, i)'
    BY <1>0, <2>0, <2>1, EnterStacks DEF Entering
  <2> QED
    BY <2>0, <2>1, <2>3, <2>4, <2>5 DEF Sole
<1>2. ASSUME NEW t \in Threads, Start(t) PROVE Sole(u, i)'
  <2>1. Sole(u, i) /\ t = u /\ i = Len(open[t])
    BY <1>2, <1>a DEF Start
  <2>2. start' = open[t][i].began /\ UNCHANGED open /\ pc'[t] = "body"
    BY <1>0, <1>2, <2>1 DEF Start, Innermost, TypeOK
  <2> QED
    BY <2>1, <2>2 DEF Sole, Busy
<1>3. ASSUME NEW t \in Threads, Exit(t) PROVE Sole(u, i)'
  <2>1. Sole(u, i) /\ t = u /\ i = Len(open[t])
    BY <1>3, <1>a DEF Exit
  <2>2. start = open[t][i].began /\ UNCHANGED <<start, open>>
    BY <1>3, <2>1 DEF Exit, InBody, Sole, Entering
  <2>3. open[t][i].began # Nothing
    BY <1>0, <1>3, <2>1, InnermostType DEF Exit, InBody, Innermost
  <2>4. pc'[t] = "emit"
    BY <1>0, <1>3, <2>2, <2>3 DEF Exit, TypeOK
  <2> QED
    BY <2>1, <2>2, <2>4 DEF Sole, Busy
<1>4. ASSUME NEW t \in Threads, EmitDuration(t) PROVE Sole(u, i)'
  <2>0. open[t] # << >> /\ pc[t] = "emit"
    BY <1>0, <1>4, PointsAreInBlocks DEF EmitDuration
  <2>1. CASE Reports(t)
    <3>1. /\ event' = [event EXCEPT ![t] = Emitted(t, start)] /\ start # Nothing
          /\ pc'[t] = "reset" /\ UNCHANGED <<start, open>>
      BY <1>0, <1>4, <2>1, EmitEnds DEF Reports, TypeOK
    <3>2. Sole(u, i) /\ t = u /\ i = Len(open[t])
      BY <1>a, <2>0, <3>1
    <3>3. start = Innermost(t).began
      BY <2>0, <3>2 DEF Sole, Entering, Innermost
    <3>4. /\ Emitted(t, start) # Nothing
          /\ Emitted(t, start).duration = Emitted(t, start).elapsed
      BY <1>0, <2>0, <3>3, InnermostType, Emission DEF TypeOK
    <3>5. event'[t] # Nothing /\ event'[t].duration = event'[t].elapsed
      BY <1>0, <3>1, <3>4 DEF TypeOK
    <3> QED
      BY <3>1, <3>2, <3>3, <3>5 DEF Sole, Busy, Innermost
  <2>2. ASSUME NEW end \in Ends, Fails(t, end) PROVE Sole(u, i)'
    <3>1. Leave(t, Nothing, end)
      BY <2>2 DEF Fails
    <3>2. i \in DOMAIN open[u] /\ open'[u][i] = open[u][i] /\ ~(u = t /\ i = Len(open[t]))
      BY <1>0, <2>0, <3>1, LeftUses
    <3> QED
      BY <1>a, <2>0, <3>2
  <2> QED
    BY <1>4, <2>1, <2>2, EmitEnds
<1>5. ASSUME NEW t \in Threads, Reset(t) PROVE Sole(u, i)'
  <2>0. open[t] # << >> /\ pc[t] = "reset" /\ Leave(t, event[t], "plain")
    BY <1>0, <1>5, PointsAreInBlocks DEF Reset
  <2>1. i \in DOMAIN open[u] /\ open'[u][i] = open[u][i] /\ ~(u = t /\ i = Len(open[t]))
    BY <1>0, <2>0, LeftUses
  <2> QED
    BY <1>a, <2>0, <2>1
<1>6. ASSUME NEW t \in Threads, Call(t) PROVE Sole(u, i)'
  <2>0. pc[t] = "body" /\ UNCHANGED <<start, pc, event>>
    BY <1>6 DEF Call, Begin
  <2>1. i \in DOMAIN open[u] /\ open'[u][i] = open[u][i]
    BY <1>0, <1>6, CallStacks DEF Innermost
  <2>2. Sole(u, i)
    BY <2>1 DEF OwnInv
  <2>3. \A x \in Threads : Busy(x)' => Busy(x)
    BY <1>0, <1>6, CallStacks DEF Innermost, Busy
  <2>4. \A j \in DOMAIN open'[u] : IsWith(open'[u][j]) => j = i
    BY <1>0, <1>6, <2>2, CallStacks, SMTT(30) DEF Innermost, Sole
  <2>5. Entering(u, i) => Entering(u, i)'
    BY <1>0, <1>6, <2>0, CallStacks DEF Entering
  <2> QED
    BY <2>0, <2>1, <2>2, <2>3, <2>4, <2>5 DEF Sole
<1>7. ASSUME NEW t \in Threads, Return(t) PROVE Sole(u, i)'
  <2>0. /\ open[t] # << >> /\ pc[t] = "body" /\ start' = start
        /\ \E e, end : Leave(t, e, end)
    BY <1>7, ReturnEnds
  <2>1. /\ i \in DOMAIN open[u] /\ open'[u][i] = open[u][i]
        /\ \A x \in Threads : Busy(x)' => Busy(x)
        /\ \A j \in DOMAIN open'[u] : j \in DOMAIN open[u] /\ open'[u][j] = open[u][j]
    BY <1>0, <2>0, LeaveStacks, ZenonT(30) DEF Busy
  <2>2. Sole(u, i)
    BY <2>1 DEF OwnInv
  <2>3. /\ pc'[t] = "body" /\ pc' = pc
        /\ \A x \in Threads \ {t} : open'[x] = open[x] /\ event'[x] = event[x]
    BY <1>0, <2>0, LeaveStacks DEF Leave, TypeOK
  <2>4. Entering(u, i) => Entering(u, i)'
    BY <2>3 DEF Entering
  <2> QED
    BY <2>0, <2>1, <2>2, <2>3, <2>4 DEF Sole
<1>8. CASE Tick \/ Finished \/ UNCHANGED vars
  BY <1>8 DEF Tick, Finished, vars, OwnInv, Sole, Entering, Busy
<1> QED
  BY <1>1, <1>2, <1>3, <1>4, <1>5, <1>6, <1>7, <1>8 DEF Next

LEMMA LocalStep ==
  ASSUME ClockInv, LocalInv, [Next]_vars
  PROVE  LocalInv'
<1>0. TypeOK /\ ClockInv
  BY DEF ClockInv
<1> SUFFICES ASSUME NEW u \in Threads, NEW i \in DOMAIN open'[u],
                    IsWith(open'[u][i]), open'[u][i].local
             PROVE  Alone(u, i)'
  BY DEF LocalInv
\* A block that was there: no other thread is in one.
<1>a. ASSUME i \in DOMAIN open[u], IsWith(open[u][i]), open[u][i].local,
             NEW t \in Threads, pc[t] # "body" \/ InBody(t, "with")
      PROVE  Alone(u, i) /\ t = u
  <2>1. Alone(u, i)
    BY <1>a DEF LocalInv
  <2>2. Busy(t)
    BY <1>a, PointsAreInBlocks, InBlock
  <2> QED
    BY <2>1, <2>2 DEF Alone
\* It is no longer the innermost one, or its thread is in its body.
<1>b. ASSUME Alone(u, i), ~Entering(u, i), start' = start, i \in DOMAIN open[u],
             open'[u][i].began = open[u][i].began,
             \A x \in Threads \ {u} : Busy(x)' => Busy(x),
             i = Len(open'[u]) => pc'[u] # "emit" /\ event'[u] = Nothing
      PROVE  Alone(u, i)'
  BY <1>b DEF Alone
<1>1. ASSUME NEW t \in Threads, Enter(t) PROVE Alone(u, i)'
  <2>0. Push(t) /\ pc[t] = "body" /\ pc'[t] = "enter" /\ event'[t] = Nothing /\ start' = start
    BY <1>0, <1>1 DEF Enter, Begin, TypeOK, ClockInv
  <2>1. u = t
    BY <1>0, <2>0, EnterStacks
  <2>2. \A x \in Threads \ {t} : Busy(x)' => Busy(x)
    <3>1. ASSUME NEW x \in Threads \ {t}
          PROVE  /\ DOMAIN open'[x] = DOMAIN open[x]
                 /\ \A j \in DOMAIN open[x] : open'[x][j].kind = open[x][j].kind
      BY <1>0, <2>0, EnterStacks
    <3> QED
      BY <3>1 DEF Busy
  <2>3. /\ Len(open'[t]) = Len(open[t]) + 1 /\ Len(open[t]) \in Nat
        /\ DOMAIN open'[t] = 1..(Len(open[t]) + 1) /\ DOMAIN open[t] = 1..Len(open[t])
    BY <1>0, <2>0, EnterStacks
  <2>4. CASE i = Len(open[t]) + 1
    <3>1. \A x \in Threads \ {t} : ~Busy(x)
      BY <1>0, <2>0, <2>1, <2>4, EnterStacks DEF Innermost
    <3>2. Entering(t, i)'
      BY <2>0, <2>3, <2>4 DEF Entering
    <3> QED
      BY <2>0, <2>1, <2>2, <3>1, <3>2 DEF Alone
  <2>5. CASE i \in DOMAIN open[t]
    <3>1. /\ IsWith(open[t][i]) /\ open[t][i].local
          /\ open'[t][i].began = open[t][i].began
      BY <1>0, <2>0, <2>1, <2>5, EnterStacks
    <3>2. Alone(u, i)
      BY <2>1, <2>5, <3>1 DEF LocalInv
    <3>3. ~Entering(u, i)
      BY <2>0, <2>1 DEF Entering
    <3> QED
      BY <1>b, <2>0, <2>1, <2>2, <2>5, <3>1, <3>2, <3>3
  <2> QED
    BY <2>1, <2>3, <2>4, <2>5
<1>2. ASSUME NEW t \in Threads, Start(t) PROVE Alone(u, i)'
  <2>0. /\ open[t] # << >> /\ UNCHANGED <<open, event>> /\ pc[t] = "enter"
        /\ pc'[t] = "body" /\ start' = Innermost(t).began /\ event[t] = Nothing
    BY <1>0, <1>2, PointsAreInBlocks DEF Start, TypeOK, ClockInv
  <2>1. Alone(u, i) /\ t = u
    BY <1>a, <2>0
  <2>2. open[t][i].began <= start'
    BY <1>0, <2>0, <2>1, InnermostType DEF ClockInv, Innermost
  <2> QED
    BY <2>0, <2>1, <2>2 DEF Alone, Busy
<1>3. ASSUME NEW t \in Threads, Exit(t) PROVE Alone(u, i)'
  <2>0. /\ UNCHANGED <<open, start, event>> /\ pc[t] = "body"
        /\ InBody(t, "with") /\ event[t] = Nothing
        /\ pc'[t] = IF start # Nothing THEN "emit" ELSE "reset"
    BY <1>0, <1>3 DEF Exit, InBody, TypeOK, ClockInv
  <2>1. Alone(u, i) /\ t = u
    BY <1>a, <2>0
  <2> QED
    BY <2>0, <2>1 DEF Alone, Busy, Entering
<1>4. ASSUME NEW t \in Threads, EmitDuration(t) PROVE Alone(u, i)'
  <2>0. open[t] # << >> /\ pc[t] = "emit"
    BY <1>0, <1>4, PointsAreInBlocks DEF EmitDuration
  <2>1. CASE Reports(t)
    <3>1. /\ event' = [event EXCEPT ![t] = Emitted(t, start)] /\ start # Nothing
          /\ pc'[t] = "reset" /\ UNCHANGED <<start, open>>
      BY <1>0, <1>4, <2>1, EmitEnds DEF Reports, TypeOK
    <3>2. Alone(u, i) /\ t = u
      BY <1>a, <2>0, <3>1
    <3>3. open[t][i].began <= start
      BY <2>0, <3>1, <3>2 DEF Alone, Entering
    <3>4. /\ Emitted(t, start).duration = clock - start
          /\ Emitted(t, start).elapsed = clock - Innermost(t).began
      BY <1>0, <2>0, <3>1, InnermostType, Emission DEF ClockInv, TypeOK
    <3>5. i = Len(open[t]) => event'[t].duration <= event'[t].elapsed
      <4>1. event'[t] = Emitted(t, start)
        BY <1>0, <3>1 DEF TypeOK
      <4>2. start \in Int /\ clock \in Int /\ Innermost(t).began \in Int
        BY <1>0, <2>0, <3>1, InnermostType DEF TypeOK
      <4> QED
        BY <3>3, <3>4, <4>1, <4>2 DEF Innermost
    <3> QED
      BY <3>1, <3>2, <3>3, <3>5 DEF Alone, Busy
  <2>2. ASSUME NEW end \in Ends, Fails(t, end) PROVE Alone(u, i)'
    <3>1. Leave(t, Nothing, end) /\ start' = start
      BY <1>4, <2>2, EmitEnds DEF Fails
    <3>2. i \in DOMAIN open[u] /\ open'[u][i] = open[u][i]
      BY <1>0, <2>0, <3>1, LeftUses
    <3>3. Alone(u, i) /\ t = u
      BY <1>a, <2>0, <3>2
    <3>4. pc'[t] = "body" /\ event'[t] = Nothing
      BY <1>0, <3>1 DEF Leave, TypeOK
    <3>5. \A x \in Threads \ {u} : Busy(x)' => Busy(x)
      BY <1>0, <2>0, <3>1, <3>3, LeaveStacks DEF Busy
    <3>6. ~Entering(u, i)
      BY <2>0, <3>3 DEF Entering
    <3> QED
      BY <1>b, <3>1, <3>2, <3>3, <3>4, <3>5, <3>6
  <2> QED
    BY <1>4, <2>1, <2>2, EmitEnds
<1>5. ASSUME NEW t \in Threads, Reset(t) PROVE Alone(u, i)'
  <2>0. open[t] # << >> /\ pc[t] = "reset" /\ Leave(t, event[t], "plain") /\ start' = Nothing
    BY <1>0, <1>5, PointsAreInBlocks DEF Reset
  <2>1. i \in DOMAIN open[u] /\ open'[u][i] = open[u][i]
    BY <1>0, <2>0, LeftUses
  <2>2. Alone(u, i) /\ t = u
    BY <1>a, <2>0, <2>1
  <2>3. pc'[t] = "body" /\ event'[t] = Nothing
    BY <1>0, <2>0 DEF Leave, TypeOK
  <2>4. \A x \in Threads \ {u} : Busy(x)' => Busy(x)
    BY <1>0, <2>0, <2>2, LeaveStacks DEF Busy
  <2> QED
    BY <2>0, <2>2, <2>3, <2>4 DEF Alone
<1>6. ASSUME NEW t \in Threads, Call(t) PROVE Alone(u, i)'
  <2>0. pc[t] = "body" /\ UNCHANGED <<start, pc, event>> /\ event[t] = Nothing
    BY <1>0, <1>6 DEF Call, Begin, ClockInv
  <2>1. i \in DOMAIN open[u] /\ open'[u][i] = open[u][i]
    BY <1>0, <1>6, CallStacks DEF Innermost
  <2>2. Alone(u, i)
    BY <2>1 DEF LocalInv
  <2>3. \A x \in Threads : Busy(x)' => Busy(x)
    BY <1>0, <1>6, CallStacks, SMTT(30) DEF Innermost, Busy
  <2>4. CASE u = t
    BY <1>b, <2>0, <2>1, <2>2, <2>3, <2>4 DEF Entering
  <2>5. CASE u # t
    <3>1. open'[u] = open[u]
      BY <1>0, <1>6, <2>5, CallStacks
    <3> QED
      BY <2>0, <2>2, <2>3, <3>1 DEF Alone, Entering
  <2> QED
    BY <2>4, <2>5
<1>7. ASSUME NEW t \in Threads, Return(t) PROVE Alone(u, i)'
  <2>0. /\ open[t] # << >> /\ pc[t] = "body" /\ start' = start
        /\ \E e, end : Leave(t, e, end)
    BY <1>7, ReturnEnds
  <2>1. i \in DOMAIN open[u] /\ open'[u][i] = open[u][i]
    BY <1>0, <2>0, LeftUses
  <2>2. Alone(u, i)
    BY <2>1 DEF LocalInv
  <2>3. \A x \in Threads : Busy(x)' => Busy(x)
    BY <1>0, <2>0, LeaveStacks, ZenonT(30) DEF Busy
  <2>4. /\ pc' = pc /\ event'[t] = Nothing
        /\ \A x \in Threads \ {t} : event'[x] = event[x]
    BY <1>0, <2>0 DEF Leave, TypeOK
  <2>5. CASE u = t
    BY <1>b, <2>0, <2>1, <2>2, <2>3, <2>4, <2>5 DEF Entering
  <2>6. CASE u # t
    <3>1. open'[u] = open[u]
      BY <1>0, <2>0, <2>6, LeaveStacks
    <3> QED
      BY <2>0, <2>2, <2>3, <2>4, <2>6, <3>1 DEF Alone, Entering
  <2> QED
    BY <2>5, <2>6
<1>8. CASE Tick \/ Finished \/ UNCHANGED vars
  BY <1>8 DEF Tick, Finished, vars, LocalInv, Alone, Entering, Busy
<1> QED
  BY <1>1, <1>2, <1>3, <1>4, <1>5, <1>6, <1>7, <1>8 DEF Next

-----------------------------------------------------------------------------
(* What is reported.                                                        *)

ReportInv == OwnUsesReport /\ NeverTooLong /\ RaisesOnlyAcrossThreads

\* A use that is over reports e.
LEMMA ReportLeave ==
  ASSUME TypeOK, ReportInv, NEW t \in Threads, NEW e, NEW end \in Ends,
         Leave(t, e, end), log' = log,
         Innermost(t).own =>
           \/ end = "plain" /\ e # Nothing /\ e.duration = e.elapsed
           \/ end = "log raised" /\ e = Nothing /\ "raised" \in log,
         e # Nothing /\ Innermost(t).local => e.duration <= e.elapsed,
         end # "plain" /\ Innermost(t).local => end = "log raised" /\ "raised" \in log
  PROVE  ReportInv'
<1> DEFINE r == [event |-> e, use |-> Innermost(t), end |-> end]
<1>1. report'[t] = r /\ \A u \in Threads \ {t} : report'[u] = report[u]
  BY DEF Leave, TypeOK
<1>2. r.event = e /\ r.use = Innermost(t) /\ r.end = end
  OBVIOUS
<1> HIDE DEF r
<1>3. OwnUsesReport'
  BY <1>1, <1>2 DEF ReportInv, OwnUsesReport, Left
<1>4. NeverTooLong'
  BY <1>1, <1>2 DEF ReportInv, NeverTooLong, Left
<1>5. RaisesOnlyAcrossThreads'
  BY <1>1, <1>2 DEF ReportInv, RaisesOnlyAcrossThreads, Left
<1> QED
  BY <1>3, <1>4, <1>5 DEF ReportInv

LEMMA ReportStep ==
  ASSUME ClockInv, OwnInv, LocalInv, ReportInv, [Next]_vars
  PROVE  ReportInv'
<1>0. TypeOK
  BY DEF ClockInv
\* The innermost block of a thread.
<1>a. ASSUME NEW t \in Threads, pc[t] # "body"
      PROVE  /\ open[t] # << >> /\ IsWith(Innermost(t))
             /\ Innermost(t).own => Sole(t, Len(open[t]))
             /\ Innermost(t).local => Alone(t, Len(open[t]))
  BY <1>a, PointsAreInBlocks, InBlock DEF OwnInv, LocalInv, Innermost
<1>1. ASSUME NEW t \in Threads, EmitDuration(t), NEW end \in Ends, Fails(t, end)
      PROVE  ReportInv'
  <2>1. Leave(t, Nothing, end) /\ pc[t] = "emit" /\ log' = log
    BY <1>1, EmitEnds DEF Fails
  <2>2. CASE end = "log raised"
    BY <1>0, <1>1, <2>1, <2>2, ReportLeave DEF Fails
  <2>3. CASE end = "slot empty" /\ start = Nothing
    <3>1. ~Innermost(t).own
      BY <1>a, <2>1, <2>3, InnermostType DEF Sole, Entering, Innermost
    <3>2. ~Innermost(t).local
      BY <1>a, <2>1, <2>3 DEF Alone
    <3> QED
      BY <1>0, <2>1, <3>1, <3>2, ReportLeave
  <2> QED
    BY <1>1, <2>2, <2>3 DEF Fails
<1>2. ASSUME NEW t \in Threads, Reset(t) PROVE ReportInv'
  <2>1. Leave(t, event[t], "plain") /\ pc[t] = "reset" /\ log' = log
    BY <1>2 DEF Reset
  <2>2. Innermost(t).own => event[t] # Nothing /\ event[t].duration = event[t].elapsed
    BY <1>a, <2>1 DEF Sole
  <2>3. event[t] # Nothing /\ Innermost(t).local => event[t].duration <= event[t].elapsed
    BY <1>a, <2>1 DEF Alone
  <2> QED
    BY <1>0, <2>1, <2>2, <2>3, ReportLeave DEF Ends
<1>3. ASSUME NEW t \in Threads, Return(t) PROVE ReportInv'
  <2> DEFINE e == Emitted(t, Innermost(t).began)
  <2>1. open[t] # << >> /\ log' = log
        /\ (Leave(t, e, "plain") \/ ("raised" \in log /\ Leave(t, Nothing, "log raised")))
    BY <1>3, ReturnEnds
  <2>2. e # Nothing /\ e.duration = e.elapsed /\ e.duration \in Int
    <3>1. clock \in Times /\ Innermost(t).began \in Times /\ Innermost(t).began <= clock
      BY <1>0, <2>1, InnermostType DEF TypeOK
    <3> QED
      BY <3>1, Emission
  <2> HIDE DEF e
  <2>3. e.duration <= e.elapsed
    BY <2>2
  <2>4. CASE Leave(t, e, "plain")
    BY <1>0, <2>1, <2>2, <2>3, <2>4, ReportLeave DEF Ends
  <2>5. CASE "raised" \in log /\ Leave(t, Nothing, "log raised")
    BY <1>0, <2>1, <2>5, ReportLeave DEF Ends
  <2> QED
    BY <2>1, <2>4, <2>5
<1>4. CASE UNCHANGED <<log, report>>
  BY <1>4 DEF ReportInv, OwnUsesReport, NeverTooLong, RaisesOnlyAcrossThreads, Left
<1>5. ASSUME NEW t \in Threads, Start(t) \/ Exit(t) PROVE UNCHANGED <<log, report>>
  BY <1>5 DEF Start, Exit
<1>8. ASSUME NEW t \in Threads, Enter(t) \/ Call(t) PROVE ReportInv'
  <2>1. log' = log /\ report' = [report EXCEPT ![t] = Nothing] /\ TypeOK
    BY <1>0, <1>8 DEF Enter, Call, Begin
  <2>2. \A u \in Threads : Left(u)' => Left(u) /\ report'[u] = report[u]
    BY <2>1 DEF Left, TypeOK
  <2> QED
    BY <1>0, <2>1, <2>2 DEF ReportInv, OwnUsesReport, NeverTooLong, RaisesOnlyAcrossThreads
<1>6. ASSUME NEW t \in Threads, EmitDuration(t), Reports(t) PROVE UNCHANGED <<log, report>>
  BY <1>6, EmitEnds DEF Reports
<1>7. ASSUME Tick \/ Finished \/ UNCHANGED vars PROVE UNCHANGED <<log, report>>
  BY <1>7 DEF Tick, Finished, vars
<1> QED
  BY <1>1, <1>2, <1>3, <1>4, <1>5, <1>6, <1>7, <1>8, EmitEnds DEF Next

LEMMA ReportHolds == Spec => [](OwnInv /\ LocalInv /\ ReportInv)
<1>1. Init => OwnInv /\ LocalInv /\ ReportInv
  <2> SUFFICES ASSUME Init PROVE OwnInv /\ LocalInv /\ ReportInv
    OBVIOUS
  <2>1. DOMAIN << >> = {}
    BY EmptySeq, LenProperties
  <2>2. \A t \in Threads : open[t] = << >> /\ report[t] = Nothing
    BY DEF Init
  <2> QED
    BY <2>1, <2>2
       DEF OwnInv, LocalInv, ReportInv, OwnUsesReport, NeverTooLong,
           RaisesOnlyAcrossThreads, Left
<1>2. ClockInv /\ OwnInv /\ LocalInv /\ ReportInv /\ [Next]_vars
        => OwnInv' /\ LocalInv' /\ ReportInv'
  BY OwnStep, LocalStep, ReportStep
<1> QED
  BY <1>1, <1>2, ClockHolds, PTL DEF Spec

\* A decorated call, and a block that no other block of the object overlaps,
\* either reports one duration, exactly its own, or ends with what logger.log
\* raised and reports none: no earlier use, not even one whose report raised
\* and left the slot full, can reach it.
THEOREM OwnUsesAreExact == Spec => []OwnUsesReport
<1>1. ReportInv => OwnUsesReport
  BY DEF ReportInv
<1> QED
  BY <1>1, ReportHolds, PTL

\* Nesting blocks in one thread makes durations too short, never too long.
THEOREM NestingOnlyShortens == Spec => []NeverTooLong
<1>1. ReportInv => NeverTooLong
  BY DEF ReportInv
<1> QED
  BY <1>1, ReportHolds, PTL

\* What logger.log itself raises aside, a use raises only if it is a block that
\* blocks of another thread overlapped: only then can the subtraction in
\* __exit__ meet an empty slot.
THEOREM RaisesTakeTwoThreads == Spec => []RaisesOnlyAcrossThreads
<1>1. ReportInv => RaisesOnlyAcrossThreads
  BY DEF ReportInv
<1> QED
  BY <1>1, ReportHolds, PTL
=============================================================================
