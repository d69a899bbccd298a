------------------------- MODULE NestedCallsProofs -------------------------
(***************************************************************************)
(* Proofs about NestedCalls, for any number of threads, processes, keys    *)
(* and calls and any depth: a key is computed in one call at a time, no    *)
(* thread is stuck where the ways of asking never lead round, and a stuck  *)
(* thread stays stuck.                                                     *)
(***************************************************************************)
EXTENDS NestedCalls, SequenceTheorems, TLAPS

-----------------------------------------------------------------------------
(* The inductive invariant.                                                 *)

\* Under a call there are only factories that asked for it.
Stacked ==
  \A c \in Callers : \A i \in DOMAIN frames[c] : i # Len(frames[c]) =>
    /\ frames[c][i].at = "factory"
    /\ <<frames[c][i].key, frames[c][i + 1].key>> \in asks

\* A call that does not wait has the lock of its key, and no other call of its
\* thread has.
FramesOwn ==
  \A c \in Callers : \A i \in DOMAIN frames[c] : frames[c][i].at # "wait" =>
    /\ owner[frames[c][i].key] = c
    /\ \A j \in DOMAIN frames[c] :
         frames[c][j].key = frames[c][i].key /\ frames[c][j].at # "wait" => j = i

\* A lock that is taken was taken by a call that is still under way.
OwnersCall ==
  \A k \in Keys : owner[k] # None =>
    \E i \in DOMAIN frames[owner[k]] :
      frames[owner[k]][i].key = k /\ frames[owner[k]][i].at # "wait"

NestedInv == TypeOK /\ Stacked /\ FramesOwn /\ OwnersCall

-----------------------------------------------------------------------------
(* What the operators on frames do.                                         *)

FramesType == frames \in [Callers -> Seq(Frame)]

\* The innermost call is a frame at the end of a sequence.
LEMMA TopFrame ==
  ASSUME FramesType, NEW c \in Callers, InCall(c)
  PROVE  /\ Len(frames[c]) \in Nat \ {0}
         /\ DOMAIN frames[c] = 1..Len(frames[c])
         /\ Len(frames[c]) \in DOMAIN frames[c]
         /\ Top(c) = frames[c][Len(frames[c])]
         /\ Top(c) \in Frame
<1>1. frames[c] \in Seq(Frame) /\ frames[c] # << >>
  BY DEF FramesType, InCall
<1>2. Len(frames[c]) \in Nat /\ Len(frames[c]) # 0 /\ DOMAIN frames[c] = 1..Len(frames[c])
  BY <1>1, EmptySeq, LenProperties
<1> QED
  BY <1>1, <1>2, ElementOfSeq DEF Top

\* Every frame is one.
LEMMA FrameOf ==
  ASSUME FramesType, NEW c \in Callers, NEW i \in DOMAIN frames[c]
  PROVE  frames[c][i] \in Frame /\ frames[c][i].key \in Keys
<1>1. frames[c] \in Seq(Frame) /\ i \in 1..Len(frames[c])
  BY LenProperties DEF FramesType
<1>2. frames[c][i] \in Frame
  BY <1>1, ElementOfSeq
<1> QED
  BY <1>2 DEF Frame

\* Push adds a frame.
LEMMA PushFrames ==
  ASSUME FramesType, NEW c \in Callers, NEW f \in Frame, Push(c, f)
  PROVE  /\ FramesType'
         /\ \A d \in Callers \ {c} : frames'[d] = frames[d]
         /\ Len(frames[c]) \in Nat /\ Len(frames'[c]) = Len(frames[c]) + 1
         /\ DOMAIN frames[c] = 1..Len(frames[c])
         /\ DOMAIN frames'[c] = 1..(Len(frames[c]) + 1)
         /\ \A i \in 1..Len(frames[c]) : frames'[c][i] = frames[c][i]
         /\ frames'[c][Len(frames[c]) + 1] = f
<1>1. frames[c] \in Seq(Frame)
  BY DEF FramesType
<1>2. frames'[c] = Append(frames[c], f)
  BY DEF FramesType, Push
<1>3. /\ Append(frames[c], f) \in Seq(Frame)
      /\ Len(Append(frames[c], f)) = Len(frames[c]) + 1
      /\ \A i \in 1..Len(frames[c]) : Append(frames[c], f)[i] = frames[c][i]
      /\ Append(frames[c], f)[Len(frames[c]) + 1] = f
  BY <1>1, AppendProperties
<1>4. FramesType' /\ \A d \in Callers \ {c} : frames'[d] = frames[d]
  BY <1>2, <1>3 DEF FramesType, Push
<1>5. Len(frames[c]) \in Nat /\ DOMAIN frames[c] = 1..Len(frames[c])
  BY <1>1, LenProperties
<1>6. DOMAIN frames'[c] = 1..Len(frames'[c])
  BY <1>2, <1>3, LenProperties
<1> QED
  BY <1>2, <1>3, <1>4, <1>5, <1>6

\* Goto moves the innermost call.
LEMMA GotoFrames ==
  ASSUME FramesType, NEW c \in Callers, InCall(c),
         NEW l \in {"wait", "factory", "leave"}, Goto(c, l)
  PROVE  /\ FramesType'
         /\ \A d \in Callers \ {c} : frames'[d] = frames[d]
         /\ Len(frames'[c]) = Len(frames[c])
         /\ DOMAIN frames'[c] = DOMAIN frames[c]
         /\ \A i \in DOMAIN frames[c] \ {Len(frames[c])} : frames'[c][i] = frames[c][i]
         /\ frames'[c][Len(frames[c])] = [Top(c) EXCEPT !.at = l]
<1>1. /\ Len(frames[c]) \in Nat \ {0} /\ DOMAIN frames[c] = 1..Len(frames[c])
      /\ Len(frames[c]) \in DOMAIN frames[c]
      /\ Top(c) = frames[c][Len(frames[c])] /\ Top(c) \in Frame
  BY TopFrame
<1> DEFINE s == [frames[c] EXCEPT ![Len(frames[c])].at = l]
<1>2. frames'[c] = s /\ \A d \in Callers \ {c} : frames'[d] = frames[d]
  BY DEF FramesType, Goto
<1>3. [Top(c) EXCEPT !.at = l] \in Frame
  BY <1>1 DEF Frame
<1>4. /\ s \in Seq(Frame) /\ Len(s) = Len(frames[c])
      /\ s = [frames[c] EXCEPT ![Len(frames[c])] = [Top(c) EXCEPT !.at = l]]
  <2>1. s = [frames[c] EXCEPT ![Len(frames[c])] = [Top(c) EXCEPT !.at = l]]
    BY <1>1
  <2>2. frames[c] \in Seq(Frame)
    BY DEF FramesType
  <2> QED
    BY <1>1, <1>3, <2>1, <2>2, ExceptSeq
<1>5. FramesType'
  BY <1>2, <1>4 DEF FramesType, Goto
<1> QED
  BY <1>1, <1>2, <1>4, <1>5

\* Pop removes the innermost call.
LEMMA PopFrames ==
  ASSUME FramesType, NEW c \in Callers, InCall(c), Pop(c)
  PROVE  /\ FramesType'
         /\ \A d \in Callers \ {c} : frames'[d] = frames[d]
         /\ Len(frames'[c]) = Len(frames[c]) - 1
         /\ DOMAIN frames'[c] = DOMAIN frames[c] \ {Len(frames[c])}
         /\ \A i \in DOMAIN frames'[c] : frames'[c][i] = frames[c][i]
<1>1. /\ Len(frames[c]) \in Nat \ {0} /\ DOMAIN frames[c] = 1..Len(frames[c])
  BY TopFrame
<1>2. frames[c] \in Seq(Frame)
  BY DEF FramesType
<1> DEFINE s == SubSeq(frames[c], 1, Len(frames[c]) - 1)
<1>3. frames'[c] = s /\ \A d \in Callers \ {c} : frames'[d] = frames[d]
  BY DEF FramesType, Pop
<1>4. /\ s \in Seq(Frame) /\ Len(s) = Len(frames[c]) - 1
      /\ \A i \in 1..(Len(frames[c]) - 1) : s[i] = frames[c][i]
  BY <1>1, <1>2, SubSeqProperties
<1>5. DOMAIN s = 1..(Len(frames[c]) - 1)
  BY <1>4, LenProperties
<1>6. FramesType'
  BY <1>3, <1>4 DEF FramesType, Pop
<1> QED
  BY <1>1, <1>3, <1>4, <1>5, <1>6

-----------------------------------------------------------------------------
(* Every step keeps the invariant.                                          *)

\* A call adds a frame that waits, under which a factory asked for its key.
LEMMA CallKeeps ==
  ASSUME NestedInv, NEW c \in Callers, NEW k \in Keys, Call(c, k)
  PROVE  NestedInv'
<1>1. FramesType
  BY DEF NestedInv, TypeOK, FramesType
<1>2. calls' \in [Callers -> 0..MaxCalls]
  BY NestedAssumption DEF NestedInv, TypeOK, Call
<1>3. CASE UNCHANGED frames
  BY <1>2, <1>3 DEF NestedInv, TypeOK, Stacked, FramesOwn, OwnersCall, Call
<1>4. CASE Push(c, [key |-> k, at |-> "wait"])
  <2> DEFINE n == Len(frames[c])
             f == [key |-> k, at |-> "wait"]
  <2>1. f \in Frame
    BY DEF Frame
  <2>2. /\ FramesType'
        /\ \A d \in Callers \ {c} : frames'[d] = frames[d]
        /\ n \in Nat /\ Len(frames'[c]) = n + 1
        /\ DOMAIN frames[c] = 1..n
        /\ DOMAIN frames'[c] = 1..(n + 1)
        /\ \A i \in 1..n : frames'[c][i] = frames[c][i]
        /\ frames'[c][n + 1] = f
    BY <1>1, <1>4, <2>1, PushFrames
  <2>3. TypeOK'
    BY <1>2, <2>2 DEF NestedInv, TypeOK, FramesType, Call
  <2>4. Stacked'
    <3>1. SUFFICES ASSUME NEW d \in Callers, NEW i \in DOMAIN frames'[d], i # Len(frames'[d])
                   PROVE  /\ frames'[d][i].at = "factory"
                          /\ <<frames'[d][i].key, frames'[d][i + 1].key>> \in asks
      BY DEF Stacked, Call
    <3>2. CASE d # c
      BY <2>2, <3>1, <3>2 DEF NestedInv, Stacked
    <3>3. CASE d = c /\ i # n
      <4>1. i \in 1..n /\ i + 1 \in 1..n
        BY <2>2, <3>1, <3>3
      <4>2. frames'[c][i] = frames[c][i] /\ frames'[c][i + 1] = frames[c][i + 1]
        BY <2>2, <4>1
      <4> QED
        BY <2>2, <3>3, <4>1, <4>2 DEF NestedInv, Stacked
    <3>4. CASE d = c /\ i = n
      <4>1. InCall(c)
        BY <2>2, <3>1, <3>4, EmptySeq DEF InCall
      <4>2. Top(c).at = "factory" /\ <<Top(c).key, k>> \in asks
        BY <4>1 DEF Call, At
      <4> QED
        BY <2>2, <3>1, <3>4, <4>2 DEF Top
    <3> QED
      BY <3>2, <3>3, <3>4
  <2>5. FramesOwn'
    <3>1. \A d \in Callers : \A i \in DOMAIN frames'[d] : frames'[d][i].at # "wait" =>
             i \in DOMAIN frames[d] /\ frames'[d][i] = frames[d][i]
      BY <2>2
    <3>2. SUFFICES ASSUME NEW d \in Callers, NEW i \in DOMAIN frames'[d], frames'[d][i].at # "wait"
                   PROVE  /\ owner[frames'[d][i].key] = d
                          /\ \A j \in DOMAIN frames'[d] :
                               frames'[d][j].key = frames'[d][i].key /\ frames'[d][j].at # "wait" => j = i
      BY DEF FramesOwn, Call
    <3> QED
      BY <3>1, <3>2 DEF NestedInv, FramesOwn
  <2>6. OwnersCall'
    <3>1. \A d \in Callers : \A i \in DOMAIN frames[d] :
             i \in DOMAIN frames'[d] /\ frames'[d][i] = frames[d][i]
      BY <2>2
    <3>2. \A j \in Keys : owner[j] # None => owner[j] \in Callers
      BY DEF NestedInv, TypeOK
    <3> QED
      BY <3>1, <3>2 DEF NestedInv, OwnersCall, Call
  <2> QED
    BY <2>3, <2>4, <2>5, <2>6 DEF NestedInv
<1> QED
  BY <1>3, <1>4 DEF Call

\* The innermost call takes the free lock: it is the one call of any thread
\* that has it.
LEMMA AcquireKeeps ==
  ASSUME NestedInv, NEW c \in Callers, Acquire(c)
  PROVE  NestedInv'
<1> DEFINE n == Len(frames[c])
           k == Top(c).key
           l == IF Top(c).key \in cached THEN "leave" ELSE "factory"
<1>1. FramesType /\ InCall(c) /\ Top(c).at = "wait"
  BY DEF NestedInv, TypeOK, FramesType, Acquire, At
<1>2. /\ n \in Nat \ {0} /\ DOMAIN frames[c] = 1..n /\ n \in DOMAIN frames[c]
      /\ Top(c) = frames[c][n] /\ Top(c) \in Frame
  BY <1>1, TopFrame
<1>3. l \in {"wait", "factory", "leave"} /\ l # "wait" /\ Goto(c, l)
  BY DEF Acquire
<1>4. /\ FramesType'
      /\ \A d \in Callers \ {c} : frames'[d] = frames[d]
      /\ Len(frames'[c]) = n
      /\ DOMAIN frames'[c] = DOMAIN frames[c]
      /\ \A i \in DOMAIN frames[c] \ {n} : frames'[c][i] = frames[c][i]
      /\ frames'[c][n] = [Top(c) EXCEPT !.at = l]
  BY <1>1, <1>3, GotoFrames
<1>5. frames'[c][n].key = k /\ frames'[c][n].at = l /\ k \in Keys
  BY <1>2, <1>4 DEF Frame
<1>6. owner[k] = None /\ owner' = [owner EXCEPT ![k] = c]
  BY DEF Acquire
<1>7. TypeOK'
  BY <1>4, <1>5, <1>6 DEF NestedInv, TypeOK, FramesType, Acquire
<1>8. Stacked'
  <2>1. SUFFICES ASSUME NEW d \in Callers, NEW i \in DOMAIN frames'[d], i # Len(frames'[d])
                 PROVE  /\ frames'[d][i].at = "factory"
                        /\ <<frames'[d][i].key, frames'[d][i + 1].key>> \in asks
    BY DEF Stacked, Acquire
  <2>2. CASE d # c
    BY <1>4, <2>1, <2>2 DEF NestedInv, Stacked
  <2>3. CASE d = c
    <3>0. i \in 1..n /\ i # n /\ i + 1 \in 1..n
      BY <1>2, <1>4, <2>1, <2>3
    <3>1. i + 1 \in DOMAIN frames[c] /\ frames'[c][i + 1].key = frames[c][i + 1].key
      BY <1>2, <1>4, <1>5, <3>0
    <3> QED
      BY <1>4, <2>1, <2>3, <3>1 DEF NestedInv, Stacked
  <2> QED
    BY <2>2, <2>3
<1>9. \A d \in Callers : \A i \in DOMAIN frames[d] :
         frames[d][i].at # "wait" => frames[d][i].key # k
  BY <1>6, NestedAssumption DEF NestedInv, FramesOwn
<1>10. FramesOwn'
  <2>1. SUFFICES ASSUME NEW d \in Callers, NEW i \in DOMAIN frames'[d],
                        frames'[d][i].at # "wait"
                 PROVE  /\ owner'[frames'[d][i].key] = d
                        /\ \A j \in DOMAIN frames'[d] :
                             frames'[d][j].key = frames'[d][i].key /\ frames'[d][j].at # "wait" => j = i
    BY DEF FramesOwn
  <2>2. CASE d # c
    <3>1. frames'[d] = frames[d] /\ frames[d][i].key # k
      BY <1>4, <1>9, <2>1, <2>2
    <3>2. frames[d][i].key \in Keys
      BY <1>1, <2>1, <3>1, FrameOf
    <3> QED
      BY <1>6, <2>1, <3>1, <3>2 DEF NestedInv, TypeOK, FramesOwn
  <2>3. CASE d = c /\ i = n
    <3>1. \A j \in DOMAIN frames[c] \ {n} : frames'[c][j].at # "wait" => frames'[c][j].key # k
      BY <1>4, <1>9
    <3> QED
      BY <1>4, <1>5, <1>6, <2>3, <3>1 DEF NestedInv, TypeOK
  <2>4. CASE d = c /\ i # n
    <3>1. i \in DOMAIN frames[c] /\ frames'[c][i] = frames[c][i] /\ frames[c][i].key # k
      BY <1>4, <1>9, <2>1, <2>4
    <3>2. frames[c][i].key \in Keys
      BY <1>1, <3>1, FrameOf
    <3>3. \A j \in DOMAIN frames'[c] :
             frames'[c][j].key = frames[c][i].key => frames'[c][j] = frames[c][j]
      BY <1>4, <1>5, <3>1
    <3> QED
      BY <1>4, <1>6, <2>1, <2>4, <3>1, <3>2, <3>3 DEF NestedInv, TypeOK, FramesOwn
  <2> QED
    BY <2>2, <2>3, <2>4
<1>11. OwnersCall'
  <2>1. SUFFICES ASSUME NEW j \in Keys, owner'[j] # None
                 PROVE  \E i \in DOMAIN frames'[owner'[j]] :
                          frames'[owner'[j]][i].key = j /\ frames'[owner'[j]][i].at # "wait"
    BY DEF OwnersCall
  <2>2. CASE j = k
    BY <1>2, <1>3, <1>4, <1>5, <1>6, <2>2 DEF NestedInv, TypeOK
  <2>3. CASE j # k
    <3>1. owner'[j] = owner[j] /\ owner[j] \in Callers
      BY <1>6, <2>1, <2>3 DEF NestedInv, TypeOK
    <3>2. PICK i \in DOMAIN frames[owner[j]] :
             frames[owner[j]][i].key = j /\ frames[owner[j]][i].at # "wait"
      BY <2>1, <3>1 DEF NestedInv, OwnersCall
    <3>3. ~(owner[j] = c /\ i = n)
      BY <1>1, <1>2, <3>2
    <3> QED
      BY <1>4, <3>1, <3>2, <3>3
  <2> QED
    BY <2>2, <2>3
<1> QED
  BY <1>7, <1>8, <1>10, <1>11 DEF NestedInv

\* A factory that ends leaves every lock where it is.
LEMMA FactoryEndKeeps ==
  ASSUME NestedInv, NEW c \in Callers, At(c, "factory"), Goto(c, "leave"),
         cached' \in SUBSET Keys, UNCHANGED <<asks, owner, dead, calls>>
  PROVE  NestedInv'
<1> DEFINE n == Len(frames[c])
<1>1. FramesType /\ InCall(c) /\ Top(c).at = "factory"
  BY DEF NestedInv, TypeOK, FramesType, At
<1>2. /\ n \in Nat \ {0} /\ DOMAIN frames[c] = 1..n /\ n \in DOMAIN frames[c]
      /\ Top(c) = frames[c][n] /\ Top(c) \in Frame
  BY <1>1, TopFrame
<1>3. /\ FramesType'
      /\ \A d \in Callers \ {c} : frames'[d] = frames[d]
      /\ Len(frames'[c]) = n
      /\ DOMAIN frames'[c] = DOMAIN frames[c]
      /\ \A i \in DOMAIN frames[c] \ {n} : frames'[c][i] = frames[c][i]
      /\ frames'[c][n] = [Top(c) EXCEPT !.at = "leave"]
  BY <1>1, GotoFrames
<1>4. frames'[c][n].key = frames[c][n].key /\ frames'[c][n].at = "leave"
  BY <1>2, <1>3 DEF Frame
<1>5. \A d \in Callers : \A i \in DOMAIN frames[d] :
         /\ frames'[d][i].key = frames[d][i].key
         /\ frames'[d][i].at # "wait" <=> frames[d][i].at # "wait"
  BY <1>1, <1>2, <1>3, <1>4
<1>6. \A d \in Callers : DOMAIN frames'[d] = DOMAIN frames[d] /\ Len(frames'[d]) = Len(frames[d])
  BY <1>3
<1>7. TypeOK'
  BY <1>3 DEF NestedInv, TypeOK, FramesType
<1>8. Stacked'
  <2>1. SUFFICES ASSUME NEW d \in Callers, NEW i \in DOMAIN frames'[d], i # Len(frames'[d])
                 PROVE  /\ frames'[d][i].at = "factory"
                        /\ <<frames'[d][i].key, frames'[d][i + 1].key>> \in asks
    BY DEF Stacked
  <2>2. i \in DOMAIN frames[d] /\ i # Len(frames[d]) /\ i + 1 \in DOMAIN frames[d]
    <3>1. frames[d] \in Seq(Frame)
      BY <1>1 DEF FramesType
    <3>2. Len(frames[d]) \in Nat /\ DOMAIN frames[d] = 1..Len(frames[d])
      BY <3>1, LenProperties
    <3> QED
      BY <1>6, <2>1, <3>2
  <2>3. frames'[d][i] = frames[d][i]
    BY <1>3, <2>2
  <2> QED
    BY <1>5, <2>2, <2>3 DEF NestedInv, Stacked
<1>9. FramesOwn'
  <2>1. SUFFICES ASSUME NEW d \in Callers, NEW i \in DOMAIN frames'[d], frames'[d][i].at # "wait"
                 PROVE  /\ owner[frames'[d][i].key] = d
                        /\ \A j \in DOMAIN frames'[d] :
                             frames'[d][j].key = frames'[d][i].key /\ frames'[d][j].at # "wait" => j = i
    BY DEF FramesOwn
  <2> QED
    BY <1>5, <1>6, <2>1 DEF NestedInv, FramesOwn
<1>10. OwnersCall'
  <2>1. SUFFICES ASSUME NEW j \in Keys, owner[j] # None
                 PROVE  \E i \in DOMAIN frames'[owner[j]] :
                          frames'[owner[j]][i].key = j /\ frames'[owner[j]][i].at # "wait"
    BY DEF OwnersCall
  <2>2. owner[j] \in Callers
    BY <2>1 DEF NestedInv, TypeOK
  <2> QED
    BY <1>5, <1>6, <2>1, <2>2 DEF NestedInv, OwnersCall
<1> QED
  BY <1>7, <1>8, <1>9, <1>10 DEF NestedInv

\* The innermost call ends and gives back the lock, which no other call has.
LEMMA LeaveKeeps ==
  ASSUME NestedInv, NEW c \in Callers, Leave(c)
  PROVE  NestedInv'
<1> DEFINE n == Len(frames[c])
           k == Top(c).key
<1>1. FramesType /\ InCall(c) /\ Top(c).at = "leave"
  BY DEF NestedInv, TypeOK, FramesType, Leave, At
<1>2. /\ n \in Nat \ {0} /\ DOMAIN frames[c] = 1..n /\ n \in DOMAIN frames[c]
      /\ Top(c) = frames[c][n] /\ Top(c) \in Frame
  BY <1>1, TopFrame
<1>3. /\ FramesType'
      /\ \A d \in Callers \ {c} : frames'[d] = frames[d]
      /\ Len(frames'[c]) = n - 1
      /\ DOMAIN frames'[c] = DOMAIN frames[c] \ {n}
      /\ \A i \in DOMAIN frames'[c] : frames'[c][i] = frames[c][i]
  BY <1>1, PopFrames DEF Leave
<1>4. k \in Keys /\ owner' = [owner EXCEPT ![k] = None] /\ owner[k] = c
  BY <1>1, <1>2 DEF Leave, Frame, NestedInv, FramesOwn
<1>5. \A d \in Callers : \A i \in DOMAIN frames'[d] :
         /\ i \in DOMAIN frames[d] /\ frames'[d][i] = frames[d][i]
         /\ frames[d][i].at # "wait" => frames[d][i].key # k
  <2>1. SUFFICES ASSUME NEW d \in Callers, NEW i \in DOMAIN frames'[d]
                 PROVE  /\ i \in DOMAIN frames[d] /\ frames'[d][i] = frames[d][i]
                        /\ frames[d][i].at # "wait" => frames[d][i].key # k
    OBVIOUS
  <2>2. i \in DOMAIN frames[d] /\ frames'[d][i] = frames[d][i]
    BY <1>3, <2>1
  <2>3. ASSUME frames[d][i].at # "wait", frames[d][i].key = k PROVE FALSE
    <3>1. d = c
      BY <1>4, <2>2, <2>3 DEF NestedInv, FramesOwn
    <3>2. i = n
      BY <1>1, <1>2, <2>2, <2>3, <3>1 DEF NestedInv, FramesOwn
    <3> QED
      BY <1>3, <2>1, <3>1, <3>2
  <2> QED
    BY <2>2, <2>3
<1>6. TypeOK'
  BY <1>3, <1>4 DEF NestedInv, TypeOK, FramesType, Leave
<1>7. Stacked'
  <2>1. SUFFICES ASSUME NEW d \in Callers, NEW i \in DOMAIN frames'[d], i # Len(frames'[d])
                 PROVE  /\ frames'[d][i].at = "factory"
                        /\ <<frames'[d][i].key, frames'[d][i + 1].key>> \in asks
    BY DEF Stacked, Leave
  <2>2. CASE d # c
    BY <1>3, <2>1, <2>2 DEF NestedInv, Stacked
  <2>3. CASE d = c
    <3>1. i \in 1..n /\ i # n /\ i + 1 \in 1..n /\ i + 1 # n
      BY <1>2, <1>3, <2>1, <2>3
    <3>2. frames'[c][i] = frames[c][i] /\ frames'[c][i + 1] = frames[c][i + 1]
      BY <1>2, <1>3, <3>1
    <3> QED
      BY <1>2, <2>3, <3>1, <3>2 DEF NestedInv, Stacked
  <2> QED
    BY <2>2, <2>3
<1>8. FramesOwn'
  <2>1. SUFFICES ASSUME NEW d \in Callers, NEW i \in DOMAIN frames'[d], frames'[d][i].at # "wait"
                 PROVE  /\ owner'[frames'[d][i].key] = d
                        /\ \A j \in DOMAIN frames'[d] :
                             frames'[d][j].key = frames'[d][i].key /\ frames'[d][j].at # "wait" => j = i
    BY DEF FramesOwn
  <2>2. /\ i \in DOMAIN frames[d] /\ frames'[d][i] = frames[d][i]
        /\ frames[d][i].key # k /\ frames[d][i].key \in Keys
    BY <1>1, <1>5, <2>1, FrameOf
  <2>3. owner'[frames'[d][i].key] = d
    BY <1>4, <2>1, <2>2 DEF NestedInv, TypeOK, FramesOwn
  <2>4. \A j \in DOMAIN frames'[d] :
           frames'[d][j].key = frames'[d][i].key /\ frames'[d][j].at # "wait" => j = i
    BY <1>5, <2>1, <2>2 DEF NestedInv, FramesOwn
  <2> QED
    BY <2>3, <2>4
<1>9. OwnersCall'
  <2>1. SUFFICES ASSUME NEW j \in Keys, owner'[j] # None
                 PROVE  \E i \in DOMAIN frames'[owner'[j]] :
                          frames'[owner'[j]][i].key = j /\ frames'[owner'[j]][i].at # "wait"
    BY DEF OwnersCall
  <2>2. j # k /\ owner'[j] = owner[j] /\ owner[j] \in Callers
    BY <1>4, <2>1 DEF NestedInv, TypeOK
  <2>3. PICK i \in DOMAIN frames[owner[j]] :
           frames[owner[j]][i].key = j /\ frames[owner[j]][i].at # "wait"
    BY <2>1, <2>2 DEF NestedInv, OwnersCall
  <2>4. ~(owner[j] = c /\ i = n)
    BY <1>2, <2>2, <2>3
  <2>5. i \in DOMAIN frames'[owner[j]] /\ frames'[owner[j]][i] = frames[owner[j]][i]
    BY <1>3, <2>2, <2>3, <2>4
  <2> QED
    BY <2>2, <2>3, <2>5
<1> QED
  BY <1>6, <1>7, <1>8, <1>9 DEF NestedInv

-----------------------------------------------------------------------------
(* The theorems.                                                            *)

LEMMA InitNested == Init => NestedInv
<1>1. SUFFICES ASSUME Init PROVE NestedInv
  OBVIOUS
<1>2. \A c \in Callers : frames[c] = << >> /\ frames[c] \in Seq(Frame) /\ DOMAIN frames[c] = {}
  <2>1. << >> \in Seq(Frame) /\ DOMAIN << >> = {}
    OBVIOUS
  <2>2. \A c \in Callers : frames[c] = << >>
    BY <1>1 DEF Init
  <2> QED
    BY <2>1, <2>2
<1>3. frames \in [Callers -> Seq(Frame)]
  BY <1>1, <1>2 DEF Init
<1>4. TypeOK
  BY <1>1, <1>3, NestedAssumption DEF Init, TypeOK
<1>5. Stacked /\ FramesOwn
  BY <1>2 DEF Stacked, FramesOwn
<1>6. OwnersCall
  BY <1>1 DEF Init, OwnersCall
<1> QED
  BY <1>4, <1>5, <1>6 DEF NestedInv

LEMMA StepNested == NestedInv /\ [Next]_vars => NestedInv'
<1>1. SUFFICES ASSUME NestedInv, [Next]_vars PROVE NestedInv'
  OBVIOUS
<1>2. ASSUME NEW c \in Callers, NEW k \in Keys, Call(c, k) PROVE NestedInv'
  BY <1>1, <1>2, CallKeeps
<1>3. ASSUME NEW c \in Callers, Acquire(c) PROVE NestedInv'
  BY <1>1, <1>3, AcquireKeeps
<1>4. ASSUME NEW c \in Callers, Return(c) \/ Raise(c) PROVE NestedInv'
  <2>1. At(c, "factory") /\ Goto(c, "leave") /\ UNCHANGED <<asks, owner, dead, calls>>
    BY <1>4 DEF Return, Raise
  <2>2. Top(c).key \in Keys
    BY <1>1, <2>1, TopFrame DEF NestedInv, TypeOK, FramesType, At, Frame
  <2>3. cached' \in SUBSET Keys
    BY <1>1, <1>4, <2>2 DEF NestedInv, TypeOK, Return, Raise
  <2> QED
    BY <1>1, <2>1, <2>3, FactoryEndKeeps
<1>5. ASSUME NEW c \in Callers, Leave(c) PROVE NestedInv'
  BY <1>1, <1>5, LeaveKeeps
<1>6. ASSUME NEW k \in Keys, Forget(k) PROVE NestedInv'
  <2>1. cached' \subseteq cached /\ UNCHANGED <<asks, owner, frames, dead, calls>>
    BY <1>6 DEF Forget
  <2>2. TypeOK'
    BY <1>1, <2>1 DEF NestedInv, TypeOK
  <2> QED
    BY <1>1, <2>1, <2>2 DEF NestedInv, Stacked, FramesOwn, OwnersCall
<1>7. ASSUME NEW p \in Processes, Die(p) PROVE NestedInv'
  <2>1. dead' \in SUBSET Callers
    <3>1. p \subseteq Callers
      BY <1>7, NestedAssumption
    <3>2. dead \in SUBSET Callers /\ dead' = dead \cup p
      BY <1>1, <1>7 DEF Die, NestedInv, TypeOK
    <3> QED
      BY <3>1, <3>2
  <2>2. UNCHANGED <<asks, cached, owner, frames, calls>>
    BY <1>7 DEF Die
  <2>3. TypeOK'
    BY <1>1, <2>1, <2>2 DEF NestedInv, TypeOK
  <2> QED
    BY <1>1, <2>2, <2>3 DEF NestedInv, Stacked, FramesOwn, OwnersCall
<1>8. CASE Finished \/ UNCHANGED vars
  <2>1. UNCHANGED <<asks, cached, owner, frames, dead, calls>>
    BY <1>8 DEF Finished, vars
  <2>2. TypeOK'
    BY <1>1, <2>1 DEF NestedInv, TypeOK
  <2> QED
    BY <1>1, <2>1, <2>2 DEF NestedInv, Stacked, FramesOwn, OwnersCall
<1> QED
  BY <1>1, <1>2, <1>3, <1>4, <1>5, <1>6, <1>7, <1>8 DEF Next, Step

\* The invariant holds of every run.
THEOREM NestedInvariant == Spec => []NestedInv
BY InitNested, StepNested, PTL DEF Spec

\* Every variable keeps its type, whatever asks for what.
THEOREM NestedTypes == Spec => []TypeOK
<1>1. NestedInv => TypeOK
  BY DEF NestedInv
<1> QED
  BY <1>1, NestedInvariant, PTL

\* A key is computed in one call at a time, of all threads and of all the
\* calls nested in one: two calls that do not wait for a key are one.
THEOREM NestedExclusion == Spec => []OneCallPerKey
<1>1. NestedInv => OneCallPerKey
  BY DEF NestedInv, FramesOwn, OneCallPerKey
<1> QED
  BY <1>1, NestedInvariant, PTL

\* Where nobody died, the key a stuck thread waits for is the key of a factory
\* that asks for a key some thread of the knot is at: of any call of a thread
\* in a knot, another call of the knot is the next.
LEMMA KnotAsks ==
  ASSUME NestedInv, dead = {}, NEW S \in SUBSET Callers, Knot(S),
         NEW c \in S, NEW i \in DOMAIN frames[c]
  PROVE  \E d \in S : \E j \in DOMAIN frames[d] : <<frames[c][i].key, frames[d][j].key>> \in asks
<1>1. FramesType
  BY DEF NestedInv, TypeOK, FramesType
<1>2. \A e \in S : InCall(e) /\ Top(e).at = "wait" /\ owner[Top(e).key] \in S
  BY DEF Knot, Waits, At
<1>3. \A e \in S : /\ DOMAIN frames[e] = 1..Len(frames[e]) /\ Len(frames[e]) \in DOMAIN frames[e]
                   /\ Top(e) = frames[e][Len(frames[e])] /\ Len(frames[e]) \in Nat \ {0}
                   /\ Top(e).key \in Keys
  <2>1. SUFFICES ASSUME NEW e \in S
                 PROVE  /\ DOMAIN frames[e] = 1..Len(frames[e]) /\ Len(frames[e]) \in DOMAIN frames[e]
                        /\ Top(e) = frames[e][Len(frames[e])] /\ Len(frames[e]) \in Nat \ {0}
                        /\ Top(e).key \in Keys
    OBVIOUS
  <2>2. e \in Callers /\ InCall(e)
    BY <1>2
  <2> QED
    BY <1>1, <2>2, TopFrame DEF Frame
<1>4. ASSUME NEW e \in S, NEW m \in DOMAIN frames[e], m # Len(frames[e])
      PROVE  m + 1 \in DOMAIN frames[e] /\ <<frames[e][m].key, frames[e][m + 1].key>> \in asks
  BY <1>3, <1>4 DEF NestedInv, Stacked
<1>5. CASE i # Len(frames[c])
  BY <1>4, <1>5
<1>6. CASE i = Len(frames[c])
  <2> DEFINE k == Top(c).key
             d == owner[k]
  <2>1. k \in Keys /\ d \in S /\ d # None /\ k = frames[c][i].key
    BY <1>2, <1>3, <1>6, NestedAssumption
  <2>2. PICK m \in DOMAIN frames[d] : frames[d][m].key = k /\ frames[d][m].at # "wait"
    BY <2>1 DEF NestedInv, OwnersCall
  <2>3. m # Len(frames[d])
    BY <1>2, <1>3, <2>1, <2>2
  <2>4. m + 1 \in DOMAIN frames[d] /\ <<frames[d][m].key, frames[d][m + 1].key>> \in asks
    BY <1>4, <2>1, <2>3
  <2> QED
    BY <2>1, <2>2, <2>4
<1> QED
  BY <1>5, <1>6

\* The keys of all calls of a knot are a set of which each asks for another, so
\* there is no knot where asking never leads round and nobody died.
THEOREM NestedOrder == Spec => []OrderedNeverStuck
<1>1. NestedInv => OrderedNeverStuck
  <2>1. SUFFICES ASSUME NestedInv, Ordered, dead = {},
                        NEW e \in Callers, NEW S \in SUBSET Callers, e \in S, Knot(S)
                 PROVE  FALSE
    BY DEF OrderedNeverStuck, Stuck
  <2>2. FramesType
    BY <2>1 DEF NestedInv, TypeOK, FramesType
  <2> DEFINE T == {k \in Keys : \E c \in S : \E i \in DOMAIN frames[c] : frames[c][i].key = k}
  <2>3. \A c \in S : \A i \in DOMAIN frames[c] : frames[c][i].key \in T
    BY <2>2, FrameOf
  <2>4. T # {}
    <3>1. InCall(e)
      BY <2>1 DEF Knot, Waits, At
    <3>2. Len(frames[e]) \in DOMAIN frames[e]
      BY <2>2, <3>1, TopFrame
    <3> QED
      BY <2>1, <2>3, <3>2
  <2>5. PICK k \in T : \A j \in T : <<k, j>> \notin asks
    BY <2>1, <2>4 DEF Ordered
  <2>6. PICK c \in S : \E i \in DOMAIN frames[c] : frames[c][i].key = k
    BY <2>5
  <2>7. PICK i \in DOMAIN frames[c] : frames[c][i].key = k
    BY <2>6
  <2>8. PICK d \in S : \E j \in DOMAIN frames[d] : <<k, frames[d][j].key>> \in asks
    BY <2>1, <2>6, <2>7, KnotAsks
  <2> QED
    BY <2>3, <2>5, <2>8
<1> QED
  BY <1>1, NestedInvariant, PTL

-----------------------------------------------------------------------------
(* A stuck thread.                                                          *)

\* Who takes a step is alive and in no knot, moves the frames of nobody else,
\* and frees no lock but its own.
LEMMA OthersStep ==
  ASSUME NestedInv, NEW S \in SUBSET Callers, Knot(S), NEW d \in Callers,
         Step(d) \/ \E j \in Keys : Call(d, j)
  PROVE  /\ d \notin S /\ d \notin dead /\ UNCHANGED dead
         /\ \A c \in Callers \ {d} : frames'[c] = frames[c]
         /\ \A k \in Keys : owner[k] \notin {None, d} => owner'[k] = owner[k]
<1>1. FramesType
  BY DEF NestedInv, TypeOK, FramesType
<1>2. d \notin dead /\ UNCHANGED dead
  BY DEF Step, Call, Acquire, Return, Raise, Leave, At
<1>3. ASSUME d \in S PROVE FALSE
  <2>1. InCall(d) /\ Top(d).at = "wait" /\ owner[Top(d).key] # None
    BY <1>3 DEF Knot, Waits, At
  <2> QED
    BY <2>1 DEF Step, Call, Acquire, Return, Raise, Leave, At
<1>4. /\ \A c \in Callers \ {d} : frames'[c] = frames[c]
      /\ \A k \in Keys : owner[k] \notin {None, d} => owner'[k] = owner[k]
  <2>1. ASSUME NEW j \in Keys, Call(d, j)
        PROVE  (\A c \in Callers \ {d} : frames'[c] = frames[c]) /\ UNCHANGED owner
    <3>1. UNCHANGED owner /\ (UNCHANGED frames \/ Push(d, [key |-> j, at |-> "wait"]))
      BY <2>1 DEF Call
    <3> QED
      BY <1>1, <3>1 DEF Push, FramesType
  <2>2. CASE Acquire(d)
    <3>1. Goto(d, "leave") \/ Goto(d, "factory")
      BY <2>2 DEF Acquire
    <3>2. owner[Top(d).key] = None /\ owner' = [owner EXCEPT ![Top(d).key] = d]
      BY <2>2 DEF Acquire
    <3>3. \A c \in Callers \ {d} : frames'[c] = frames[c]
      BY <1>1, <3>1 DEF Goto, FramesType
    <3>4. \A k \in Keys : owner[k] # None => owner'[k] = owner[k]
      BY <3>2 DEF NestedInv, TypeOK
    <3> QED
      BY <3>3, <3>4
  <2>3. CASE Return(d) \/ Raise(d)
    <3>1. Goto(d, "leave") /\ UNCHANGED owner
      BY <2>3 DEF Return, Raise
    <3> QED
      BY <1>1, <3>1 DEF Goto, FramesType
  <2>4. CASE Leave(d)
    <3>1. InCall(d) /\ Top(d).at = "leave" /\ Pop(d) /\ owner' = [owner EXCEPT ![Top(d).key] = None]
      BY <2>4 DEF Leave, At
    <3>2. owner[Top(d).key] = d
      BY <1>1, <3>1, TopFrame DEF NestedInv, FramesOwn
    <3>3. \A c \in Callers \ {d} : frames'[c] = frames[c]
      BY <1>1, <3>1 DEF Pop, FramesType
    <3>4. \A k \in Keys : owner[k] # d => owner'[k] = owner[k]
      BY <3>1, <3>2 DEF NestedInv, TypeOK
    <3> QED
      BY <3>3, <3>4
  <2> QED
    BY <2>1, <2>2, <2>3, <2>4 DEF Step
<1> QED
  BY <1>2, <1>3, <1>4

\* No step moves a thread of a knot or the lock it waits for.
LEMMA KnotHolds ==
  ASSUME NestedInv, [Next]_vars, NEW S \in SUBSET Callers, Knot(S), NEW c \in S
  PROVE  /\ frames'[c] = frames[c] /\ dead \subseteq dead'
         /\ owner'[Top(c).key] = owner[Top(c).key]
<1>1. FramesType
  BY DEF NestedInv, TypeOK, FramesType
<1>2. InCall(c) /\ owner[Top(c).key] \in S \cup dead /\ owner[Top(c).key] # None
  BY DEF Knot, Waits, At
<1>3. Top(c).key \in Keys
  BY <1>1, <1>2, TopFrame DEF Frame
<1>4. ASSUME NEW d \in Callers, Step(d) \/ \E j \in Keys : Call(d, j)
      PROVE  /\ frames'[c] = frames[c] /\ dead \subseteq dead'
             /\ owner'[Top(c).key] = owner[Top(c).key]
  <2>1. /\ d \notin S /\ d \notin dead /\ UNCHANGED dead
        /\ \A e \in Callers \ {d} : frames'[e] = frames[e]
        /\ \A k \in Keys : owner[k] \notin {None, d} => owner'[k] = owner[k]
    BY <1>4, OthersStep
  <2> QED
    BY <1>2, <1>3, <2>1
<1>5. ASSUME NEW k \in Keys, Forget(k)
      PROVE  UNCHANGED <<frames, dead, owner>>
  BY <1>5 DEF Forget
<1>6. ASSUME NEW p \in Processes, Die(p)
      PROVE  UNCHANGED <<frames, owner>> /\ dead \subseteq dead'
  BY <1>6 DEF Die
<1>7. CASE Finished \/ UNCHANGED vars
  BY <1>7 DEF Finished, vars
<1> QED
  BY <1>4, <1>5, <1>6, <1>7 DEF Next

\* What is left of a knot after a step is a knot with the threads that died.
LEMMA StuckStep ==
  ASSUME NestedInv, [Next]_vars, NEW c \in Callers, Stuck(c)
  PROVE  (Stuck(c) \/ c \in dead)'
<1>1. PICK S \in SUBSET Callers : c \in S /\ Knot(S)
  BY DEF Stuck
<1>2. PICK R \in SUBSET Callers : R = S \ dead'
  OBVIOUS
<1>3. ASSUME NEW e \in R PROVE (Waits(e) /\ owner[Top(e).key] \in R \cup dead)'
  <2>1. /\ frames'[e] = frames[e] /\ dead \subseteq dead'
        /\ owner'[Top(e).key] = owner[Top(e).key]
    BY <1>1, <1>2, KnotHolds
  <2>2. /\ InCall(e) /\ Top(e).at = "wait" /\ owner[Top(e).key] # None
        /\ owner[Top(e).key] \in S \cup dead
    BY <1>1, <1>2 DEF Knot, Waits, At
  <2>3. InCall(e)' /\ Top(e)' = Top(e)
    BY <2>1, <2>2 DEF InCall, Top
  <2>4. owner'[Top(e)'.key] = owner[Top(e).key]
    BY <2>1, <2>3
  <2>5. e \notin dead' /\ owner'[Top(e)'.key] \in R \cup dead'
    BY <1>2, <2>1, <2>2, <2>4
  <2>6. (Waits(e))'
    BY <2>2, <2>3, <2>4, <2>5 DEF Waits, At
  <2> QED
    BY <2>5, <2>6
<1>4. Knot(R)'
  BY <1>3 DEF Knot
<1>5. c \in dead' \/ c \in R
  BY <1>1, <1>2
<1> QED
  BY <1>4, <1>5 DEF Stuck

\* A stuck thread stays stuck until its process dies: no step of another thread,
\* no new entry and no death gives it its lock.
THEOREM NestedStuck == Spec => StuckForever
<1>1. NestedInv /\ [Next]_vars => [\A c \in Callers : Stuck(c) => (Stuck(c) \/ c \in dead)']_vars
  BY StuckStep
<1> QED
  BY <1>1, NestedInvariant, PTL DEF Spec, StuckForever
=============================================================================
