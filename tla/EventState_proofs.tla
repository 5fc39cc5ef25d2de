------------------------- MODULE EventState_proofs --------------------------
(***************************************************************************)
(* Theorems about EventState, for any number of positions and of calls     *)
(* under way, and for every choice of Hazards: type correctness; and that  *)
(* the switch in the simulator ends up where it has been asked to be, and  *)
(* the plugin knows where that is, unless a disturbance has come since the *)
(* switch has last been reset with no answer under way.                    *)
(***************************************************************************)
EXTENDS EventState, WellFoundedInduction, TLAPS

-----------------------------------------------------------------------------
(***************************************************************************)
(* The calls that the switch sends.                                        *)
(***************************************************************************)
SwitchStates == [requested : Values, current : Values, valid : BOOLEAN, pending : BOOLEAN]

\* A light is toggled, the others are moved.
CallsOf(k) == IF k = "light" THEN {"toggle", "query"} ELSE {"up", "down", "query"}

Result(r) == r.switch \in SwitchStates /\ r.calls \in Seq(CallsOf(kind))

LEMMA StepsTyped ==
    ASSUME NEW from \in Values, NEW to \in Values
    PROVE  /\ Steps(from, to) \in Seq({"up", "down"})
           /\ Len(Steps(from, to)) = IF to > from THEN to - from ELSE from - to
           /\ \A i \in 1 .. Len(Steps(from, to)) :
                Steps(from, to)[i] = IF to > from THEN "up" ELSE "down"
<1> DEFINE n == IF to > from THEN to - from ELSE from - to
           c == IF to > from THEN "up" ELSE "down"
<1>1. n \in Nat /\ c \in {"up", "down"}
  BY BoundsAssumption DEF Values
<1>2. Steps(from, to) = [i \in 1 .. n |-> c]
  BY DEF Steps
<1> HIDE DEF n, c
<1>3. [i \in 1 .. n |-> c] \in Seq({"up", "down"}) /\ Len([i \in 1 .. n |-> c]) = n
  BY <1>1
<1> QED
  BY <1>2, <1>3 DEF n, c

LEMMA ResetTyped == Reset \in SwitchStates
BY BoundsAssumption DEF Reset, SwitchStates, Values

LEMMA TestTyped == ASSUME NEW s \in SwitchStates PROVE Result(Test(s))
<1> DEFINE c == IF s.pending THEN <<>> ELSE <<"query">>
<1>1. "query" \in CallsOf(kind)
  BY DEF CallsOf
<1>2. c \in Seq(CallsOf(kind))
  BY <1>1
<1>3. [s EXCEPT !.pending = TRUE] \in SwitchStates
  BY DEF SwitchStates
<1> HIDE DEF c
<1>4. Test(s) = [switch |-> [s EXCEPT !.pending = TRUE], calls |-> c]
  BY DEF Test, c
<1> QED
  BY <1>2, <1>3, <1>4 DEF Result

LEMMA NoCalls == <<>> \in Seq(CallsOf(kind))
OBVIOUS

LEMMA SendStatefulTyped ==
    ASSUME NEW s \in SwitchStates, kind # "light" PROVE Result(SendStateful(s))
<1>1. CASE s.valid /\ NeedsUpdate(s)
  <2> DEFINE t == [s EXCEPT !.current = s.requested, !.pending = FALSE]
             c == Steps(s.current, s.requested)
  <2>1. t \in SwitchStates /\ s.current \in Values /\ s.requested \in Values
    BY DEF SwitchStates
  <2>2. c \in Seq({"up", "down"})
    BY <2>1, StepsTyped
  <2>3. {"up", "down"} \subseteq CallsOf(kind)
    BY DEF CallsOf
  <2> HIDE DEF c, t
  <2>4. c \in Seq(CallsOf(kind))
    BY <2>2, <2>3
  <2>5. SendStateful(s) = [switch |-> t, calls |-> c]
    BY <1>1 DEF SendStateful, t, c
  <2> QED
    BY <2>1, <2>4, <2>5 DEF Result
<1>2. CASE NeedsUpdate(s) /\ ~s.valid
  BY <1>2, TestTyped DEF SendStateful
<1>3. CASE ~NeedsUpdate(s)
  BY <1>3, NoCalls DEF SendStateful, Result
<1> QED
  BY <1>1, <1>2, <1>3

LEMMA RequestTyped ==
    ASSUME NEW s \in SwitchStates, NEW v \in Values PROVE Result(Request(s, v))
<1> DEFINE t == [s EXCEPT !.requested = v]
<1>1. t \in SwitchStates
  BY DEF SwitchStates
<1> HIDE DEF t
<1>2. Request(s, v) = IF kind = "light" THEN Test(t) ELSE SendStateful(t)
  BY DEF Request, t
<1> QED
  BY <1>1, <1>2, TestTyped, SendStatefulTyped

LEMMA AnsweredTyped ==
    ASSUME NEW s \in SwitchStates, NEW v \in Values PROVE Result(Answered(s, v))
<1>1. CASE kind = "light"
  <2> DEFINE t == [s EXCEPT !.pending = FALSE]
             c == IF s.requested # v THEN <<"toggle">> ELSE <<>>
  <2>1. t \in SwitchStates
    BY DEF SwitchStates
  <2>2. c \in Seq(CallsOf(kind))
    <3>1. "toggle" \in CallsOf(kind)
      BY <1>1 DEF CallsOf
    <3> QED
      BY <3>1
  <2> HIDE DEF t, c
  <2>3. Answered(s, v) = [switch |-> t, calls |-> c]
    BY <1>1 DEF Answered, SendToggle, t, c
  <2> QED
    BY <2>1, <2>2, <2>3 DEF Result
<1>2. CASE kind # "light"
  <2> DEFINE t == [s EXCEPT !.current = v, !.valid = TRUE]
  <2>1. t \in SwitchStates
    BY DEF SwitchStates
  <2> HIDE DEF t
  <2>2. Answered(s, v) = SendStateful(t)
    BY <1>2 DEF Answered, t
  <2> QED
    BY <1>2, <2>1, <2>2, SendStatefulTyped
<1> QED
  BY <1>1, <1>2

-----------------------------------------------------------------------------
(***************************************************************************)
(* Type correctness: the calls are those of the kind, and a light has two  *)
(* positions.                                                              *)
(***************************************************************************)
Limits ==
    /\ limit \in Values
    /\ kind = "light" => limit = 1
    /\ kind = "rate" => limit >= 1

Kept == TypeOK /\ Limits /\ calls \in Seq(CallsOf(kind))

LEMMA AsksTyped == ASSUME Kept, NEW v \in Asks PROVE v \in Values
BY BoundsAssumption DEF Kept, Limits, Asks, Top, Values

LEMMA NormalTyped == Normal \in Values /\ None \notin Values
BY BoundsAssumption DEF Normal, None, Values

LEMMA InitKept == Init => Kept
<1> SUFFICES ASSUME Init PROVE Kept
  OBVIOUS
<1>1. limit \in Values /\ (kind = "light" => limit = 1)
  BY BoundsAssumption DEF Init, Values
<1>2. kind = "rate" => limit >= 1
  BY <1>1, BoundsAssumption DEF Init, Values, Normal
<1>3. /\ calls \in Seq(CallsOf(kind)) /\ calls \in Seq(Changes \cup {"query"})
      /\ answers \in Seq(Values)
  BY DEF Init
<1>4. switch \in SwitchStates
  BY ResetTyped DEF Init
<1> QED
  BY <1>1, <1>2, <1>3, <1>4 DEF Init, Kept, Limits, TypeOK, SwitchStates

\* Nothing but the switch and the calls, the session and what has been asked for change.
LEMMA SentKept ==
    ASSUME Kept, NEW r, Result(r), switch' = r.switch, calls' = calls \o r.calls,
           answers' \in Seq(Values), asked' \in Values \cup {None},
           session' \in {"idle", "replay", "paused", "recording"}, disturbed' \in BOOLEAN,
           UNCHANGED <<kind, sim, limit>>
    PROVE  Kept'
<1>1. calls' \in Seq(CallsOf(kind))
  BY DEF Kept, Result
<1>2. CallsOf(kind) \subseteq Changes \cup {"query"}
  BY DEF CallsOf, Changes
<1>3. calls' \in Seq(Changes \cup {"query"})
  BY <1>1, <1>2
<1>4. switch' \in SwitchStates
  BY DEF Result
<1> QED
  BY <1>1, <1>3, <1>4 DEF Kept, Limits, TypeOK, SwitchStates

LEMMA QuietKept ==
    ASSUME Kept, switch' \in SwitchStates, asked' \in Values \cup {None},
           session' \in {"idle", "replay", "paused", "recording"}, disturbed' \in BOOLEAN,
           UNCHANGED <<kind, sim, limit, link>>
    PROVE  Kept'
BY DEF Kept, Limits, TypeOK, SwitchStates, link

LEMMA OperateKept == ASSUME Kept, Operate PROVE Kept'
<1>1. /\ switch \in SwitchStates /\ Reset \in SwitchStates /\ asked \in Values \cup {None} /\ disturbed \in BOOLEAN
      /\ session \in {"idle", "replay", "paused", "recording"}
      /\ answers \in Seq(Values) /\ calls \in Seq(CallsOf(kind))
  BY ResetTyped DEF Kept, TypeOK, SwitchStates
<1>2. ASSUME NEW s \in SwitchStates, NEW v \in Values, Sends(Request(s, v)), asked' = v,
             session' \in {"idle", "replay", "paused", "recording"},
             disturbed' \in BOOLEAN, UNCHANGED <<kind, sim, limit, answers>>
      PROVE  Kept'
  <2>1. Result(Request(s, v))
    BY RequestTyped
  <2> QED
    BY <1>1, <1>2, <2>1, SentKept DEF Sends
<1>3. ASSUME NEW v \in Asks, StartReplay(v) PROVE Kept'
  <2>1. CASE kind = "rate"
    BY <1>1, <1>2, <1>3, <2>1, AsksTyped DEF StartReplay, ResetForReplay
  <2>2. CASE kind # "rate"
    BY <1>1, <1>3, <2>2, QuietKept DEF StartReplay, ResetForReplay, link
  <2> QED
    BY <2>1, <2>2
<1>4. ASSUME NEW v \in Asks, SetReplaySpeedFactor(v) PROVE Kept'
  BY <1>1, <1>2, <1>4, AsksTyped DEF SetReplaySpeedFactor
<1>5. ASSUME NEW v \in Asks, NEW continuous \in BOOLEAN, Seek(v, continuous) PROVE Kept'
  <2>1. CASE kind = "flaps" /\ continuous
    BY <1>1, <1>5, <2>1, QuietKept DEF Seek, link
  <2>2. CASE ~(kind = "flaps" /\ continuous)
    BY <1>1, <1>2, <1>5, <2>2, AsksTyped DEF Seek
  <2> QED
    BY <2>1, <2>2
<1>6. CASE PauseReplay \/ StartRecording \/ StopRecording
  BY <1>1, <1>6, QuietKept DEF PauseReplay, StartRecording, StopRecording
<1>7. CASE ResumeReplay
  BY <1>1, <1>7, QuietKept DEF ResumeReplay, ResetForReplay
<1>8. CASE StopReplay
  <2>1. CASE kind = "rate"
    BY <1>1, <1>2, <1>8, <2>1, NormalTyped DEF StopReplay
  <2>2. CASE kind # "rate"
    BY <1>1, <1>8, <2>2, QuietKept DEF StopReplay, link
  <2> QED
    BY <2>1, <2>2
<1>9. CASE RequestSimulationRate
  <2> DEFINE r == [switch |-> switch, calls |-> <<"query">>]
  <2>1. <<"query">> \in Seq(CallsOf(kind))
    <3>1. "query" \in CallsOf(kind)
      BY DEF CallsOf
    <3> QED
      BY <3>1
  <2>2. Result(r)
    BY <1>1, <2>1 DEF Result
  <2>3. /\ Sends(r)
        /\ UNCHANGED <<kind, session, sim, limit, answers, asked>>
        /\ disturbed' \in BOOLEAN
    BY <1>1, <1>9 DEF RequestSimulationRate
  <2> QED
    BY <1>1, <2>2, <2>3, SentKept DEF Sends
<1> QED
  BY <1>3, <1>4, <1>5, <1>6, <1>7, <1>8, <1>9 DEF Operate

LEMMA NextKept == Kept /\ [Next]_vars => Kept'
<1> SUFFICES ASSUME Kept, [Next]_vars PROVE Kept'
  OBVIOUS
<1>1. /\ switch \in SwitchStates /\ asked \in Values \cup {None} /\ disturbed \in BOOLEAN
      /\ session \in {"idle", "replay", "paused", "recording"}
      /\ answers \in Seq(Values) /\ calls \in Seq(CallsOf(kind))
      /\ sim \in 0 .. limit /\ limit \in Values /\ kind \in Kinds
  BY DEF Kept, TypeOK, SwitchStates
<1>2. CASE Operate
  BY <1>2, OperateKept
<1>3. ASSUME NEW v \in Asks, Frame(v) PROVE Kept'
  <2>1. v \in Values /\ Result(Request(switch, v))
    BY <1>1, AsksTyped, RequestTyped
  <2> QED
    BY <1>1, <1>3, <2>1, SentKept DEF Frame, Sends
<1>4. CASE Dispatch
  <2>1. answers # <<>> /\ answers' = Tail(answers) /\ UNCHANGED <<kind, session, sim, limit, asked, disturbed>>
    BY <1>4 DEF Dispatch
  <2>2. Head(answers) \in Values /\ answers' \in Seq(Values)
    BY <1>1, <2>1
  <2>3. CASE UNCHANGED <<switch, calls>>
    BY <1>1, <2>1, <2>2, <2>3 DEF Kept, Limits, TypeOK, SwitchStates
  <2>4. CASE /\ switch' = Answered(switch, Head(answers)).switch
             /\ calls' = calls \o Answered(switch, Head(answers)).calls
    <3>1. Result(Answered(switch, Head(answers)))
      BY <1>1, <2>2, AnsweredTyped
    <3> QED
      BY <1>1, <2>1, <2>2, <2>4, <3>1, SentKept
  <2> QED
    BY <1>4, <2>3, <2>4 DEF Dispatch
<1>5. CASE Handle
  <2>1. /\ calls # <<>> /\ calls' = Tail(calls)
        /\ UNCHANGED <<kind, session, switch, limit, asked, disturbed>>
    BY <1>5 DEF Handle
  <2>2. calls' \in Seq(CallsOf(kind)) /\ Head(calls) \in CallsOf(kind)
    BY <1>1, <2>1
  <2>3. calls' \in Seq(Changes \cup {"query"})
    <3>1. CallsOf(kind) \subseteq Changes \cup {"query"}
      BY DEF CallsOf, Changes
    <3> QED
      BY <2>2, <3>1
  <2>4. sim \in Values
    BY <1>1, BoundsAssumption DEF Values
  <2>5. answers' \in Seq(Values) /\ sim' \in 0 .. limit
    <3>1. CASE Head(calls) = "query"
      <4>1. answers' = Append(answers, sim) /\ sim' = sim
        BY <1>5, <3>1 DEF Handle
      <4> QED
        BY <1>1, <2>4, <4>1
    <3>2. CASE Head(calls) # "query"
      <4>1. sim' = After(sim, Head(calls)) /\ answers' = answers
        BY <1>5, <3>2 DEF Handle
      <4>2. Head(calls) \in {"up", "down"} \/ (Head(calls) = "toggle" /\ limit = 1)
        <5>1. CASE kind = "light"
          BY <2>2, <3>2, <5>1 DEF CallsOf, Kept, Limits
        <5>2. CASE kind # "light"
          BY <2>2, <3>2, <5>2 DEF CallsOf
        <5> QED
          BY <5>1, <5>2
      <4>3. CASE Head(calls) = "up"
        BY <1>1, <4>1, <4>3, BoundsAssumption DEF After, Values
      <4>4. CASE Head(calls) = "down"
        BY <1>1, <4>1, <4>4, BoundsAssumption DEF After, Values
      <4>5. CASE Head(calls) = "toggle" /\ limit = 1
        BY <1>1, <4>1, <4>5 DEF After
      <4> QED
        BY <1>1, <4>1, <4>2, <4>3, <4>4, <4>5
    <3> QED
      BY <3>1, <3>2
  <2> QED
    BY <1>1, <2>1, <2>2, <2>3, <2>5 DEF Kept, Limits, TypeOK, SwitchStates
<1>6. ASSUME NEW v \in 0 .. limit, Move(v) PROVE Kept'
  BY <1>1, <1>6 DEF Move, link, Kept, Limits, TypeOK
<1>7. CASE Restart
  <2>1. sim' \in 0 .. limit
    BY <1>1, <1>7, BoundsAssumption DEF Restart, Kept, Limits, Values, Normal
  <2>2. calls' \in Seq(CallsOf(kind)) /\ calls' \in Seq(Changes \cup {"query"})
        /\ answers' \in Seq(Values)
    BY <1>7 DEF Restart
  <2>3. session' \in {"idle", "replay", "paused", "recording"}
    BY <1>1, <1>7 DEF Restart
  <2> QED
    BY <1>1, <1>7, <2>1, <2>2, <2>3 DEF Restart, Kept, Limits, TypeOK, SwitchStates
<1>8. CASE UNCHANGED vars
  BY <1>8 DEF vars, link, Kept, Limits, TypeOK
<1> QED
  BY <1>2, <1>3, <1>4, <1>5, <1>6, <1>7, <1>8 DEF Next

\* The variables keep their types, whatever disturbs the switch: its values are positions
\* that it may have.
THEOREM TypeCorrect == Spec => []TypeOK
<1>1. Kept => TypeOK
  BY DEF Kept
<1> QED
  BY <1>1, InitKept, NextKept, PTL DEF Spec
-----------------------------------------------------------------------------
(***************************************************************************)
(* Where a sequence of calls leads.  A value of Course follows from the    *)
(* one before, and nothing else is a course.                               *)
(***************************************************************************)

\* A set of natural numbers has a least one.
LEMMA LeastNumber ==
    ASSUME NEW T \in SUBSET Nat, T # {}
    PROVE  \E m \in T : \A k \in T : m <= k
<1> DEFINE R == {ss \in Nat \X Nat : ss[1] < ss[2]}
<1>1. IsWellFoundedOn(R, Nat)
  BY NatLessThanWellFounded DEF OpToRel
<1>2. \A x, y \in Nat : x < y => <<x, y>> \in R
  OBVIOUS
<1> HIDE DEF R
<1>3. PICK m \in T : \A k \in T : ~(<<k, m>> \in R)
  BY <1>1, WFMin
<1>4. ASSUME NEW k \in T PROVE m <= k
  <2>1. k \in Nat /\ m \in Nat /\ ~(<<k, m>> \in R)
    BY <1>3
  <2>2. ~(k < m)
    BY <1>2, <2>1
  <2> QED
    BY <2>1, <2>2
<1> QED
  BY <1>4

Follows(g, v, list, m) ==
    /\ g = [n \in 0 .. m |-> g[n]]
    /\ g[0] = v
    /\ \A n \in 1 .. m : g[n] = After(g[n - 1], list[n])

LEMMA CourseExists ==
    ASSUME NEW v, NEW list, NEW len \in Nat
    PROVE  \E g : Follows(g, v, list, len)
<1> DEFINE T == {m \in Nat : ~\E g : Follows(g, v, list, m)}
<1> SUFFICES ASSUME T # {} PROVE FALSE
  OBVIOUS
<1>1. PICK m \in T : \A k \in T : m <= k
  BY LeastNumber
<1>2. CASE m = 0
  <2> DEFINE g == [n \in 0 .. 0 |-> v]
  <2>1. Follows(g, v, list, 0)
    BY DEF Follows
  <2> QED
    BY <1>2, <2>1
<1>3. CASE m # 0
  <2>1. m \in Nat /\ m - 1 \in Nat /\ ~(m <= m - 1)
    BY <1>3
  <2>2. PICK g : Follows(g, v, list, m - 1)
    BY <1>1, <2>1
  <2> DEFINE h == [n \in 0 .. m |-> IF n = m THEN After(g[m - 1], list[m]) ELSE g[n]]
  <2>3. h = [n \in 0 .. m |-> h[n]]
    OBVIOUS
  <2>4. h[0] = v
    BY <1>3, <2>1, <2>2 DEF Follows
  <2>5. ASSUME NEW n \in 1 .. m PROVE h[n] = After(h[n - 1], list[n])
    <3>1. n - 1 \in 0 .. m - 1 /\ n - 1 # m /\ n \in 0 .. m /\ n - 1 \in 0 .. m
      BY <2>1
    <3>2. h[n - 1] = g[n - 1]
      BY <3>1
    <3>3. CASE n = m
      <4>1. h[n] = After(g[n - 1], list[n])
        BY <3>1, <3>3
      <4> QED
        BY <3>2, <4>1
    <3>4. CASE n # m
      <4>1. n \in 1 .. m - 1
        BY <2>1, <3>4
      <4>2. g[n] = After(g[n - 1], list[n])
        BY <2>2, <4>1 DEF Follows
      <4>3. h[n] = g[n]
        BY <3>1, <3>4
      <4> QED
        BY <3>2, <4>2, <4>3
    <3> QED
      BY <3>3, <3>4
  <2> HIDE DEF h
  <2>6. Follows(h, v, list, m)
    BY <2>3, <2>4, <2>5 DEF Follows
  <2> QED
    BY <2>6
<1> QED
  BY <1>2, <1>3

LEMMA CourseFollows ==
    ASSUME NEW v, NEW list, Len(list) \in Nat
    PROVE  Follows(Course(v, list), v, list, Len(list))
<1> DEFINE P(g) == g = [n \in 0 .. Len(list) |->
                          IF n = 0 THEN v ELSE After(g[n - 1], list[n])]
<1>1. PICK g : Follows(g, v, list, Len(list))
  BY CourseExists
<1>2. P(g)
  <2>1. \A n \in 0 .. Len(list) : g[n] = IF n = 0 THEN v ELSE After(g[n - 1], list[n])
    <3>1. ASSUME NEW n \in 0 .. Len(list), n # 0 PROVE g[n] = After(g[n - 1], list[n])
      <4>1. n \in 1 .. Len(list)
        BY <3>1
      <4> QED
        BY <1>1, <4>1 DEF Follows
    <3> QED
      BY <1>1, <3>1 DEF Follows
  <2> QED
    BY <1>1, <2>1 DEF Follows
<1>3. Course(v, list) = CHOOSE c : P(c)
  BY DEF Course
<1>4. P(Course(v, list))
  BY <1>2, <1>3
<1> DEFINE c == Course(v, list)
<1>5. c = [n \in 0 .. Len(list) |-> IF n = 0 THEN v ELSE After(c[n - 1], list[n])]
  BY <1>4
<1> HIDE DEF c, P
<1>6. c = [n \in 0 .. Len(list) |-> c[n]] /\ c[0] = v
  BY <1>5
<1>7. ASSUME NEW n \in 1 .. Len(list) PROVE c[n] = After(c[n - 1], list[n])
  <2>1. n \in 0 .. Len(list) /\ n # 0
    OBVIOUS
  <2> QED
    BY <1>5, <2>1
<1> QED
  BY <1>6, <1>7 DEF Follows, c

\* The same calls lead from the same value to the same value.
Walks(a, list, m) == \A n \in 1 .. m : a[n] = After(a[n - 1], list[n])

LEMMA SameCourse ==
    ASSUME NEW a, NEW b, NEW list, NEW m \in Nat, a[0] = b[0], Walks(a, list, m), Walks(b, list, m)
    PROVE  a[m] = b[m]
<1> SUFFICES \A n \in 0 .. m : a[n] = b[n]
  OBVIOUS
<1> DEFINE T == {n \in 0 .. m : a[n] # b[n]}
<1> SUFFICES ASSUME T # {} PROVE FALSE
  OBVIOUS
<1>1. T \subseteq Nat
  OBVIOUS
<1>2. PICK n \in T : \A k \in T : n <= k
  BY <1>1, LeastNumber
<1>3. n \in 1 .. m /\ n - 1 \in 0 .. m /\ ~(n <= n - 1)
  BY <1>2
<1>4. n - 1 \notin T
  BY <1>2, <1>3
<1>5. a[n - 1] = b[n - 1]
  BY <1>3, <1>4
<1>6. a[n] = After(a[n - 1], list[n]) /\ b[n] = After(b[n - 1], list[n])
  BY <1>3 DEF Walks
<1> QED
  BY <1>2, <1>5, <1>6

LEMMA CourseEmpty == ASSUME NEW v PROVE Course(v, <<>>)[Len(<<>>)] = v
<1>1. Len(<<>>) = 0
  OBVIOUS
<1>2. Follows(Course(v, <<>>), v, <<>>, Len(<<>>))
  BY <1>1, CourseFollows
<1> QED
  BY <1>1, <1>2 DEF Follows

LEMMA CourseTail ==
    ASSUME NEW S, NEW v, NEW list \in Seq(S), list # <<>>
    PROVE  Course(After(v, Head(list)), Tail(list))[Len(Tail(list))] = Course(v, list)[Len(list)]
<1> DEFINE m == Len(Tail(list))
           a == Course(After(v, Head(list)), Tail(list))
           c == Course(v, list)
           b == [n \in 0 .. m |-> c[n + 1]]
<1>1. m \in Nat /\ Len(list) = m + 1 /\ list[1] = Head(list)
      /\ \A n \in 1 .. m : Tail(list)[n] = list[n + 1]
  OBVIOUS
<1>2. Follows(a, After(v, Head(list)), Tail(list), m)
  <2>1. Len(Tail(list)) \in Nat
    BY <1>1
  <2> QED
    BY <2>1, CourseFollows
<1>3. Follows(c, v, list, Len(list))
  <2>1. Len(list) \in Nat
    OBVIOUS
  <2> QED
    BY <2>1, CourseFollows
<1> HIDE DEF a, c, m
<1>4. b[0] = After(v, Head(list))
  <2>1. 1 \in 1 .. Len(list) /\ 0 \in 0 .. m /\ 1 - 1 = 0
    BY <1>1
  <2>2. c[1] = After(c[1 - 1], list[1])
    BY <1>3, <2>1 DEF Follows
  <2>3. c[1 - 1] = v
    BY <1>3, <2>1 DEF Follows
  <2>4. b[0] = c[0 + 1]
    BY <2>1
  <2> QED
    BY <1>1, <2>2, <2>3, <2>4
<1>5. ASSUME NEW n \in 1 .. m PROVE b[n] = After(b[n - 1], Tail(list)[n])
  <2> DEFINE i == n + 1
  <2>1. i \in 1 .. Len(list) /\ i - 1 = n /\ n - 1 + 1 = n /\ n \in 0 .. m /\ n - 1 \in 0 .. m
    BY <1>1
  <2>2. Tail(list)[n] = list[i] /\ b[n] = c[i] /\ b[n - 1] = c[n]
    BY <1>1, <2>1
  <2> HIDE DEF i
  <2>3. c[i] = After(c[i - 1], list[i])
    BY <1>3, <2>1 DEF Follows
  <2> QED
    BY <2>1, <2>2, <2>3
<1> HIDE DEF b
<1>6. Walks(a, Tail(list), m) /\ Walks(b, Tail(list), m)
  BY <1>2, <1>5 DEF Follows, Walks
<1>7. a[0] = b[0]
  BY <1>2, <1>4 DEF Follows
<1>8. a[m] = b[m]
  <2>1. m \in Nat
    BY <1>1
  <2> QED
    BY <1>6, <1>7, <2>1, SameCourse
<1>9. m \in 0 .. m
  BY <1>1
<1>10. b[m] = c[m + 1]
  BY <1>9 DEF b
<1>11. a[m] = c[Len(list)]
  BY <1>1, <1>8, <1>9, <1>10
<1> QED
  BY <1>11 DEF a, c, m

LEMMA CourseConcat ==
    ASSUME NEW S, NEW v, NEW list \in Seq(S), NEW more \in Seq(S)
    PROVE  Course(v, list \o more)[Len(list \o more)]
             = Course(Course(v, list)[Len(list)], more)[Len(more)]
<1> DEFINE m == Len(list)
           k == Len(more)
           all == list \o more
           c == Course(v, all)
           a == Course(v, list)
           d == Course(a[m], more)
           b == [n \in 0 .. k |-> c[m + n]]
<1>1. m \in Nat /\ k \in Nat /\ Len(all) = m + k
      /\ (\A n \in 1 .. m : all[n] = list[n])
      /\ (\A n \in 1 .. k : all[m + n] = more[n])
  OBVIOUS
<1>2. Follows(a, v, list, m)
  BY <1>1, CourseFollows
<1>3. Follows(d, a[m], more, k)
  BY <1>1, CourseFollows
<1> HIDE DEF m, k, all, a, d
<1>4. Follows(c, v, all, m + k)
  <2>1. m + k \in Nat /\ Len(all) \in Nat
    BY <1>1
  <2>2. Follows(c, v, all, Len(all))
    BY <2>1, CourseFollows
  <2> QED
    BY <1>1, <2>2
<1> HIDE DEF c
<1>5. c[m] = a[m]
  <2>1. ASSUME NEW n \in 1 .. m
        PROVE  c[n] = After(c[n - 1], list[n]) /\ a[n] = After(a[n - 1], list[n])
    <3>1. n \in 1 .. m + k
      BY <1>1
    <3>2. c[n] = After(c[n - 1], all[n])
      BY <1>4, <3>1 DEF Follows
    <3>3. a[n] = After(a[n - 1], list[n])
      BY <1>2 DEF Follows
    <3> QED
      BY <1>1, <3>2, <3>3
  <2>2. c[0] = a[0]
    BY <1>2, <1>4 DEF Follows
  <2>3. m \in Nat
    BY <1>1
  <2>4. Walks(c, list, m) /\ Walks(a, list, m)
    BY <2>1 DEF Walks
  <2> QED
    BY <2>2, <2>3, <2>4, SameCourse
<1>6. b[0] = d[0]
  <2>1. 0 \in 0 .. k /\ m + 0 = m
    BY <1>1
  <2>2. b[0] = c[m]
    BY <2>1
  <2>3. d[0] = a[m]
    BY <1>3 DEF Follows
  <2> QED
    BY <1>5, <2>2, <2>3
<1>7. ASSUME NEW n \in 1 .. k PROVE b[n] = After(b[n - 1], more[n])
  <2> DEFINE i == m + n
  <2>1. i \in 1 .. m + k /\ i - 1 = m + (n - 1) /\ n \in 0 .. k /\ n - 1 \in 0 .. k
    BY <1>1
  <2>2. all[i] = more[n] /\ b[n] = c[i] /\ b[n - 1] = c[i - 1]
    BY <1>1, <2>1
  <2> HIDE DEF i
  <2>3. c[i] = After(c[i - 1], all[i])
    BY <1>4, <2>1 DEF Follows
  <2> QED
    BY <2>2, <2>3
<1> HIDE DEF b
<1>8. Walks(b, more, k) /\ Walks(d, more, k)
  BY <1>7, <1>3 DEF Follows, Walks
<1>9. b[k] = d[k]
  <2>1. k \in Nat
    BY <1>1
  <2> QED
    BY <1>6, <1>8, <2>1, SameCourse
<1>10. k \in 0 .. k
  BY <1>1
<1>11. b[k] = c[m + k]
  BY <1>10 DEF b
<1>12. c[Len(all)] = d[k]
  BY <1>1, <1>9, <1>10, <1>11
<1> QED
  BY <1>12 DEF m, k, all, c, a, d

LEMMA CourseOfOne ==
    ASSUME NEW v, NEW call PROVE Course(v, <<call>>)[Len(<<call>>)] = After(v, call)
<1> DEFINE list == <<call>>
<1>1. Len(list) = 1 /\ list[1] = call
  OBVIOUS
<1>2. Follows(Course(v, list), v, list, 1)
  BY <1>1, CourseFollows
<1>3. 1 \in 1 .. 1 /\ 1 - 1 = 0
  OBVIOUS
<1>4. Course(v, list)[1] = After(Course(v, list)[1 - 1], list[1])
  BY <1>2, <1>3 DEF Follows
<1>5. Course(v, list)[0] = v
  BY <1>2 DEF Follows
<1> QED
  BY <1>1, <1>3, <1>4, <1>5

\* Within the range of the switch, Steps leads from one value to the other.
LEMMA CourseOfSteps ==
    ASSUME NEW from \in Values, NEW to \in Values, limit \in Values, from <= limit, to <= limit
    PROVE  Course(from, Steps(from, to))[Len(Steps(from, to))] = to
<1> DEFINE list == Steps(from, to)
           m == Len(list)
           a == Course(from, list)
           b == [n \in 0 .. m |-> IF to > from THEN from + n ELSE from - n]
<1>1. from \in Nat /\ to \in Nat /\ limit \in Nat
  BY BoundsAssumption DEF Values
<1>2. /\ m = IF to > from THEN to - from ELSE from - to
      /\ \A n \in 1 .. m : list[n] = IF to > from THEN "up" ELSE "down"
  BY StepsTyped
<1>3. m \in Nat
  BY <1>1, <1>2
<1>4. Follows(a, from, list, m)
  BY <1>3, CourseFollows
<1> HIDE DEF list, m, a
<1>5. b[0] = from
  BY <1>1, <1>3
<1>6. ASSUME NEW n \in 1 .. m PROVE b[n] = After(b[n - 1], list[n])
  <2>1. n \in 0 .. m /\ n - 1 \in 0 .. m
    BY <1>3
  <2>2. CASE to > from
    <3>1. b[n] = from + n /\ b[n - 1] = from + (n - 1) /\ list[n] = "up"
      BY <1>1, <1>2, <2>1, <2>2
    <3>2. from + (n - 1) < limit /\ from + (n - 1) + 1 = from + n
      BY <1>1, <1>2, <2>2
    <3>3. After(b[n - 1], "up") = b[n - 1] + 1
      BY <3>1, <3>2 DEF After
    <3> QED
      BY <3>1, <3>2, <3>3
  <2>3. CASE ~(to > from)
    <3>1. b[n] = from - n /\ b[n - 1] = from - (n - 1) /\ list[n] = "down"
      BY <1>1, <1>2, <2>1, <2>3
    <3>2. from - (n - 1) > 0 /\ from - (n - 1) - 1 = from - n
      BY <1>1, <1>2, <2>3
    <3>3. After(b[n - 1], "down") = b[n - 1] - 1
      BY <3>1, <3>2 DEF After
    <3> QED
      BY <3>1, <3>2, <3>3
  <2> QED
    BY <2>2, <2>3
<1>7. a[0] = b[0] /\ Walks(a, list, m) /\ Walks(b, list, m)
  BY <1>4, <1>5, <1>6 DEF Follows, Walks
<1>8. b[m] = to
  BY <1>1, <1>2, <1>3
<1> HIDE DEF b
<1>9. a[m] = b[m]
  BY <1>3, <1>7, SameCourse
<1>10. a[m] = to
  BY <1>8, <1>9
<1> QED
  BY <1>10 DEF a, m, list

-----------------------------------------------------------------------------
(***************************************************************************)
(* Nothing disturbs the switch, since it has last been reset with no       *)
(* answer under way.                                                       *)
(***************************************************************************)

\* Where the calls under way lead to.
End == Course(sim, calls)[Len(calls)]

\* At most one question is under way, and nothing behind it.  Only the rate is read when
\* it is known.
OneQuestion ==
    /\ \A i \in 1 .. Len(calls) - 1 : calls[i] # "query"
    /\ answers # <<>> => answers = <<sim>> /\ calls = <<>>
    /\ ~IsAnswered => /\ asked # None
                      /\ IF switch.valid THEN kind = "rate" ELSE switch.pending

InRange ==
    /\ switch.requested <= limit
    /\ kind = "light" => ~switch.valid

\* What the plugin takes for the current value is what it will be.
Synced ==
    switch.valid => asked # None /\ switch.current = End /\ switch.current <= limit

\* What has been asked for is requested, and known to be reached, or awaits an answer.
Awaited ==
    asked # None =>
        /\ switch.requested = asked
        /\ switch.valid => switch.current = asked
        /\ ~switch.valid => switch.pending \/ (kind = "light" /\ End = asked)

CalmInv == OneQuestion /\ InRange /\ Synced /\ Awaited

Inv == Kept /\ (disturbed \/ CalmInv)

NoQuestion(list) == \A i \in 1 .. Len(list) : list[i] # "query"

LEMMA NoQuestionRange ==
    ASSUME NEW S, NEW list \in Seq(S)
    PROVE  "query" \notin Range(list) <=> NoQuestion(list)
<1>1. DOMAIN list = 1 .. Len(list)
  OBVIOUS
<1> QED
  BY <1>1 DEF Range, NoQuestion

LEMMA AfterQuery == ASSUME NEW v PROVE After(v, "query") = v
BY DEF After

\* What End is after a step, with limits that never change.
LEMMA EndNext ==
    ASSUME UNCHANGED limit PROVE End' = Course(sim', calls')[Len(calls')]
BY DEF End, Course, After

LEMMA EndSame == ASSUME UNCHANGED <<sim, limit, calls>> PROVE End' = End
<1>1. End' = Course(sim', calls')[Len(calls')]
  BY EndNext
<1> QED
  BY <1>1 DEF End

LEMMA EndSent ==
    ASSUME NEW S, calls \in Seq(S), NEW more \in Seq(S), calls' = calls \o more,
           UNCHANGED <<sim, limit>>
    PROVE  End' = Course(End, more)[Len(more)]
<1>1. End' = Course(sim, calls \o more)[Len(calls \o more)]
  BY EndNext
<1>2. Course(sim, calls \o more)[Len(calls \o more)]
        = Course(Course(sim, calls)[Len(calls)], more)[Len(more)]
  BY CourseConcat
<1> QED
  BY <1>1, <1>2 DEF End

LEMMA EndHandled == ASSUME Kept, Handle PROVE End' = End
<1>1. /\ calls \in Seq(CallsOf(kind)) /\ calls # <<>> /\ calls' = Tail(calls) /\ limit' = limit
      /\ sim' = After(sim, Head(calls))
  BY AfterQuery DEF Kept, Handle
<1>2. End' = Course(sim', calls')[Len(calls')]
  BY <1>1, EndNext
<1>3. End' = Course(After(sim, Head(calls)), Tail(calls))[Len(Tail(calls))]
  BY <1>1, <1>2
<1>4. Course(After(sim, Head(calls)), Tail(calls))[Len(Tail(calls))]
        = Course(sim, calls)[Len(calls)]
  BY <1>1, CourseTail
<1> QED
  BY <1>3, <1>4 DEF End

LEMMA EndEmpty == ASSUME calls = <<>> PROVE End = sim
<1>1. End = Course(sim, <<>>)[Len(<<>>)]
  BY DEF End
<1> QED
  BY <1>1, CourseEmpty

\* Nothing is under way but changes.
LEMMA AnsweredOK ==
    ASSUME NEW S, calls' \in Seq(S), NoQuestion(calls'), answers' = <<>>
    PROVE  OneQuestion' /\ IsAnswered'
<1>1. IsAnswered'
  <2>1. "query" \notin Range(calls')
    BY NoQuestionRange
  <2> QED
    BY <2>1 DEF IsAnswered
<1>2. \A i \in 1 .. Len(calls') - 1 : calls'[i] # "query"
  <2>1. Len(calls') \in Nat
    OBVIOUS
  <2> QED
    BY <2>1 DEF NoQuestion
<1> QED
  BY <1>1, <1>2 DEF OneQuestion

LEMMA AnsweredNow == ASSUME Kept, IsAnswered PROVE OneQuestion /\ NoQuestion(calls)
<1>1. calls \in Seq(CallsOf(kind)) /\ Len(calls) \in Nat /\ answers = <<>>
  BY DEF Kept, IsAnswered
<1>2. NoQuestion(calls)
  BY <1>1, NoQuestionRange DEF IsAnswered
<1>3. \A i \in 1 .. Len(calls) - 1 : calls[i] # "query"
  BY <1>1, <1>2 DEF NoQuestion
<1> QED
  BY <1>1, <1>2, <1>3 DEF OneQuestion

\* The switch knows its value: it sends the steps to the one requested.
LEMMA SendKept ==
    ASSUME Kept, kind # "light", NEW s \in SwitchStates, s.valid,
           s.requested <= limit, s.current = End, s.current <= limit,
           NoQuestion(calls), answers' = <<>>,
           switch' = SendStateful(s).switch, calls' = calls \o SendStateful(s).calls,
           asked' # None, asked' = s.requested, UNCHANGED <<kind, sim, limit>>
    PROVE  CalmInv'
<1>1. /\ calls \in Seq(CallsOf(kind)) /\ limit \in Values
      /\ s.requested \in Values /\ s.current \in Values
  BY DEF Kept, Limits, SwitchStates
<1>2. CASE NeedsUpdate(s)
  <2> DEFINE more == Steps(s.current, s.requested)
             t == [s EXCEPT !.current = s.requested, !.pending = FALSE]
  <2>1. SendStateful(s) = [switch |-> t, calls |-> more]
    BY <1>2 DEF SendStateful
  <2>2. switch' = t /\ calls' = calls \o more
    BY <2>1
  <2>3. t.valid /\ t.current = s.requested /\ t.requested = s.requested
    BY DEF SwitchStates
  <2>4. /\ more \in Seq({"up", "down"})
        /\ \A i \in 1 .. Len(more) : more[i] \in {"up", "down"}
    BY <1>1, StepsTyped
  <2>5. more \in Seq(CallsOf(kind))
    <3>1. {"up", "down"} \subseteq CallsOf(kind)
      BY DEF CallsOf
    <3> QED
      BY <2>4, <3>1
  <2>6. Course(s.current, more)[Len(more)] = s.requested
    BY <1>1, CourseOfSteps
  <2> HIDE DEF more, t
  <2>7. End' = s.requested
    <3>1. End' = Course(End, more)[Len(more)]
      BY <1>1, <2>2, <2>5, EndSent
    <3> QED
      BY <2>6, <3>1
  <2>8. calls' \in Seq(CallsOf(kind)) /\ NoQuestion(calls')
    <3>1. /\ Len(calls') = Len(calls) + Len(more) /\ Len(calls) \in Nat /\ Len(more) \in Nat
          /\ \A i \in 1 .. Len(calls) : calls'[i] = calls[i]
          /\ \A i \in 1 .. Len(more) : calls'[Len(calls) + i] = more[i]
      BY <1>1, <2>2, <2>5
    <3>2. ASSUME NEW i \in 1 .. Len(calls') PROVE calls'[i] # "query"
      <4>1. CASE i \in 1 .. Len(calls)
        BY <3>1, <4>1 DEF NoQuestion
      <4>2. CASE i \notin 1 .. Len(calls)
        <5> DEFINE j == i - Len(calls)
        <5>1. j \in 1 .. Len(more) /\ i = Len(calls) + j
          BY <3>1, <4>2
        <5> HIDE DEF j
        <5>2. calls'[i] = more[j]
          BY <3>1, <5>1
        <5> QED
          BY <2>4, <5>1, <5>2
      <4> QED
        BY <4>1, <4>2
    <3>3. calls' \in Seq(CallsOf(kind))
      BY <1>1, <2>2, <2>5
    <3> QED
      BY <3>2, <3>3 DEF NoQuestion
  <2>9. OneQuestion'
    BY <2>8, AnsweredOK
  <2>10. InRange' /\ Synced' /\ Awaited'
    BY <2>2, <2>3, <2>7 DEF InRange, Synced, Awaited
  <2> QED
    BY <2>9, <2>10 DEF CalmInv
<1>3. CASE ~NeedsUpdate(s)
  <2>1. SendStateful(s) = [switch |-> s, calls |-> <<>>] /\ s.requested = s.current
    BY <1>3 DEF SendStateful, NeedsUpdate
  <2>2. switch' = s /\ calls' = calls
    BY <1>1, <2>1
  <2>3. End' = End
    BY <2>2, EndSame
  <2>4. OneQuestion'
    BY <1>1, <2>2, AnsweredOK
  <2>5. InRange' /\ Synced' /\ Awaited'
    BY <2>1, <2>2, <2>3 DEF InRange, Synced, Awaited
  <2> QED
    BY <2>4, <2>5 DEF CalmInv
<1> QED
  BY <1>2, <1>3

\* It does not, or never does: it asks, unless it has asked already.
LEMMA TestKept ==
    ASSUME Kept, OneQuestion, NEW s \in SwitchStates, ~s.valid, s.requested <= limit,
           ~IsAnswered => s.pending,
           switch' = Test(s).switch, calls' = calls \o Test(s).calls,
           asked' # None, asked' = s.requested, UNCHANGED <<kind, sim, limit, answers>>
    PROVE  CalmInv'
<1>1. calls \in Seq(CallsOf(kind)) /\ "query" \in CallsOf(kind)
  BY DEF Kept, CallsOf
<1>2. /\ switch'.pending /\ ~switch'.valid /\ switch'.requested = s.requested
      /\ calls' = calls \o (IF s.pending THEN <<>> ELSE <<"query">>)
  BY DEF Test, SwitchStates
<1>3. CASE s.pending
  <2>1. calls' = calls
    BY <1>1, <1>2, <1>3
  <2> QED
    BY <1>2, <2>1 DEF CalmInv, OneQuestion, IsAnswered, InRange, Synced, Awaited
<1>4. CASE ~s.pending
  <2>1. answers' = <<>> /\ NoQuestion(calls)
    BY <1>1, <1>4, NoQuestionRange DEF IsAnswered
  <2>2. calls' = calls \o <<"query">>
    BY <1>2, <1>4
  <2>3. \A i \in 1 .. Len(calls') - 1 : calls'[i] # "query"
    <3>1. /\ Len(calls') = Len(calls) + 1 /\ Len(calls) \in Nat
          /\ \A i \in 1 .. Len(calls) : calls'[i] = calls[i]
      BY <1>1, <2>2
    <3> QED
      BY <2>1, <3>1 DEF NoQuestion
  <2> QED
    BY <1>2, <2>1, <2>3 DEF CalmInv, OneQuestion, InRange, Synced, Awaited
<1> QED
  BY <1>3, <1>4

\* A value is requested.
LEMMA RequestKept ==
    ASSUME Kept, OneQuestion, NEW s \in SwitchStates, NEW v \in Values, v <= limit,
           s.valid => s.current = End /\ s.current <= limit /\ kind # "light" /\ IsAnswered,
           ~IsAnswered => s.pending,
           Sends(Request(s, v)), asked' = v, UNCHANGED <<kind, sim, limit, answers>>
    PROVE  CalmInv'
<1> DEFINE t == [s EXCEPT !.requested = v]
<1>1. /\ t \in SwitchStates /\ t.requested = v /\ t.valid = s.valid
      /\ t.pending = s.pending /\ t.current = s.current /\ v # None
  BY NormalTyped DEF SwitchStates
<1> HIDE DEF t
<1>2. Request(s, v) = IF kind = "light" THEN Test(t) ELSE SendStateful(t)
  BY DEF Request, t
<1>3. switch' = Request(s, v).switch /\ calls' = calls \o Request(s, v).calls
  BY DEF Sends
<1>4. CASE s.valid
  <2>1. NoQuestion(calls) /\ answers' = <<>>
    BY <1>4, NoQuestionRange DEF Kept, IsAnswered
  <2>2. switch' = SendStateful(t).switch /\ calls' = calls \o SendStateful(t).calls
    BY <1>2, <1>3, <1>4
  <2> QED
    BY <1>1, <1>4, <2>1, <2>2, SendKept
<1>5. CASE ~s.valid
  <2>1. SendStateful(t) = Test(t)
    BY <1>1, <1>5 DEF SendStateful, NeedsUpdate
  <2>2. switch' = Test(t).switch /\ calls' = calls \o Test(t).calls
    BY <1>2, <1>3, <2>1
  <2> QED
    BY <1>1, <1>5, <2>2, TestKept
<1> QED
  BY <1>4, <1>5

\* The switch is reset, and nothing requested.
LEMMA ResetKept ==
    ASSUME Kept, IsAnswered, switch' = Reset, asked' = None,
           UNCHANGED <<kind, sim, limit, link>>
    PROVE  CalmInv'
<1>1. calls \in Seq(CallsOf(kind)) /\ limit \in Nat
  BY BoundsAssumption DEF Kept, Limits, Values
<1>2. NoQuestion(calls') /\ calls' \in Seq(CallsOf(kind)) /\ answers' = <<>>
  BY <1>1, NoQuestionRange DEF IsAnswered, link
<1>3. OneQuestion'
  BY <1>2, AnsweredOK
<1> QED
  BY <1>1, <1>3 DEF CalmInv, InRange, Synced, Awaited, Reset

LEMMA SameKept ==
    ASSUME CalmInv, UNCHANGED <<kind, switch, sim, limit, link, asked>>
    PROVE  CalmInv'
<1>1. UNCHANGED <<calls, answers>>
  BY DEF link
<1>2. End' = End
  BY <1>1, EndSame
<1> QED
  BY <1>1, <1>2 DEF CalmInv, OneQuestion, IsAnswered, InRange, Synced, Awaited

\* A reset brings everything into order; what does not reset the switch does not disturb it.
LEMMA OperateCalm ==
    ASSUME Kept, disturbed \/ CalmInv, ~disturbed', Operate PROVE CalmInv'
<1>1. /\ switch \in SwitchStates /\ Reset \in SwitchStates /\ ~Reset.valid /\ ~Reset.pending
      /\ calls \in Seq(CallsOf(kind)) /\ limit \in Values /\ limit \in Nat
  <2>1. switch \in SwitchStates /\ calls \in Seq(CallsOf(kind)) /\ limit \in Values
    BY DEF Kept, TypeOK, Limits, SwitchStates
  <2>2. Reset \in SwitchStates /\ ~Reset.valid /\ ~Reset.pending
    BY ResetTyped DEF Reset
  <2> QED
    BY <2>1, <2>2, BoundsAssumption DEF Values
<1>2. \A v \in Asks : v \in Values /\ (~(v > limit) => v <= limit)
  BY <1>1, AsksTyped, BoundsAssumption DEF Values
<1>3. Normal \in Values /\ (kind = "rate" => Normal <= limit)
  BY NormalTyped DEF Kept, Limits, Normal
<1>4. ASSUME NEW v \in Values, v <= limit, IsAnswered, Sends(Request(Reset, v)), asked' = v,
             UNCHANGED <<kind, sim, limit, answers>>
      PROVE  CalmInv'
  BY <1>1, <1>4, AnsweredNow, RequestKept
<1>5. ASSUME CalmInv, NEW v \in Values, v <= limit, Sends(Request(switch, v)), asked' = v,
             ~switch.valid \/ IsAnswered,
             UNCHANGED <<kind, sim, limit, answers>>
      PROVE  CalmInv'
  <2>1. switch.valid => switch.current = End /\ switch.current <= limit /\ kind # "light"
    BY <1>5 DEF CalmInv, Synced, InRange
  <2>2. OneQuestion /\ (~IsAnswered => switch.pending)
    BY <1>5 DEF CalmInv, OneQuestion
  <2> QED
    BY <1>1, <1>5, <2>1, <2>2, RequestKept
<1>6. ASSUME NEW v \in Asks, StartReplay(v) PROVE CalmInv'
  <2>1. IsAnswered
    BY <1>6 DEF StartReplay
  <2>2. CASE kind = "rate"
    BY <1>2, <1>4, <1>6, <2>1, <2>2 DEF StartReplay, ResetForReplay
  <2>3. CASE kind # "rate"
    BY <1>6, <2>1, <2>3, ResetKept DEF StartReplay, ResetForReplay, link
  <2> QED
    BY <2>2, <2>3
<1>7. ASSUME NEW v \in Asks, SetReplaySpeedFactor(v) PROVE CalmInv'
  <2>1. CalmInv /\ ~(v > limit) /\ (~switch.valid \/ IsAnswered)
    BY <1>7 DEF SetReplaySpeedFactor, IsOutdated
  <2> QED
    BY <1>2, <1>5, <1>7, <2>1 DEF SetReplaySpeedFactor
<1>8. ASSUME NEW v \in Asks, NEW continuous \in BOOLEAN, Seek(v, continuous) PROVE CalmInv'
  <2>1. CASE kind = "flaps" /\ continuous
    BY <1>8, <2>1, ResetKept DEF Seek, link
  <2>2. CASE ~(kind = "flaps" /\ continuous)
    <3>1. IsAnswered /\ ~(v > limit)
      BY <1>8, <2>2 DEF Seek
    <3> QED
      BY <1>2, <1>4, <1>8, <2>2, <3>1 DEF Seek
  <2> QED
    BY <2>1, <2>2
<1>9. CASE PauseReplay \/ StartRecording \/ StopRecording
  BY <1>9, SameKept DEF PauseReplay, StartRecording, StopRecording
<1>10. CASE ResumeReplay
  BY <1>10, ResetKept DEF ResumeReplay, ResetForReplay
<1>11. CASE StopReplay
  <2>1. CASE kind = "rate"
    <3>1. /\ CalmInv /\ (~switch.valid \/ IsAnswered)
          /\ Sends(Request(switch, Normal)) /\ asked' = Normal
          /\ UNCHANGED <<kind, sim, limit, answers>>
      BY <1>11, <2>1 DEF StopReplay, IsOutdated
    <3> QED
      BY <1>3, <1>5, <2>1, <3>1
  <2>2. CASE kind # "rate"
    BY <1>11, <2>2, SameKept DEF StopReplay, link
  <2> QED
    BY <2>1, <2>2
<1>12. CASE RequestSimulationRate
  <2>1. /\ kind = "rate" /\ asked # None /\ IsAnswered /\ CalmInv /\ switch' = switch
        /\ calls' = calls \o <<"query">>
        /\ UNCHANGED <<kind, session, sim, limit, answers, asked>>
    BY <1>12 DEF RequestSimulationRate, Sends
  <2>2. <<"query">> \in Seq(CallsOf(kind))
    <3>1. "query" \in CallsOf(kind)
      BY DEF CallsOf
    <3> QED
      BY <3>1
  <2>3. End' = End
    <3>1. End' = Course(End, <<"query">>)[Len(<<"query">>)]
      BY <1>1, <2>1, <2>2, EndSent
    <3> QED
      BY <3>1, CourseOfOne, AfterQuery
  <2>4. OneQuestion'
    <3>1. NoQuestion(calls) /\ answers' = <<>>
      BY <1>1, <2>1, NoQuestionRange DEF IsAnswered
    <3>2. \A i \in 1 .. Len(calls') - 1 : calls'[i] # "query"
      <4>1. /\ Len(calls') = Len(calls) + 1 /\ Len(calls) \in Nat
            /\ \A i \in 1 .. Len(calls) : calls'[i] = calls[i]
        BY <1>1, <2>1, <2>2
      <4> QED
        BY <3>1, <4>1 DEF NoQuestion
    <3>3. switch.valid \/ switch.pending
      BY <2>1 DEF CalmInv, Awaited
    <3> QED
      BY <2>1, <3>1, <3>2, <3>3 DEF OneQuestion
  <2> QED
    BY <2>1, <2>3, <2>4 DEF CalmInv, InRange, Synced, Awaited
<1> QED
  BY <1>6, <1>7, <1>8, <1>9, <1>10, <1>11, <1>12 DEF Operate

LEMMA FrameCalm ==
    ASSUME Kept, disturbed \/ CalmInv, ~disturbed', NEW v \in Asks, Frame(v) PROVE CalmInv'
<1>1. switch \in SwitchStates /\ v \in Values /\ CalmInv /\ ~(v > limit) /\ limit \in Values
  BY AsksTyped DEF Kept, Limits, TypeOK, SwitchStates, Frame
<1>2. /\ kind # "rate" /\ session = "replay" /\ Sends(Request(switch, v)) /\ asked' = v
      /\ v <= limit /\ UNCHANGED <<kind, sim, limit, answers>>
  BY <1>1, BoundsAssumption DEF Frame, Values
<1>3. switch.valid => switch.current = End /\ switch.current <= limit /\ kind # "light"
  BY <1>1 DEF CalmInv, Synced, InRange
<1>4. OneQuestion /\ (~IsAnswered => switch.pending /\ ~switch.valid)
  BY <1>1, <1>2 DEF CalmInv, OneQuestion
<1> QED
  BY <1>1, <1>2, <1>3, <1>4, RequestKept

\* The answer is the value that the switch has, and no call is under way.
LEMMA DispatchCalm == ASSUME Kept, CalmInv, Dispatch PROVE CalmInv'
<1>1. /\ switch \in SwitchStates /\ sim \in 0 .. limit /\ limit \in Values /\ limit \in Nat
      /\ switch.requested <= limit
  BY BoundsAssumption DEF Kept, TypeOK, Limits, SwitchStates, CalmInv, InRange, Values
<1>2. /\ answers = <<sim>> /\ calls = <<>> /\ answers' = Tail(answers)
      /\ UNCHANGED <<kind, session, sim, limit, asked>>
  BY DEF Dispatch, CalmInv, OneQuestion
<1>3. answers' = <<>> /\ Head(answers) = sim /\ End = sim
  BY <1>2, EndEmpty
<1>4. sim \in Values /\ calls \in Seq(CallsOf(kind)) /\ NoQuestion(calls)
  BY <1>1, <1>2, BoundsAssumption DEF Values, NoQuestion
<1>5. CASE session = "recording"
  <2>1. switch' = switch /\ calls' = calls
    BY <1>5 DEF Dispatch
  <2>2. OneQuestion'
    BY <1>3, <1>4, <2>1, AnsweredOK
  <2>3. End' = End
    BY <1>2, <2>1, EndSame
  <2> QED
    BY <1>2, <2>1, <2>2, <2>3 DEF CalmInv, InRange, Synced, Awaited
<1>6. CASE session # "recording" /\ kind # "light"
  <2> DEFINE t == [switch EXCEPT !.current = sim, !.valid = TRUE]
  <2>1. /\ t \in SwitchStates /\ t.valid /\ t.current = sim /\ t.requested = switch.requested
    BY <1>1, <1>4 DEF SwitchStates
  <2> HIDE DEF t
  <2>2. switch' = SendStateful(t).switch /\ calls' = calls \o SendStateful(t).calls
    <3>1. Answered(switch, sim) = SendStateful(t)
      BY <1>6 DEF Answered, t
    <3> QED
      BY <1>3, <1>6, <3>1 DEF Dispatch
  <2>3. t.current = End /\ t.current <= limit /\ t.requested <= limit
    BY <1>1, <1>3, <2>1
  <2>4. asked' # None /\ asked' = t.requested
    <3>1. ~IsAnswered
      BY <1>2 DEF IsAnswered
    <3> QED
      BY <1>2, <2>1, <3>1 DEF CalmInv, OneQuestion, Awaited
  <2> QED
    BY <1>2, <1>3, <1>4, <1>6, <2>1, <2>2, <2>3, <2>4, SendKept
<1>7. CASE session # "recording" /\ kind = "light"
  <2> DEFINE more == IF switch.requested # sim THEN <<"toggle">> ELSE <<>>
  <2>1. Answered(switch, sim) = [switch |-> [switch EXCEPT !.pending = FALSE], calls |-> more]
    BY <1>7 DEF Answered, SendToggle
  <2>2. switch' = [switch EXCEPT !.pending = FALSE] /\ calls' = calls \o more
    <3>1. /\ switch' = Answered(switch, sim).switch
          /\ calls' = calls \o Answered(switch, sim).calls
      BY <1>3, <1>7 DEF Dispatch
    <3> HIDE DEF more
    <3> QED
      BY <2>1, <3>1
  <2>3. limit = 1 /\ sim \in {0, 1} /\ switch.requested \in {0, 1} /\ ~switch.valid
    BY <1>1, <1>7 DEF Kept, Limits, CalmInv, InRange, SwitchStates, Values
  <2>4. more \in Seq(CallsOf(kind))
    <3>1. "toggle" \in CallsOf(kind)
      BY <1>7 DEF CallsOf
    <3> QED
      BY <3>1
  <2>5. End' = switch.requested
    <3>1. End' = Course(sim, more)[Len(more)]
      BY <1>2, <1>3, <1>4, <2>2, <2>4, EndSent
    <3>2. CASE switch.requested = sim
      <4>1. more = <<>>
        BY <3>2
      <4> QED
        BY <3>1, <3>2, <4>1, CourseEmpty
    <3>3. CASE switch.requested # sim
      <4>1. more = <<"toggle">>
        BY <3>3
      <4>2. End' = After(sim, "toggle")
        BY <3>1, <4>1, CourseOfOne
      <4>3. After(sim, "toggle") = 1 - sim
        BY DEF After
      <4> QED
        BY <2>3, <3>3, <4>2, <4>3
    <3> QED
      BY <3>2, <3>3
  <2>6. calls' \in Seq(CallsOf(kind)) /\ NoQuestion(calls')
    <3>1. calls' = more
      BY <1>2, <2>2, <2>4
    <3> QED
      BY <2>4, <3>1 DEF NoQuestion
  <2>7. OneQuestion'
    BY <1>3, <2>6, AnsweredOK
  <2>8. ~switch'.valid /\ switch'.requested = switch.requested
    BY <1>1, <2>2, <2>3 DEF SwitchStates
  <2>9. InRange' /\ Synced' /\ Awaited'
    BY <1>1, <1>2, <1>7, <2>5, <2>8 DEF InRange, Synced, Awaited, CalmInv
  <2> QED
    BY <2>7, <2>9 DEF CalmInv
<1> QED
  BY <1>5, <1>6, <1>7

LEMMA HandleCalm == ASSUME Kept, CalmInv, Handle PROVE CalmInv'
<1>1. /\ calls \in Seq(CallsOf(kind)) /\ calls # <<>> /\ calls' = Tail(calls)
      /\ UNCHANGED <<kind, session, switch, limit, asked>>
      /\ \A i \in 1 .. Len(calls) - 1 : calls[i] # "query"
      /\ answers = <<>>
  BY DEF Kept, Handle, CalmInv, OneQuestion
<1>2. End' = End
  BY EndHandled
<1>3. /\ Len(calls) \in Nat \ {0} /\ Len(calls') = Len(calls) - 1 /\ Head(calls) = calls[1]
      /\ \A i \in 1 .. Len(calls) - 1 : calls'[i] = calls[i + 1]
      /\ calls' \in Seq(CallsOf(kind))
  BY <1>1
<1>4. OneQuestion'
  <2>1. CASE Head(calls) = "query"
    <3>1. Len(calls) = 1
      <4>1. ~(1 \in 1 .. Len(calls) - 1)
        BY <1>1, <1>3, <2>1
      <4> QED
        BY <1>3, <4>1
    <3>2. calls' = <<>> /\ answers' = <<sim>> /\ sim' = sim
      BY <1>1, <1>3, <2>1, <3>1 DEF Handle
    <3>3. ~IsAnswered
      <4>1. ~NoQuestion(calls)
        BY <1>3, <2>1, <3>1 DEF NoQuestion
      <4> QED
        BY <1>1, <4>1, NoQuestionRange DEF IsAnswered
    <3> QED
      BY <1>1, <3>2, <3>3 DEF CalmInv, OneQuestion
  <2>2. CASE Head(calls) # "query"
    <3>1. answers' = <<>>
      BY <1>1, <2>2 DEF Handle
    <3>2. ASSUME NEW i \in 1 .. Len(calls') - 1 PROVE calls'[i] # "query"
      <4>1. i + 1 \in 1 .. Len(calls) - 1 /\ i \in 1 .. Len(calls) - 1
        BY <1>3
      <4> QED
        BY <1>1, <1>3, <4>1
    <3>3. ASSUME ~IsAnswered' PROVE ~IsAnswered
      <4>1. ~NoQuestion(calls')
        BY <1>3, <3>1, <3>3, NoQuestionRange DEF IsAnswered
      <4>2. PICK i \in 1 .. Len(calls') : calls'[i] = "query"
        BY <4>1 DEF NoQuestion
      <4>3. i \in 1 .. Len(calls) - 1 /\ i + 1 \in 1 .. Len(calls)
        BY <1>3
      <4>4. ~NoQuestion(calls)
        BY <1>3, <4>2, <4>3 DEF NoQuestion
      <4> QED
        BY <1>1, <4>4, NoQuestionRange DEF IsAnswered
    <3> QED
      BY <1>1, <3>1, <3>2, <3>3 DEF CalmInv, OneQuestion
  <2> QED
    BY <2>1, <2>2
<1> QED
  BY <1>1, <1>2, <1>4 DEF CalmInv, InRange, Synced, Awaited

LEMMA InitCalm == ASSUME Kept, Init PROVE CalmInv
<1>1. NoQuestion(calls) /\ calls \in Seq({}) /\ answers = <<>> /\ limit \in Nat
  BY BoundsAssumption DEF Init, NoQuestion, Kept, Limits, Values
<1>2. IsAnswered
  BY <1>1, NoQuestionRange DEF IsAnswered
<1>3. OneQuestion
  BY <1>1, <1>2 DEF OneQuestion, Init
<1> QED
  BY <1>1, <1>3 DEF Init, CalmInv, InRange, Synced, Awaited, Reset

LEMMA NextCalm == Inv /\ [Next]_vars => Inv'
<1> SUFFICES ASSUME Kept, disturbed \/ CalmInv, [Next]_vars, ~disturbed' PROVE CalmInv'
  BY NextKept DEF Inv
<1>1. CASE Operate
  BY <1>1, OperateCalm
<1>2. ASSUME NEW v \in Asks, Frame(v) PROVE CalmInv'
  BY <1>2, FrameCalm
<1>3. CASE Handle \/ Dispatch
  <2>1. CalmInv
    BY <1>3 DEF Handle, Dispatch
  <2> QED
    BY <1>3, <2>1, HandleCalm, DispatchCalm
<1>4. ASSUME NEW v \in 0 .. limit, Move(v) PROVE CalmInv'
  <2>1. /\ CalmInv /\ ~switch.valid /\ IsAnswered /\ calls = <<>> /\ asked' = None
        /\ UNCHANGED <<kind, switch, limit, calls, answers>>
    BY <1>4 DEF Move, link
  <2>2. answers = <<>>
    BY <2>1 DEF IsAnswered
  <2> QED
    BY <2>1, <2>2 DEF CalmInv, OneQuestion, IsAnswered, InRange, Synced, Awaited
<1>5. CASE Restart
  <2>1. /\ CalmInv /\ ~switch.valid /\ calls' = <<>> /\ answers' = <<>> /\ asked' = None
        /\ UNCHANGED <<kind, switch, limit>>
    BY <1>5 DEF Restart
  <2>2. NoQuestion(calls') /\ calls' \in Seq({})
    BY <2>1 DEF NoQuestion
  <2>3. OneQuestion'
    BY <2>1, <2>2, AnsweredOK
  <2> QED
    BY <2>1, <2>3 DEF CalmInv, InRange, Synced, Awaited
<1>6. CASE UNCHANGED vars
  <2>1. UNCHANGED <<kind, switch, sim, limit, link, asked, disturbed>>
    BY <1>6 DEF vars, link
  <2> QED
    BY <2>1, SameKept
<1> QED
  BY <1>1, <1>2, <1>3, <1>4, <1>5, <1>6 DEF Next

LEMMA InvHolds == Spec => []Inv
<1>1. Init => Inv
  BY InitKept, InitCalm DEF Inv
<1> QED
  BY <1>1, NextCalm, PTL DEF Spec

\* When everything has been answered and handled, the switch in the simulator is where it
\* has been asked to be (needsUpdate, sendLight, sendFlapsHandleIndex, sendSimulationRate),
\* unless it has been disturbed since it has last been reset with no answer under way.
THEOREM SwitchAsRequested == Spec => []AsRequested
<1>1. Inv => AsRequested
  <2> SUFFICES ASSUME Inv, ~disturbed, calls = <<>>, ~switch.pending, asked # None
               PROVE  sim = asked
    BY DEF AsRequested
  <2>1. End = sim
    BY EndEmpty
  <2> QED
    BY <2>1 DEF Inv, CalmInv, Synced, Awaited
<1> QED
  BY <1>1, InvHolds, PTL

\* The state that the plugin believes in (EventState.h:101) is the one that the simulator
\* has when it has handled the calls under way, unless the switch has been disturbed since
\* it has last been reset with no answer under way.
THEOREM SwitchInSync == Spec => []InSync
<1>1. Inv => InSync
  BY DEF Inv, CalmInv, Synced, InSync, End
<1> QED
  BY <1>1, InvHolds, PTL

=============================================================================
