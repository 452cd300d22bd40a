----------------------------- MODULE SessionProofs -----------------------------
(***************************************************************************)
(* Proofs about LogBus, FrameServices and Settings, for every capacity,    *)
(* every stream of messages and frames and any number of sessions.         *)
(***************************************************************************)
EXTENDS LogBus, FrameServices, Settings, SequenceTheorems, FiniteSetTheorems,
        WellFoundedInduction, TLAPS

-----------------------------------------------------------------------------
(* The buffers of Recent. *)

\* A suffix of a sequence of S is a sequence of S with the entries of its end.
LEMMA NewestIsSuffix ==
  ASSUME NEW S, NEW s \in Seq(S), NEW n \in Nat \ {0}
  PROVE  /\ Newest(s, n) \in Seq(S)
         /\ Len(Newest(s, n)) = IF Len(s) <= n THEN Len(s) ELSE n
         /\ \A i \in 1..Len(Newest(s, n)) :
              Newest(s, n)[i] = s[Len(s) - Len(Newest(s, n)) + i]
<1>1. Len(s) \in Nat
  OBVIOUS
<1>2. CASE Len(s) <= n
  <2>1. Newest(s, n) = s
    BY <1>2 DEF Newest
  <2> QED BY <1>1, <1>2, <2>1
<1>3. CASE ~(Len(s) <= n)
  <2> DEFINE first == Len(s) - n + 1
             t == SubSeq(s, first, Len(s))
  <2>1. Newest(s, n) = t
    BY <1>3 DEF Newest
  <2>2. first \in 1..Len(s) /\ Len(s) - first + 1 = n /\ Len(s) - n = first - 1
    BY <1>1, <1>3
  <2>3. \A i \in first..Len(s) : s[i] \in S
    BY <2>2
  <2> HIDE DEF first
  <2>4. /\ t \in Seq(S)
        /\ Len(t) = n
        /\ \A i \in 1..n : t[i] = s[first + i - 1]
    <3>1. /\ t \in Seq(S)
          /\ Len(t) = IF first <= Len(s) THEN Len(s) - first + 1 ELSE 0
          /\ \A i \in 1..(Len(s) - first + 1) : t[i] = s[first + i - 1]
      BY <1>1, <2>2, <2>3, SubSeqProperties
    <3> QED BY <1>1, <2>2, <3>1
  <2>5. ASSUME NEW i \in 1..n
        PROVE  t[i] = s[Len(s) - n + i]
    <3>1. first + i - 1 = Len(s) - n + i
      BY <1>1, <2>2
    <3> QED BY <2>4, <3>1
  <2> HIDE DEF t
  <2> QED BY <1>3, <2>1, <2>4, <2>5
<1> QED BY <1>2, <1>3

\* Two sequences of one length with the same entries are the same.
LEMMA SameEntries ==
  ASSUME NEW S, NEW s \in Seq(S), NEW t \in Seq(S), Len(s) = Len(t),
         \A i \in 1..Len(s) : s[i] = t[i]
  PROVE  s = t
  OBVIOUS

\* A push into the buffer that holds the newest entries of a stream leaves it
\* with the newest entries of the longer stream.
LEMMA PushKeepsNewest ==
  ASSUME NEW S, NEW s \in Seq(S), NEW x \in S, NEW cap \in Nat \ {0}
  PROVE  PushRecent(Newest(s, cap), x, cap) = Newest(Append(s, x), cap)
<1> DEFINE q0 == Newest(s, cap)
           kept == IF Len(q0) >= cap THEN Tail(q0) ELSE q0
           lhs == Append(kept, x)
           longer == Append(s, x)
           rhs == Newest(longer, cap)
<1>1. /\ q0 \in Seq(S)
      /\ Len(q0) = IF Len(s) <= cap THEN Len(s) ELSE cap
      /\ \A i \in 1..Len(q0) : q0[i] = s[Len(s) - Len(q0) + i]
  BY NewestIsSuffix
<1>2. /\ Append(s, x) \in Seq(S)
      /\ Len(Append(s, x)) = Len(s) + 1
      /\ \A i \in 1..(Len(s) + 1) :
           Append(s, x)[i] = IF i <= Len(s) THEN s[i] ELSE x
  OBVIOUS
<1>3. /\ rhs \in Seq(S)
      /\ Len(rhs) = IF Len(longer) <= cap THEN Len(longer) ELSE cap
      /\ \A i \in 1..Len(rhs) : rhs[i] = longer[Len(longer) - Len(rhs) + i]
  <2>1. longer \in Seq(S)
    BY <1>2
  <2> HIDE DEF longer
  <2> QED BY <2>1, NewestIsSuffix
<1>4. /\ kept \in Seq(S)
      /\ Len(kept) = IF Len(s) + 1 <= cap THEN Len(s) ELSE cap - 1
      /\ \A i \in 1..Len(kept) : kept[i] = s[Len(s) - Len(kept) + i]
  <2> HIDE DEF q0
  <2>1. CASE Len(q0) >= cap
    <3>1. q0 # <<>>
      BY <2>1, <1>1
    <3>2. /\ Tail(q0) \in Seq(S) /\ Len(Tail(q0)) = Len(q0) - 1
          /\ \A i \in 1..Len(Tail(q0)) : Tail(q0)[i] = q0[i + 1]
      BY <3>1, <1>1
    <3>3. Len(q0) = cap /\ Len(s) >= cap /\ Len(s) \in Nat
      BY <2>1, <1>1
    <3>4. kept = Tail(q0)
      BY <2>1
    <3>5. \A i \in 1..(cap - 1) : kept[i] = s[Len(s) - (cap - 1) + i]
      <4> TAKE i \in 1..(cap - 1)
      <4>1. i \in 1..Len(Tail(q0)) /\ i + 1 \in 1..Len(q0)
        BY <3>2, <3>3
      <4>2. Len(s) - Len(q0) + (i + 1) = Len(s) - (cap - 1) + i
        BY <3>3
      <4> QED BY <3>2, <3>4, <1>1, <4>1, <4>2
    <3>6. Len(kept) = cap - 1 /\ kept \in Seq(S) /\ ~(Len(s) + 1 <= cap)
      BY <3>2, <3>3, <3>4
    <3> HIDE DEF kept
    <3> QED BY <3>5, <3>6
  <2>2. CASE ~(Len(q0) >= cap)
    <3>1. kept = q0
      BY <2>2
    <3>2. Len(s) \in Nat /\ Len(q0) = Len(s) /\ Len(s) + 1 <= cap
      BY <2>2, <1>1
    <3> HIDE DEF kept
    <3> QED BY <1>1, <3>1, <3>2
  <2> HIDE DEF kept
  <2> QED BY <2>1, <2>2
<1>5. /\ lhs \in Seq(S)
      /\ Len(lhs) = Len(rhs)
      /\ \A i \in 1..Len(lhs) : lhs[i] = IF i <= Len(kept) THEN kept[i] ELSE x
  <2> HIDE DEF kept, rhs
  <2> QED BY <1>2, <1>3, <1>4
<1>6. \A i \in 1..Len(lhs) : lhs[i] = rhs[i]
  <2> TAKE i \in 1..Len(lhs)
  <2>0. Len(longer) = Len(s) + 1
    BY <1>2
  <2> HIDE DEF kept, rhs, lhs, longer
  <2>1. Len(s) \in Nat /\ Len(lhs) = Len(kept) + 1 /\ Len(kept) \in Nat
    BY <1>3, <1>4, <1>5, <2>0
  <2>2. CASE i <= Len(kept)
    <3>1. lhs[i] = s[Len(s) - Len(kept) + i]
      <4>1. i \in 1..Len(kept)
        BY <2>1, <2>2
      <4>2. lhs[i] = kept[i]
        BY <1>5, <2>2
      <4>3. kept[i] = s[Len(s) - Len(kept) + i]
        BY <1>4, <4>1
      <4> QED BY <4>2, <4>3
    <3>2. /\ Len(longer) - Len(rhs) + i = Len(s) - Len(kept) + i
          /\ Len(s) - Len(kept) + i \in 1..Len(s)
      BY <1>4, <1>5, <2>0, <2>1, <2>2
    <3>3. rhs[i] = longer[Len(s) - Len(kept) + i]
      BY <1>3, <1>5, <3>2
    <3> QED BY <1>2, <3>1, <3>2, <3>3 DEF longer
  <2>3. CASE i = Len(kept) + 1
    <3>1. lhs[i] = x
      BY <1>5, <2>1, <2>3
    <3>2. Len(longer) - Len(rhs) + i = Len(s) + 1
      BY <1>5, <2>0, <2>1, <2>3
    <3>3. rhs[i] = longer[Len(s) + 1]
      BY <1>3, <1>5, <3>2
    <3> QED BY <1>2, <2>1, <3>1, <3>3 DEF longer
  <2> QED BY <2>1, <2>2, <2>3
<1>7. lhs = rhs
  <2> HIDE DEF kept, rhs, lhs
  <2> QED BY <1>3, <1>5, <1>6, SameEntries
<1> QED BY <1>7 DEF PushRecent

\* The newest entries of a buffer with the newest entries of a stream are those of
\* the stream.
LEMMA NewestOfNewest ==
  ASSUME NEW S, NEW s \in Seq(S), NEW n \in Nat \ {0}, NEW cap \in Nat, n <= cap
  PROVE  Newest(Newest(s, cap), n) = Newest(s, n)
<1> DEFINE q0 == Newest(s, cap)
           lhs == Newest(q0, n)
           rhs == Newest(s, n)
<1>1. /\ q0 \in Seq(S)
      /\ Len(q0) = IF Len(s) <= cap THEN Len(s) ELSE cap
      /\ \A i \in 1..Len(q0) : q0[i] = s[Len(s) - Len(q0) + i]
  <2>1. cap \in Nat \ {0}
    OBVIOUS
  <2> QED BY <2>1, NewestIsSuffix
<1>2. /\ rhs \in Seq(S)
      /\ Len(rhs) = IF Len(s) <= n THEN Len(s) ELSE n
      /\ \A i \in 1..Len(rhs) : rhs[i] = s[Len(s) - Len(rhs) + i]
  BY NewestIsSuffix
<1>3. /\ lhs \in Seq(S)
      /\ Len(lhs) = IF Len(q0) <= n THEN Len(q0) ELSE n
      /\ \A i \in 1..Len(lhs) : lhs[i] = q0[Len(q0) - Len(lhs) + i]
  <2> HIDE DEF q0
  <2> QED BY <1>1, NewestIsSuffix
<1> HIDE DEF q0, lhs, rhs
<1>4. Len(s) \in Nat /\ Len(lhs) = Len(rhs)
  BY <1>1, <1>2, <1>3
<1>5. \A i \in 1..Len(lhs) : lhs[i] = rhs[i]
  <2> TAKE i \in 1..Len(lhs)
  <2> DEFINE j == Len(q0) - Len(lhs) + i
  <2>1. j \in 1..Len(q0) /\ Len(s) - Len(q0) + j = Len(s) - Len(rhs) + i
    <3>1. /\ Len(s) \in Nat /\ Len(q0) \in Nat /\ Len(lhs) \in Nat
          /\ Len(lhs) <= Len(q0) /\ Len(lhs) = Len(rhs)
      BY <1>1, <1>3, <1>4
    <3>2. i \in Nat /\ 1 <= i /\ i <= Len(lhs)
      BY <3>1
    <3> QED BY <3>1, <3>2
  <2>2. lhs[i] = q0[j]
    BY <1>3
  <2> HIDE DEF j
  <2>3. q0[j] = s[Len(s) - Len(rhs) + i]
    BY <1>1, <2>1
  <2> QED BY <1>2, <1>4, <2>2, <2>3
<1> QED BY <1>2, <1>3, <1>4, <1>5, SameEntries DEF lhs, rhs, q0

-----------------------------------------------------------------------------
(* LogBus *)

LogInv == logged \in Seq(Levels) /\ q = Newest(logged, Cap)

LEMMA LogInvHolds == LogSpec => []LogInv
<1>1. LogInit => LogInv
  BY LogAssumption DEF LogInit, LogInv, Newest
<1>2. LogInv /\ [LogNext]_logVars => LogInv'
  <2> SUFFICES ASSUME LogInv, [LogNext]_logVars
               PROVE  LogInv'
    OBVIOUS
  <2>1. ASSUME NEW lvl \in Levels, LogMessage(lvl)
        PROVE  LogInv'
    <3>1. Cap \in Nat \ {0}
      BY LogAssumption
    <3>2. logged' = Append(logged, lvl) /\ q' = PushRecent(q, lvl, Cap)
      BY <2>1 DEF LogMessage
    <3>3. logged' \in Seq(Levels)
      BY <3>2 DEF LogInv
    <3>4. q' = Newest(logged', Cap)
      BY <3>1, <3>2, PushKeepsNewest DEF LogInv
    <3> QED BY <3>3, <3>4 DEF LogInv
  <2>2. CASE ChooseFilter
    BY <2>2 DEF ChooseFilter, LogInv
  <2>3. CASE UNCHANGED logVars
    BY <2>3 DEF logVars, LogInv
  <2> QED BY <2>1, <2>2, <2>3 DEF LogNext
<1> QED BY <1>1, <1>2, PTL DEF LogSpec

\* The log panel shows the newest messages its filter lets through, for every
\* capacity of the bus that is at least what the panel asks for.
THEOREM PanelIsNewest == LogSpec => []PanelShowsNewest
<1>1. LogInv => PanelShowsNewest
  <2> SUFFICES ASSUME LogInv PROVE PanelShowsNewest
    OBVIOUS
  <2>1. Newest(q, PanelMax) = Newest(logged, PanelMax)
    BY LogAssumption, NewestOfNewest DEF LogInv
  <2> QED BY <2>1 DEF PanelShowsNewest, Shown, Snapshot
<1> QED BY <1>1, LogInvHolds, PTL

-----------------------------------------------------------------------------
(* FrameServices: the window of the frame times and what is saved of it. *)

WindowInv ==
  /\ frames \in Seq(Nat)
  /\ samples = Newest(frames, Window)

LEMMA WindowStep == WindowInv /\ [ServicesNext]_serviceVars => WindowInv'
<1> SUFFICES ASSUME WindowInv, [ServicesNext]_serviceVars
             PROVE  WindowInv'
  OBVIOUS
<1>1. ASSUME NEW ms \in Durations, Calls(ms)
      PROVE  WindowInv'
  <2>1. ms \in Nat /\ Window \in Nat \ {0}
    BY ServicesAssumption
  <2>2. frames' = Append(frames, ms) /\ samples' = PushRecent(samples, ms, Window)
    BY <1>1 DEF Calls, PushSample
  <2>3. frames' \in Seq(Nat)
    BY <2>1, <2>2 DEF WindowInv
  <2>4. samples' = Newest(frames', Window)
    BY <2>1, <2>2, PushKeepsNewest DEF WindowInv
  <2> QED BY <2>3, <2>4 DEF WindowInv
<1>2. CASE /\ ~ \E ms \in Durations : Calls(ms)
           /\ ServicesNext
  <2>1. UNCHANGED <<frames, samples>>
    BY <1>2 DEF ServicesNext, PressF9, NoKey, SaveAfterCalls, NoSave,
                FlushTelemetry, Swap, HeadlessExit, QuitUnsaved, metricVars
  <2> QED BY <2>1 DEF WindowInv
<1>3. CASE UNCHANGED serviceVars
  BY <1>3 DEF serviceVars, metricVars, WindowInv
<1> QED BY <1>1, <1>2, <1>3

VerdictInv ==
  /\ WindowInv
  /\ verdict \in {"pass", "fail"} => at = "over"
  /\ ArtifactsTellVerdict

\* Whatever a headless run has saved before, the files of its end are those of its
\* verdict, for every window and every length of the run.
THEOREM ArtifactsAreOfTheVerdict == ServicesSpec => []ArtifactsTellVerdict
<1>1. ServicesInit => VerdictInv
  BY ServicesAssumption
     DEF ServicesInit, VerdictInv, WindowInv, ArtifactsTellVerdict, Newest
<1>2. VerdictInv /\ [ServicesNext]_serviceVars => VerdictInv'
  <2> SUFFICES ASSUME VerdictInv, [ServicesNext]_serviceVars
               PROVE  VerdictInv'
    OBVIOUS
  <2>1. WindowInv'
    BY WindowStep DEF VerdictInv
  <2>2. CASE HeadlessExit
    <3>1. /\ at' = "over" /\ second' = second /\ marks' = marks
          /\ frames' = frames /\ samples' = samples
          /\ verdict' = IF P99(samples) <= Limit THEN "pass" ELSE "fail"
      BY <2>2 DEF HeadlessExit, metricVars
    <3>2. second \in DOMAIN saved' /\ saved'[second] = Session
      BY <2>2 DEF HeadlessExit, SaveArtifacts
    <3>3. Session.samples = samples /\ Session.marks = Len(marks)
      BY DEF Session
    <3>4. samples = Newest(frames, Window)
      BY DEF VerdictInv, WindowInv
    <3>5. verdict' = "pass" <=> P99(samples) <= Limit
      BY <3>1
    <3>6. ArtifactsTellVerdict'
      <4> SUFFICES /\ second' \in DOMAIN saved'
                   /\ saved'[second'].samples = Newest(frames', Window)
                   /\ saved'[second'].marks = Len(marks')
                   /\ verdict' = "pass" <=> P99(saved'[second'].samples) <= Limit
        BY Zenon DEF ArtifactsTellVerdict, P99, SortedAt, Rank
      <4> QED BY <3>1, <3>2, <3>3, <3>4, <3>5
    <3> QED BY <2>1, <3>1, <3>6 DEF VerdictInv
  <2>3. CASE ServicesNext /\ ~HeadlessExit
    <3>1. at # "over" /\ (verdict' = verdict \/ verdict' = "quit")
      BY <2>3 DEF ServicesNext, PressF9, NoKey, SaveAfterCalls, NoSave, Calls,
                  FlushTelemetry, Swap, QuitUnsaved
    <3>2. verdict' \notin {"pass", "fail"}
      BY <3>1 DEF VerdictInv
    <3> QED BY <2>1, <3>2 DEF VerdictInv, ArtifactsTellVerdict
  <2>4. CASE UNCHANGED serviceVars
    <3>1. ArtifactsTellVerdict' <=> ArtifactsTellVerdict
      BY <2>4 DEF serviceVars, metricVars, ArtifactsTellVerdict, P99
    <3> QED BY <2>1, <2>4, <3>1 DEF serviceVars, VerdictInv
  <2> QED BY <2>2, <2>3, <2>4
<1>3. VerdictInv => ArtifactsTellVerdict
  BY DEF VerdictInv
<1> QED BY <1>1, <1>2, <1>3, PTL DEF ServicesSpec

-----------------------------------------------------------------------------
(* Counting the entries of a sequence. *)

UpTo(s, v) == {i \in DOMAIN s : s[i] <= v}
Less(s, v) == {i \in DOMAIN s : s[i] < v}

LEMMA Counts ==
  ASSUME NEW s \in Seq(Nat), NEW A \in SUBSET DOMAIN s
  PROVE  IsFiniteSet(A) /\ Cardinality(A) \in Nat
  <1>1. DOMAIN s = 1..Len(s) /\ Len(s) \in Nat
    OBVIOUS
  <1>2. IsFiniteSet(DOMAIN s)
    BY <1>1, FS_Interval
  <1> QED BY <1>2, FS_Subset, FS_CardinalityType

LEMMA FewerCount ==
  ASSUME NEW s \in Seq(Nat), NEW B \in SUBSET DOMAIN s, NEW A \in SUBSET B
  PROVE  /\ Cardinality(A) \in Nat /\ Cardinality(B) \in Nat
         /\ Cardinality(A) <= Cardinality(B)
         /\ A # B => Cardinality(A) < Cardinality(B)
  <1>1. IsFiniteSet(B) /\ Cardinality(B) \in Nat /\ Cardinality(A) \in Nat
    BY Counts
  <1>2. Cardinality(A) <= Cardinality(B) /\ (Cardinality(B) = Cardinality(A) => B = A)
    BY <1>1, FS_Subset
  <1> QED BY <1>1, <1>2

LEMMA FastAndSlow ==
  ASSUME NEW s \in Seq(Nat), NEW v \in Nat
  PROVE  Cardinality(Slow(s, v)) = Len(s) - Cardinality(UpTo(s, v))
  <1> DEFINE D == DOMAIN s
  <1>1. D = 1..Len(s) /\ Len(s) \in Nat /\ \A i \in D : s[i] \in Nat
    OBVIOUS
  <1>2. IsFiniteSet(D) /\ Cardinality(D) = Len(s)
    <2>1. /\ IsFiniteSet(1..Len(s))
          /\ Cardinality(1..Len(s)) = IF 1 > Len(s) THEN 0 ELSE Len(s) - 1 + 1
      BY <1>1, FS_Interval
    <2> QED BY <1>1, <2>1
  <1>3. Slow(s, v) = D \ UpTo(s, v) /\ D \cap UpTo(s, v) = UpTo(s, v)
    BY <1>1 DEF Slow, UpTo
  <1> HIDE DEF D
  <1> QED BY <1>2, <1>3, FS_Difference

\* The number of slow entries when one is added at the end.
LEMMA SlowAppended ==
  ASSUME NEW s \in Seq(Nat), NEW x \in Nat, NEW b \in Nat
  PROVE  Cardinality(Slow(Append(s, x), b)) =
           IF x > b THEN Cardinality(Slow(s, b)) + 1 ELSE Cardinality(Slow(s, b))
  <1> DEFINE t == Append(s, x)
  <1>1. /\ Len(s) \in Nat /\ DOMAIN s = 1..Len(s) /\ DOMAIN t = 1..(Len(s) + 1)
        /\ \A i \in 1..Len(s) : t[i] = s[i]
        /\ t[Len(s) + 1] = x
    OBVIOUS
  <1>2. IsFiniteSet(Slow(s, b)) /\ Len(s) + 1 \notin Slow(s, b)
    <2>1. Slow(s, b) \in SUBSET DOMAIN s
      BY DEF Slow
    <2> QED BY <1>1, <2>1, Counts
  <1> HIDE DEF t
  <1>3. Slow(t, b) = IF x > b THEN Slow(s, b) \cup {Len(s) + 1} ELSE Slow(s, b)
    BY <1>1 DEF Slow
  <1>4. Cardinality(Slow(s, b) \cup {Len(s) + 1}) = Cardinality(Slow(s, b)) + 1
    BY <1>2, FS_AddElement
  <1> QED BY <1>3, <1>4 DEF t

\* There are not more of them when the first entry goes.
LEMMA SlowOfTail ==
  ASSUME NEW s \in Seq(Nat), s # <<>>, NEW b \in Nat
  PROVE  /\ Tail(s) \in Seq(Nat)
         /\ Cardinality(Slow(Tail(s), b)) <= Cardinality(Slow(s, b))
  <1> DEFINE t == Tail(s)
             A == Slow(t, b)
             B == Slow(s, b)
             f == [i \in A |-> i + 1]
  <1>1. /\ t \in Seq(Nat) /\ Len(s) \in Nat /\ Len(s) >= 1
        /\ DOMAIN s = 1..Len(s) /\ DOMAIN t = 1..(Len(s) - 1)
        /\ \A i \in 1..(Len(s) - 1) : t[i] = s[i + 1]
    OBVIOUS
  <1> HIDE DEF t
  <1>2. \A i \in A : i \in 1..(Len(s) - 1) /\ i + 1 \in B
    BY <1>1 DEF Slow
  <1>3. IsFiniteSet(B)
    <2>1. B \in SUBSET DOMAIN s
      BY DEF Slow
    <2> HIDE DEF B
    <2> QED BY <2>1, Counts
  <1> HIDE DEF A, B
  <1>4. f \in [A -> B]
    BY <1>2
  <1>5. \A i, j \in A : f[i] = f[j] => i = j
    BY <1>1, <1>2
  <1>6. f \in Injection(A, B)
    BY <1>4, <1>5 DEF Injection, IsInjective
  <1>7. Cardinality(A) <= Cardinality(B)
    BY <1>3, <1>6, FS_Injection
  <1> QED BY <1>1, <1>7 DEF t, A, B

-----------------------------------------------------------------------------
(* FrameServices: the dropped frames. *)

DropInv == WindowInv /\ dropped \in Nat /\ DroppedNeverUnderstates

\* The count of dropped frames never falls below what the window shows: for every
\* window and budget, pushes keep what has left the window.
THEOREM DropsAreCounted == ServicesSpec => []DroppedNeverUnderstates
<1>1. ServicesInit => DropInv
  <2> SUFFICES ASSUME ServicesInit PROVE DropInv
    OBVIOUS
  <2>1. samples = <<>> /\ frames = <<>> /\ dropped = 0
    BY DEF ServicesInit
  <2>2. Slow(samples, Budget) = {}
    BY <2>1 DEF Slow
  <2>3. WindowInv
    BY <2>1, ServicesAssumption DEF WindowInv, Newest
  <2> QED BY <2>1, <2>2, <2>3, FS_EmptySet DEF DropInv, DroppedNeverUnderstates
<1>2. DropInv /\ [ServicesNext]_serviceVars => DropInv'
  <2> SUFFICES ASSUME DropInv, [ServicesNext]_serviceVars
               PROVE  DropInv'
    OBVIOUS
  <2>0. WindowInv /\ WindowInv'
    BY WindowStep DEF DropInv
  <2>1. ASSUME NEW ms \in Durations, Calls(ms)
        PROVE  DropInv'
    <3> DEFINE kept == IF Len(samples) >= Window THEN Tail(samples) ELSE samples
               was == Cardinality(Slow(samples, Budget))
               stay == Cardinality(Slow(kept, Budget))
               slow == Cardinality(Slow(samples', Budget))
    <3>1. ms \in Nat /\ Window \in Nat \ {0} /\ Budget \in Nat
      BY ServicesAssumption
    <3>2. /\ samples' = Append(kept, ms)
          /\ dropped' = IF ms > Budget THEN dropped + 1 ELSE dropped
          /\ frames' = Append(frames, ms)
      BY <2>1 DEF Calls, PushSample, PushRecent
    <3>3. /\ samples \in Seq(Nat) /\ Len(samples) \in Nat
          /\ Len(samples) = IF Len(frames) <= Window THEN Len(frames) ELSE Window
          /\ frames \in Seq(Nat) /\ Len(frames) \in Nat
          /\ Len(frames') = Len(frames) + 1
      BY <2>0, <3>1, <3>2, NewestIsSuffix DEF WindowInv
    <3>4. /\ kept \in Seq(Nat)
          /\ stay <= was
          /\ Len(frames') <= Window => stay = was
      <4>1. CASE Len(samples) >= Window
        <5>1. samples # <<>> /\ kept = Tail(samples)
          BY <3>1, <3>3, <4>1
        <5>2. ~(Len(frames') <= Window)
          BY <3>1, <3>3, <4>1
        <5>3. Tail(samples) \in Seq(Nat)
              /\ Cardinality(Slow(Tail(samples), Budget)) <= was
          BY <3>1, <3>3, <5>1, SlowOfTail
        <5> QED BY <5>1, <5>2, <5>3
      <4>2. CASE ~(Len(samples) >= Window)
        <5>1. kept = samples
          BY <4>2
        <5>2. was \in Nat
          <6>1. Slow(samples, Budget) \in SUBSET DOMAIN samples
            BY DEF Slow
          <6> QED BY <3>3, <6>1, Counts
        <5>3. stay = was
          BY <5>1
        <5> HIDE DEF kept, stay, was
        <5> QED BY <3>3, <5>1, <5>2, <5>3
      <4> QED BY <4>1, <4>2
    <3>5. was \in Nat /\ stay \in Nat
      <4>1. Slow(samples, Budget) \in SUBSET DOMAIN samples
            /\ Slow(kept, Budget) \in SUBSET DOMAIN kept
        BY DEF Slow
      <4> HIDE DEF kept
      <4> QED BY <3>3, <3>4, <4>1, Counts
    <3>6. slow = IF ms > Budget THEN stay + 1 ELSE stay
      <4> HIDE DEF kept
      <4> QED BY <3>1, <3>2, <3>4, SlowAppended
    <3>7. dropped \in Nat /\ dropped >= was /\ (Len(frames) <= Window => dropped = was)
      BY DEF DropInv, DroppedNeverUnderstates
    <3> HIDE DEF kept, was, stay, slow
    <3>8. dropped' \in Nat /\ dropped' >= slow
      BY <3>2, <3>4, <3>5, <3>6, <3>7
    <3>9. Len(frames') <= Window => dropped' = slow
      BY <3>1, <3>2, <3>3, <3>4, <3>5, <3>6, <3>7
    <3> QED BY <2>0, <3>8, <3>9 DEF DropInv, DroppedNeverUnderstates, slow
  <2>2. CASE UNCHANGED <<frames, samples, dropped>>
    BY <2>0, <2>2 DEF DropInv, DroppedNeverUnderstates, Slow
  <2>3. CASE ServicesNext /\ ~ \E ms \in Durations : Calls(ms)
    BY <2>2, <2>3 DEF ServicesNext, PressF9, NoKey, SaveAfterCalls, NoSave,
                      FlushTelemetry, Swap, HeadlessExit, QuitUnsaved, metricVars
  <2>4. CASE UNCHANGED serviceVars
    BY <2>2, <2>4 DEF serviceVars, metricVars
  <2> QED BY <2>1, <2>3, <2>4
<1>3. DropInv => DroppedNeverUnderstates
  BY DEF DropInv
<1> QED BY <1>1, <1>2, <1>3, PTL DEF ServicesSpec

-----------------------------------------------------------------------------
(* FrameServices: the percentile and the verdict. *)

LEMMA LeastNumber ==
  ASSUME NEW T \in SUBSET Nat, T # {}
  PROVE  \E x \in T : \A y \in T : x <= y
  <1>1. PICK x \in T : \A y \in T : ~(<<y, x>> \in OpToRel(<, Nat))
    BY NatLessThanWellFounded, WFMin
  <1>2. \A y \in T : ~(y < x)
    BY <1>1 DEF OpToRel
  <1> QED BY <1>2

\* A sequence that is not empty has a largest entry: the one with fewest above.
LEMMA LargestEntry ==
  ASSUME NEW s \in Seq(Nat), s # <<>>
  PROVE  \E m \in Nat : \A i \in DOMAIN s : s[i] <= m
  <1> DEFINE above(i) == Cardinality(Slow(s, s[i]))
             T == {above(i) : i \in DOMAIN s}
  <1>1. \A i \in DOMAIN s : s[i] \in Nat
    OBVIOUS
  <1>2. T \in SUBSET Nat
    <2>1. \A i \in DOMAIN s : Slow(s, s[i]) \in SUBSET DOMAIN s
      BY DEF Slow
    <2>2. \A i \in DOMAIN s : above(i) \in Nat
      BY <2>1, Counts
    <2> HIDE DEF above
    <2> QED BY <2>2
  <1>3. 1 \in DOMAIN s /\ T # {}
    <2>1. 1 \in DOMAIN s
      OBVIOUS
    <2> HIDE DEF above
    <2> QED BY <2>1
  <1>4. PICK k \in DOMAIN s : \A i \in DOMAIN s : above(k) <= above(i)
    <2>1. PICK x \in T : \A y \in T : x <= y
      <3> HIDE DEF T
      <3> QED BY <1>2, <1>3, LeastNumber
    <2>2. PICK k \in DOMAIN s : x = above(k)
      BY <2>1
    <2> HIDE DEF above
    <2> QED BY <2>1, <2>2
  <1>5. ASSUME NEW i \in DOMAIN s, s[i] > s[k]
        PROVE  FALSE
    <2>1. Slow(s, s[i]) \in SUBSET Slow(s, s[k])
      BY <1>1, <1>5 DEF Slow
    <2>2. i \in Slow(s, s[k]) /\ i \notin Slow(s, s[i])
      BY <1>1, <1>5 DEF Slow
    <2>3. Slow(s, s[k]) \in SUBSET DOMAIN s
      BY DEF Slow
    <2>4. above(i) < above(k) /\ above(i) \in Nat /\ above(k) \in Nat
      <3>1. Slow(s, s[i]) # Slow(s, s[k])
        BY <2>2
      <3> QED BY <2>1, <2>3, <3>1, FewerCount
    <2>5. above(k) <= above(i)
      BY <1>4
    <2> HIDE DEF above
    <2> QED BY <2>4, <2>5
  <1>6. \A i \in DOMAIN s : s[i] <= s[k]
    BY <1>1, <1>5
  <1> QED BY <1>1, <1>6

\* There is an entry at every index of the sorted sequence.
LEMMA SortedAtIsThere ==
  ASSUME NEW s \in Seq(Nat), NEW r \in 0..(Len(s) - 1)
  PROVE  /\ SortedAt(s, r) \in Nat
         /\ Cardinality(Less(s, SortedAt(s, r))) <= r
         /\ r < Cardinality(UpTo(s, SortedAt(s, r)))
  <1> DEFINE T == {v \in Nat : r < Cardinality(UpTo(s, v))}
             IsAt(x) == /\ Cardinality({i \in DOMAIN s : s[i] < x}) <= r
                        /\ r < Cardinality({i \in DOMAIN s : s[i] <= x})
  <1>1. /\ r \in Nat /\ Len(s) \in Nat /\ r < Len(s) /\ s # <<>>
        /\ DOMAIN s = 1..Len(s)
        /\ \A i \in DOMAIN s : s[i] \in Nat
    OBVIOUS
  <1>2. T # {}
    <2>1. PICK m \in Nat : \A i \in DOMAIN s : s[i] <= m
      BY <1>1, LargestEntry
    <2>2. Slow(s, m) = {}
      BY <1>1, <2>1 DEF Slow
    <2>3. Cardinality(Slow(s, m)) = 0
      BY <2>2, FS_EmptySet
    <2>4. UpTo(s, m) \in SUBSET DOMAIN s
      BY DEF UpTo
    <2>5. Cardinality(UpTo(s, m)) \in Nat
      BY <2>4, Counts
    <2>6. 0 = Len(s) - Cardinality(UpTo(s, m))
      BY <2>3, FastAndSlow
    <2>7. m \in T
      BY <1>1, <2>5, <2>6
    <2> QED BY <2>7
  <1>3. PICK x \in T : \A y \in T : x <= y
    <2>1. T \in SUBSET Nat
      OBVIOUS
    <2> HIDE DEF T
    <2> QED BY <1>2, <2>1, LeastNumber
  <1>4. x \in Nat /\ r < Cardinality(UpTo(s, x))
    OBVIOUS
  <1>5. Cardinality(Less(s, x)) <= r
    <2>1. CASE x = 0
      <3>1. Less(s, x) = {}
        BY <1>1, <2>1 DEF Less
      <3> QED BY <1>1, <3>1, FS_EmptySet
    <2>2. CASE x # 0
      <3>1. x - 1 \in Nat /\ ~(x <= x - 1)
        BY <1>4, <2>2
      <3>2. ~(r < Cardinality(UpTo(s, x - 1)))
        BY <1>3, <3>1
      <3>3. Less(s, x) = UpTo(s, x - 1)
        BY <1>1, <1>4, <3>1 DEF Less, UpTo
      <3>4. UpTo(s, x - 1) \in SUBSET DOMAIN s
        BY DEF UpTo
      <3>5. Cardinality(UpTo(s, x - 1)) \in Nat
        BY <3>4, Counts
      <3> QED BY <1>1, <3>2, <3>3, <3>5
    <2> QED BY <2>1, <2>2
  <1>6. x \in Range(s)
    <2>1. ASSUME x \notin Range(s)
          PROVE  FALSE
      <3>1. \A i \in DOMAIN s : s[i] # x
        BY <2>1 DEF Range
      <3>2. Less(s, x) = UpTo(s, x)
        BY <1>1, <1>4, <3>1 DEF Less, UpTo
      <3>3. UpTo(s, x) \in SUBSET DOMAIN s
        BY DEF UpTo
      <3>4. Cardinality(UpTo(s, x)) \in Nat
        BY <3>3, Counts
      <3> QED BY <1>1, <1>4, <1>5, <3>2, <3>4
    <2> QED BY <2>1
  <1>7. IsAt(x)
    BY <1>4, <1>5 DEF Less, UpTo
  <1>8. SortedAt(s, r) \in Range(s) /\ IsAt(SortedAt(s, r))
    <2>1. SortedAt(s, r) = CHOOSE y \in Range(s) : IsAt(y)
      BY DEF SortedAt
    <2> HIDE DEF IsAt
    <2> QED BY <1>6, <1>7, <2>1
  <1>9. Range(s) \subseteq Nat
    BY <1>1 DEF Range
  <1> QED BY <1>8, <1>9 DEF Less, UpTo

\* The 99th percentile is at most a limit when at most one entry in a hundred,
\* rounded up, is above it.
LEMMA PercentileCounts ==
  ASSUME NEW s \in Seq(Nat), s # <<>>, NEW most \in Nat
  PROVE  P99(s) <= most <=> Cardinality(Slow(s, most)) <= (Len(s) + 98) \div 100
  <1> DEFINE n == Len(s)
             r == Rank(n, 99)
             p == SortedAt(s, r)
             fast == Cardinality(UpTo(s, most))
  <1>1. n \in Nat /\ n >= 1 /\ \A i \in DOMAIN s : s[i] \in Nat
    OBVIOUS
  <1>2. P99(s) = p
    BY DEF P99
  <1>3. r \in 0..(n - 1) /\ n - 1 - r = (n + 98) \div 100
    <2> HIDE DEF n
    <2>1. r = (99 * (n - 1)) \div 100
      BY DEF Rank
    <2> HIDE DEF r
    <2> QED BY <1>1, <2>1
  <1>4. /\ p \in Nat
        /\ Cardinality(Less(s, p)) <= r
        /\ r < Cardinality(UpTo(s, p))
    <2> HIDE DEF r
    <2> QED BY <1>3, SortedAtIsThere DEF n
  <1>5. /\ UpTo(s, most) \in SUBSET DOMAIN s
        /\ UpTo(s, p) \in SUBSET DOMAIN s
        /\ Less(s, p) \in SUBSET DOMAIN s
    BY DEF UpTo, Less
  <1>6. /\ Cardinality(Slow(s, most)) = n - fast
        /\ fast \in Nat /\ Cardinality(UpTo(s, p)) \in Nat /\ Cardinality(Less(s, p)) \in Nat
    BY <1>5, FastAndSlow, Counts
  <1> HIDE DEF p, r, n
  <1>7. ASSUME p <= most
        PROVE  r < fast
    <2>1. UpTo(s, p) \in SUBSET UpTo(s, most)
      BY <1>1, <1>4, <1>7 DEF UpTo
    <2>2. Cardinality(UpTo(s, p)) <= fast
      BY <1>5, <2>1, FewerCount
    <2> HIDE DEF fast
    <2> QED BY <1>3, <1>4, <1>6, <2>2
  <1>8. ASSUME ~(p <= most)
        PROVE  ~(r < fast)
    <2>1. UpTo(s, most) \in SUBSET Less(s, p)
      BY <1>1, <1>4, <1>8 DEF UpTo, Less
    <2>2. fast <= Cardinality(Less(s, p))
      BY <1>5, <2>1, FewerCount
    <2> HIDE DEF fast
    <2> QED BY <1>3, <1>4, <1>6, <2>2
  <1>9. r < fast <=> Cardinality(Slow(s, most)) <= n - 1 - r
    <2> HIDE DEF fast
    <2> QED BY <1>1, <1>3, <1>6
  <1> HIDE DEF fast
  <1> QED BY <1>2, <1>3, <1>7, <1>8, <1>9 DEF n

\* From its calls on a frame is counted, so a verdict is about some frame.
FramesSeen ==
  at \in {"panels", "flush", "swap", "exit"} \/ verdict \in {"pass", "fail"} =>
    frames # <<>>

\* What a headless run comes to: p99 against the limit is the same as counting the
\* slow frames, of which at most one in a hundred of all but one, rounded up, are
\* allowed; for every window, limit, number of frames and sequence of their times.
THEOREM VerdictsAreFair == ServicesSpec => []VerdictIsFair
<1>1. ServicesInit => FramesSeen
  BY DEF ServicesInit, FramesSeen
<1>2. WindowInv /\ FramesSeen /\ [ServicesNext]_serviceVars => FramesSeen'
  <2> SUFFICES ASSUME WindowInv, FramesSeen, [ServicesNext]_serviceVars
               PROVE  FramesSeen'
    OBVIOUS
  <2>1. ASSUME NEW ms \in Durations, Calls(ms)
        PROVE  FramesSeen'
    <3>1. frames' = Append(frames, ms) /\ frames \in Seq(Nat) /\ ms \in Nat
      BY <2>1, ServicesAssumption DEF Calls, PushSample, WindowInv
    <3>2. frames' # <<>>
      BY <3>1
    <3> QED BY <3>2 DEF FramesSeen
  <2>2. CASE Swap
    <3>1. /\ frames' = frames /\ verdict' = verdict /\ at = "swap"
          /\ at' \in {"input", "exit"}
      BY <2>2 DEF Swap, metricVars
    <3> QED BY <3>1 DEF FramesSeen
  <2>3. CASE /\ ServicesNext /\ ~Swap
             /\ ~ \E ms \in Durations : Calls(ms)
    BY <2>3 DEF ServicesNext, PressF9, NoKey, SaveAfterCalls, NoSave, AfterPanels,
                FlushTelemetry, HeadlessExit, QuitUnsaved, metricVars, FramesSeen
  <2>4. CASE UNCHANGED serviceVars
    BY <2>4 DEF serviceVars, metricVars, FramesSeen
  <2> QED BY <2>1, <2>2, <2>3, <2>4
<1>3. WindowInv /\ FramesSeen /\ ArtifactsTellVerdict => VerdictIsFair
  <2> SUFFICES ASSUME WindowInv, FramesSeen, ArtifactsTellVerdict,
                      verdict \in {"pass", "fail"}
               PROVE  LET newest == Newest(frames, Window)
                      IN  verdict = "pass" <=>
                            Cardinality(Slow(newest, Limit)) <= (Len(newest) + 98) \div 100
    BY DEF VerdictIsFair
  <2> DEFINE newest == Newest(frames, Window)
  <2>1. newest \in Seq(Nat) /\ newest # <<>>
    <3>1. frames \in Seq(Nat) /\ frames # <<>> /\ Window \in Nat \ {0}
      BY ServicesAssumption DEF WindowInv, FramesSeen
    <3>2. /\ newest \in Seq(Nat)
          /\ Len(newest) = IF Len(frames) <= Window THEN Len(frames) ELSE Window
      BY <3>1, NewestIsSuffix
    <3> HIDE DEF newest
    <3>3. Len(newest) # 0
      BY <3>1, <3>2
    <3> QED BY <3>2, <3>3
  <2>2. verdict = "pass" <=> P99(newest) <= Limit
    BY DEF ArtifactsTellVerdict
  <2>3. Limit \in Nat
    BY ServicesAssumption
  <2> HIDE DEF newest
  <2>4. P99(newest) <= Limit <=>
          Cardinality(Slow(newest, Limit)) <= (Len(newest) + 98) \div 100
    BY <2>1, <2>3, PercentileCounts
  <2> QED BY <2>2, <2>4 DEF newest
<1>4. ServicesInit => WindowInv
  BY ServicesAssumption DEF ServicesInit, WindowInv, Newest
<1>5. WindowInv /\ [ServicesNext]_serviceVars => WindowInv'
  BY WindowStep
<1> QED BY <1>1, <1>2, <1>3, <1>4, <1>5, ArtifactsAreOfTheVerdict, PTL DEF ServicesSpec

-----------------------------------------------------------------------------
(* FrameServices: the telemetry files. *)

FlushInv ==
  /\ frames \in Seq(Nat)
  /\ at \in {"panels", "flush"} => frames # <<>>
  /\ marks \in Seq(Nat)
  /\ acc_time \in Nat /\ last_flush \in Nat /\ trail \in Nat
  /\ last_flush <= acc_time
  /\ acc_time - last_flush <= FlushEvery
  /\ \A i \in DOMAIN marks : marks[i] <= last_flush => i <= trail

\* The telemetry files lack nothing but what the last interval between flushes has
\* brought, for every interval and whatever time the frames take.
THEOREM TelemetryIsKept == ServicesSpec => []TelemetryTrails
<1>1. ServicesInit => FlushInv
  BY ServicesAssumption DEF ServicesInit, FlushInv
<1>2. FlushInv /\ [ServicesNext]_serviceVars => FlushInv'
  <2> SUFFICES ASSUME FlushInv, [ServicesNext]_serviceVars
               PROVE  FlushInv'
    OBVIOUS
  <2> USE DEF FlushInv
  <2>1. ASSUME NEW ms \in Durations, Calls(ms)
        PROVE  FlushInv'
    <3>1. ms \in Nat /\ ms > 0
      BY ServicesAssumption
    <3>2. frames' = Append(frames, ms) /\ UNCHANGED <<acc_time, last_flush, trail>>
      BY <2>1 DEF Calls, PushSample, flushVars
    <3>3. frames' \in Seq(Nat) /\ frames' # <<>>
      BY <3>1, <3>2
    <3>4. marks' = marks \/ marks' = Append(marks, acc_time + ms)
      BY <2>1 DEF Calls
    <3>5. CASE marks' = marks
      BY <3>2, <3>3, <3>5
    <3>6. CASE marks' = Append(marks, acc_time + ms)
      <4>1. /\ marks' \in Seq(Nat)
            /\ DOMAIN marks' = 1..(Len(marks) + 1)
            /\ marks'[Len(marks) + 1] = acc_time + ms
            /\ \A i \in DOMAIN marks : marks'[i] = marks[i]
        BY <3>1, <3>6
      <4>2. acc_time + ms > last_flush
        BY <3>1
      <4>3. \A i \in DOMAIN marks' : i \in DOMAIN marks \/ i = Len(marks) + 1
        BY <4>1
      <4>4. \A i \in DOMAIN marks' : marks'[i] <= last_flush => i <= trail
        <5> SUFFICES ASSUME NEW i \in DOMAIN marks', marks'[i] <= last_flush
                     PROVE  i <= trail
          OBVIOUS
        <5>1. CASE i \in DOMAIN marks
          BY <4>1, <5>1
        <5>2. CASE i = Len(marks) + 1
          BY <3>1, <4>1, <4>2, <5>2
        <5> QED BY <4>3, <5>1, <5>2
      <4> QED BY <3>2, <3>3, <4>1, <4>4
    <3> QED BY <3>4, <3>5, <3>6
  <2>2. CASE FlushTelemetry
    <3> DEFINE time == acc_time + frames[Len(frames)]
    <3>1. /\ acc_time' = time /\ at' = "swap"
          /\ UNCHANGED <<frames, marks>>
          /\ Flush(acc_time')
      BY <2>2 DEF FlushTelemetry, metricVars
    <3>2. time \in Nat /\ time >= acc_time
      BY <2>2 DEF FlushTelemetry
    <3> HIDE DEF time
    <3>3. CASE time - last_flush > FlushEvery
      <4>1. trail' = Len(marks) /\ last_flush' = time
        BY <3>1, <3>3 DEF Flush
      <4>2. \A i \in DOMAIN marks : i <= Len(marks)
        OBVIOUS
      <4> QED BY <3>1, <3>2, <4>1, <4>2, ServicesAssumption
    <3>4. CASE ~(time - last_flush > FlushEvery)
      <4>1. UNCHANGED <<trail, last_flush>>
        BY <3>1, <3>4 DEF Flush
      <4>2. FlushEvery \in Nat
        BY ServicesAssumption
      <4> QED BY <3>1, <3>2, <3>4, <4>1, <4>2
    <3> QED BY <3>3, <3>4
  <2>3. CASE /\ ServicesNext
             /\ ~FlushTelemetry
             /\ ~ \E ms \in Durations : Calls(ms)
    <3>1. /\ UNCHANGED <<frames, marks, acc_time, last_flush, trail>>
          /\ at' \in {"panels", "flush"} => at \in {"panels", "flush"}
      BY <2>3 DEF ServicesNext, PressF9, NoKey, SaveAfterCalls, NoSave, Swap,
                  HeadlessExit, QuitUnsaved, AfterPanels, metricVars, flushVars
    <3> QED BY <3>1
  <2>4. CASE UNCHANGED serviceVars
    BY <2>4 DEF serviceVars, metricVars, flushVars
  <2> QED BY <2>1, <2>2, <2>3, <2>4
<1>3. FlushInv => TelemetryTrails
  BY ServicesAssumption DEF FlushInv, TelemetryTrails
<1> QED BY <1>1, <1>2, <1>3, PTL DEF ServicesSpec

-----------------------------------------------------------------------------
(* Settings *)

SettingsSet ==
  [isolation : BOOLEAN, ui_hud : BOOLEAN, show_store : BOOLEAN,
   last_plugin : Plugins \cup {NoPlugin},
   numbers : Numbers \cup {Unreadable}]

CfgTypeOK ==
  /\ file = <<>> \/ (file = <<file[1]>> /\ file[1] \in SettingsSet)
  /\ settings \in SettingsSet
  /\ written \in SettingsSet
  /\ hud_visible \in BOOLEAN
  /\ plugin_metas \subseteq Plugins
  /\ selected \in Plugins \cup {NoPlugin}

CfgInv ==
  /\ CfgTypeOK
  /\ SettingsStay
  /\ app # "off" =>
       /\ settings.isolation = written.isolation
       /\ settings.show_store = written.show_store
       /\ settings.numbers \in ReadingsOf(written.numbers)
       /\ settings.numbers \in Numbers
  /\ left # <<>> =>
       /\ file # <<>>
       /\ file[1].ui_hud = left[1].hud
       /\ left[1].plugin # NoPlugin => file[1].last_plugin = left[1].plugin

USE PrintingAssumption

\* A number that was rounded is not rounded again.
LEMMA RoundedOnce ==
  ASSUME NEW w \in Numbers \cup {Unreadable}, NEW n \in ReadingsOf(w), n \in Numbers
  PROVE  Printed[n] \in ReadingsOf(w) /\ Printed[n] \in Numbers
  BY DEF ReadingsOf

LEMMA LoadedType == CfgTypeOK => LoadFromFile \in SettingsSet
  BY DEF CfgTypeOK, LoadFromFile, Defaults, SettingsSet

LEMMA SelectionType ==
  ASSUME NEW metas \in SUBSET Plugins, NEW last, NEW p \in Selection(metas, last)
  PROVE  p \in Plugins \cup {NoPlugin}
<1>1. CASE metas = {}
  BY <1>1, Zenon DEF Selection
<1>2. CASE metas # {}
  <2>1. Selection(metas, last) \subseteq metas
    BY <1>2, Zenon DEF Selection
  <2> QED BY <2>1
<1> QED BY <1>1, <1>2

LEMMA CfgStep == CfgInv /\ [SettingsNext]_cfgVars => CfgInv'
<1> SUFFICES ASSUME CfgInv, [SettingsNext]_cfgVars
             PROVE  CfgInv'
  OBVIOUS
<1>0. CfgTypeOK /\ LoadFromFile \in SettingsSet
  BY LoadedType DEF CfgInv
<1> USE DEF CfgInv, CfgTypeOK
<1>1. ASSUME NEW how \in {"gui", "demo", "headless"}, Start(how)
      PROVE  CfgInv'
  <2>1. UNCHANGED <<file, written, left>> /\ LoadFromFile' = LoadFromFile
    BY <1>1 DEF Start, LoadFromFile
  <2>2. CASE UNCHANGED appVars
    BY <2>1, <2>2 DEF appVars, SettingsStay
  <2>3. CASE ~ UNCHANGED appVars
    <3>1. /\ settings' = LoadFromFile
          /\ hud_visible' = (settings'.ui_hud /\ how # "demo")
          /\ plugin_metas' \in SUBSET Plugins
          /\ \/ selected' \in Selection(plugin_metas', settings'.last_plugin)
             \/ selected' \in plugin_metas'
      BY <1>1, <2>3 DEF Start, StartSelection
    <3>2. selected' \in Plugins \cup {NoPlugin} /\ hud_visible' \in BOOLEAN
      BY <3>1, SelectionType
    <3>3. /\ settings'.isolation = written'.isolation
          /\ settings'.show_store = written'.show_store
          /\ settings'.numbers \in ReadingsOf(written'.numbers)
      BY <2>1, <3>1 DEF SettingsStay
    <3>4. settings'.numbers \in Numbers
      BY <1>0, <1>1, <2>3, <3>1 DEF Start, SettingsSet
    <3> QED BY <1>0, <2>1, <3>1, <3>2, <3>3, <3>4 DEF SettingsStay
  <2> QED BY <2>2, <2>3
<1>2. CASE ToggleHud \/ SelectPlugin \/ LoadOrUnload
  <2>1. CASE ToggleHud
    BY <2>1 DEF ToggleHud, SettingsStay, LoadFromFile
  <2>2. CASE SelectPlugin
    <3>1. selected' \in Plugins
      BY <2>2 DEF SelectPlugin
    <3> QED BY <2>2, <3>1 DEF SelectPlugin, SettingsStay, LoadFromFile
  <2>3. CASE LoadOrUnload
    BY <2>3 DEF LoadOrUnload, SettingsStay, LoadFromFile
  <2> QED BY <1>2, <2>1, <2>2, <2>3
<1>3. CASE Refresh
  <2>1. selected' \in Plugins \cup {NoPlugin}
    BY <1>3, SelectionType DEF Refresh
  <2> QED BY <1>3, <2>1 DEF Refresh, SettingsStay, LoadFromFile
<1>4. CASE Quit
  <2> DEFINE saved1 == Saved(AtEnd)
  <2>1. /\ app # "off" /\ app' = "off"
        /\ settings' = AtEnd
        /\ UNCHANGED <<hud_visible, plugin_metas, selected, written>>
    BY <1>4 DEF Quit
  <2>2. /\ AtEnd \in SettingsSet
        /\ AtEnd.ui_hud = hud_visible
        /\ AtEnd.isolation = settings.isolation
        /\ AtEnd.show_store = settings.show_store
        /\ AtEnd.numbers = settings.numbers
        /\ AtEnd.last_plugin = IF plugin_loaded /\ selected # NoPlugin THEN selected
                               ELSE settings.last_plugin
    BY DEF AtEnd, SettingsSet
  <2>3. /\ written \in SettingsSet /\ written.numbers \in Numbers \cup {Unreadable}
        /\ settings.isolation = written.isolation
        /\ settings.show_store = written.show_store
        /\ settings.numbers \in ReadingsOf(written.numbers)
        /\ settings.numbers \in Numbers
    BY <2>1 DEF SettingsSet
  <2>4. /\ Printed[settings.numbers] \in ReadingsOf(written.numbers)
        /\ Printed[settings.numbers] \in Numbers
    BY <2>3, RoundedOnce
  <2>5. /\ saved1 \in SettingsSet
        /\ saved1.ui_hud = hud_visible
        /\ saved1.isolation = settings.isolation
        /\ saved1.show_store = settings.show_store
        /\ saved1.numbers = Printed[settings.numbers]
        /\ saved1.last_plugin = AtEnd.last_plugin
    BY <2>2, <2>4 DEF Saved, SettingsSet
  <2> HIDE DEF saved1
  <2>6. CASE UNCHANGED <<file, left>>
    BY <2>1, <2>2, <2>6 DEF SettingsStay, LoadFromFile
  <2>7. CASE /\ file' = <<saved1>>
             /\ left' = <<[hud |-> hud_visible,
                           plugin |-> IF plugin_loaded THEN selected
                                      ELSE settings.last_plugin]>>
    <3>1. LoadFromFile' = saved1 /\ file' # <<>> /\ file'[1] = saved1
      BY <2>7 DEF LoadFromFile
    <3>2. SettingsStay'
      BY <2>1, <2>3, <2>4, <2>5, <3>1 DEF SettingsStay
    <3>3. /\ left'[1].hud = hud_visible
          /\ left'[1].plugin = IF plugin_loaded THEN selected ELSE settings.last_plugin
      BY <2>7
    <3> QED BY <2>1, <2>2, <2>5, <2>7, <3>1, <3>2, <3>3
  <2> QED BY <1>4, <2>6, <2>7 DEF Quit, saved1
<1>5. CASE KilledInSave
  BY <1>5 DEF KilledInSave, SettingsStay, LoadFromFile, Defaults, SettingsSet, ReadingsOf
<1>6. CASE EndUnsaved
  BY <1>6 DEF EndUnsaved, SettingsStay, LoadFromFile
<1>7. CASE EditFile
  <2>1. PICK iso \in BOOLEAN, store \in BOOLEAN,
             n \in Numbers \cup {Unreadable} :
          file' = <<[LoadFromFile EXCEPT !.isolation = iso, !.show_store = store,
                                         !.numbers = n]>>
    BY <1>7 DEF EditFile
  <2>2. /\ app = "off" /\ left' = <<>> /\ written' = file'[1]
        /\ UNCHANGED appVars
    BY <1>7 DEF EditFile
  <2>3. file' = <<file'[1]>> /\ file'[1] \in SettingsSet
    BY <1>0, <2>1 DEF SettingsSet
  <2>4. LoadFromFile' = written'
    BY <2>2, <2>3 DEF LoadFromFile
  <2> QED BY <2>2, <2>3, <2>4 DEF SettingsStay, ReadingsOf, appVars
<1>8. CASE UNCHANGED cfgVars
  BY <1>8 DEF cfgVars, appVars, SettingsStay, LoadFromFile
<1> QED BY <1>1, <1>2, <1>3, <1>4, <1>5, <1>6, <1>7, <1>8 DEF SettingsNext

LEMMA CfgInitially == SettingsInit => CfgInv
  BY DEF SettingsInit, CfgInv, CfgTypeOK, SettingsStay, LoadFromFile, Defaults,
         SettingsSet, ReadingsOf

\* load_from_file and save_to_file: what only the user may change in the file stays
\* through any number of sessions; a number that does not print in six digits is
\* rounded by the first save, and no save after it rounds it further.
THEOREM SettingsAreKept == SettingsSpec => []SettingsStay
<1>1. CfgInv => SettingsStay
  BY DEF CfgInv
<1> QED BY <1>1, CfgInitially, CfgStep, PTL DEF SettingsSpec

\* A session starts as the last one that saved was left, whatever plugins came and
\* went in between.
THEOREM SettingsAreRestored == SettingsSpec => StartsAsLeft
<1> DEFINE Restored ==
      app = "off" /\ app' = "gui" /\ left # <<>> =>
        /\ hud_visible' = left[1].hud
        /\ left[1].plugin \in plugin_metas' \cap Recallable
             => selected' = left[1].plugin
<1>1. CfgInv /\ [SettingsNext]_cfgVars => [Restored]_cfgVars
  <2> SUFFICES ASSUME CfgInv, SettingsNext,
                      app = "off", app' = "gui", left # <<>>
               PROVE  /\ hud_visible' = left[1].hud
                      /\ left[1].plugin \in plugin_metas' \cap Recallable
                           => selected' = left[1].plugin
    OBVIOUS
  <2>1. Start("gui")
    <3>1. ASSUME NEW how \in {"gui", "demo", "headless"}, Start(how)
          PROVE  how = "gui"
      BY <3>1 DEF Start, appVars
    <3>2. \E how \in {"gui", "demo", "headless"} : Start(how)
      BY DEF SettingsNext, ToggleHud, SelectPlugin, Refresh, LoadOrUnload, Quit,
             KilledInSave, EndUnsaved, EditFile, appVars
    <3> QED BY <3>1, <3>2
  <2>2. /\ settings' = LoadFromFile
        /\ hud_visible' = settings'.ui_hud
        /\ plugin_metas' \in SUBSET Plugins
        /\ selected' \in Selection(plugin_metas', settings'.last_plugin)
    <3>1. /\ settings' = LoadFromFile
          /\ hud_visible' = (settings'.ui_hud /\ "gui" # "demo")
          /\ plugin_metas' \in SUBSET Plugins
          /\ selected' \in Selection(plugin_metas', settings'.last_plugin)
      BY <2>1 DEF Start, appVars, StartSelection
    <3>2. LoadFromFile.ui_hud \in BOOLEAN
      BY LoadedType DEF CfgInv, SettingsSet
    <3> QED BY <3>1, <3>2
  <2>3. LoadFromFile = file[1]
    BY DEF CfgInv, LoadFromFile
  <2>4. ASSUME left[1].plugin \in plugin_metas' \cap Recallable
        PROVE  selected' = left[1].plugin
    <3> DEFINE p == left[1].plugin
    <3>1. p \in Plugins /\ p # NoPlugin /\ PathsWith[p] = {p} /\ p \in plugin_metas'
      BY <2>2, <2>4, SettingsAssumption DEF Recallable
    <3>2. settings'.last_plugin = p
      BY <2>2, <2>3, <3>1 DEF CfgInv
    <3> HIDE DEF p
    <3>3. plugin_metas' \cap PathsWith[p] = {p}
      BY <3>1
    <3>4. Selection(plugin_metas', p) = {p}
      <4> DEFINE metas == plugin_metas'
      <4> HIDE DEF metas
      <4>1. metas \cap PathsWith[p] = {p} /\ metas # {}
        BY <3>1, <3>3 DEF metas
      <4>2. Selection(metas, p) = {p}
        BY <3>1, <4>1, Zenon DEF Selection
      <4> QED BY <4>2 DEF metas
    <3>5. selected' \in {p}
      BY <2>2, <3>2, <3>4
    <3> QED BY <3>5 DEF p
  <2>5. hud_visible' = left[1].hud
    BY <2>2, <2>3 DEF CfgInv
  <2> QED BY <2>4, <2>5
<1>2. CfgInv /\ [SettingsNext]_cfgVars => CfgInv'
  BY CfgStep
<1>3. SettingsInit => CfgInv
  BY CfgInitially
<1> QED BY <1>1, <1>2, <1>3, PTL DEF SettingsSpec, StartsAsLeft
=============================================================================
