------------------------------ MODULE ReplayProofs ------------------------------
(***************************************************************************)
(* What Replay guarantees for frames of any size, sessions of any length   *)
(* and recordings cut off at any word.                                     *)
(***************************************************************************)
EXTENDS Replay, TLAPS

USE ReplayAssumption

-----------------------------------------------------------------------------
(* The inductive invariant. *)

Words == (Inputs \X Nat) \cup {InputWords, Magic}
AFrame == {Frame(i) : i \in Inputs}

\* Where word w of frame n is in a recording.
Pos(n, w) == 1 + (n - 1) * FrameWords + w

Types ==
  /\ TypeOK
  /\ rec_buf \in Seq(Words) /\ rep_buf \in Seq(Words)
  /\ file # NoFile => file \in Seq(Words)
  /\ live \in Seq(AFrame) /\ taped \in Seq(AFrame)
  /\ fed \in Seq([from : {"replayer", "live"}, words : AFrame])

\* The file holds the beginning of the recording of taped.
FileInv ==
  file # NoFile =>
    /\ Len(file) <= 1 + Len(taped) * FrameWords
    /\ whole => Len(file) = 1 + Len(taped) * FrameWords
    /\ \A n \in DOMAIN taped : \A w \in 1..FrameWords :
         Pos(n, w) <= Len(file) => file[Pos(n, w)] = taped[n][w]

WriteInv == phase = "writing" => recording /\ taped = live /\ ~whole

\* The first p frames of the session were the first p of the recording; when
\* the session has gone live, there is no whole frame left in the file.
PlayedFirst(p) ==
  /\ p <= Len(fed) /\ p <= Len(taped)
  /\ off = 1 + p * FrameWords
  /\ \A n \in 1..p : fed[n] = [from |-> "replayer", words |-> taped[n]]
  /\ \A n \in DOMAIN fed : n > p => fed[n].from = "live"
  /\ p < Len(fed) => ~HasNext

PlayInv ==
  phase = "running" =>
    IF replaying
      THEN file # NoFile /\ rep_buf = file /\ \E p \in Nat : PlayedFirst(p)
      ELSE \A n \in DOMAIN fed : fed[n].from = "live"

ReplayInv == Types /\ RecordsLiveFrames /\ FileInv /\ WriteInv /\ PlayInv

-----------------------------------------------------------------------------
(* Frames and where their words are. *)

LEMMA FrameWordsType == FrameWords \in Nat /\ FrameWords >= 1 /\ HeadWords + 1 \in 1..FrameWords
  BY DEF FrameWords

LEMMA FrameShape ==
  ASSUME NEW f \in AFrame
  PROVE  /\ f \in [1..FrameWords -> Words] /\ f \in Seq(Words)
         /\ Len(f) = FrameWords /\ DOMAIN f = 1..FrameWords
         /\ f[HeadWords + 1] = InputWords
  <1>1. PICK i \in Inputs : f = Frame(i)
    BY DEF AFrame
  <1>2. f = [w \in 1..FrameWords |-> IF w = HeadWords + 1 THEN InputWords ELSE <<i, w>>]
    BY <1>1 DEF Frame
  <1>3. \A w \in 1..FrameWords :
          f[w] \in Words /\ (w = HeadWords + 1 => f[w] = InputWords)
    BY <1>2, FrameWordsType DEF Words
  <1>4. f \in [1..FrameWords -> Words]
    BY <1>2, <1>3
  <1> QED BY <1>3, <1>4, FrameWordsType

LEMMA NextStart ==
  ASSUME NEW n \in Nat
  PROVE  /\ n * FrameWords \in Nat
         /\ (n + 1) * FrameWords = n * FrameWords + FrameWords
         /\ \A w \in Nat : Pos(n + 1, w) = 1 + n * FrameWords + w
  BY FrameWordsType DEF Pos

LEMMA StartsGrow ==
  ASSUME NEW m \in Nat, NEW n \in Nat, m <= n
  PROVE  m * FrameWords <= n * FrameWords
  <1>1. PICK d \in Nat : n = m + d
    <2>1. n - m \in Nat /\ n = m + (n - m)
      OBVIOUS
    <2> QED BY <2>1
  <1>2. n * FrameWords = m * FrameWords + d * FrameWords /\ d * FrameWords \in Nat
        /\ m * FrameWords \in Nat
    BY <1>1, FrameWordsType
  <1> QED BY <1>2

\* The words of the first n frames lie within the first 1 + n * FrameWords.
LEMMA PosInRange ==
  ASSUME NEW n \in Nat, NEW k \in 1..n, NEW w \in 1..FrameWords
  PROVE  Pos(k, w) \in Nat /\ 1 < Pos(k, w) /\ Pos(k, w) <= 1 + n * FrameWords
  <1>1. PICK m \in Nat : k = m + 1
    <2>1. k - 1 \in Nat /\ k = (k - 1) + 1
      OBVIOUS
    <2> QED BY <2>1
  <1> DEFINE S == m * FrameWords
             T == n * FrameWords
  <1>2. S \in Nat /\ (m + 1) * FrameWords = S + FrameWords /\ T \in Nat
        /\ Pos(m + 1, w) = 1 + S + w
    <2>1. w \in Nat
      BY FrameWordsType
    <2> QED BY <2>1, NextStart
  <1>3. (m + 1) * FrameWords <= T
    <2>1. m + 1 \in Nat /\ m + 1 <= n
      BY <1>1
    <2> QED BY <2>1, StartsGrow
  <1> HIDE DEF S, T
  <1>4. 1 + S + w \in Nat /\ 1 < 1 + S + w /\ 1 + S + w <= 1 + T
    BY <1>2, <1>3, FrameWordsType
  <1> QED BY <1>1, <1>2, <1>4 DEF T

LEMMA AppendedFrame ==
  ASSUME NEW buf \in Seq(Words), NEW frames \in Seq(AFrame), NEW f \in AFrame,
         HoldsFrames(buf, frames)
  PROVE  buf \o f \in Seq(Words) /\ HoldsFrames(buf \o f, Append(frames, f))
  <1> DEFINE N == Len(frames)
             new == buf \o f
             more == Append(frames, f)
  <1>1. /\ f \in Seq(Words) /\ Len(f) = FrameWords /\ N \in Nat
        /\ FrameWords \in Nat /\ FrameWords >= 1
    BY FrameShape, FrameWordsType
  <1>2. Len(buf) = 1 + N * FrameWords /\ buf[1] = Magic
        /\ \A n \in DOMAIN frames : \A w \in 1..FrameWords : buf[Pos(n, w)] = frames[n][w]
    BY DEF HoldsFrames, Pos
  <1>3. /\ N * FrameWords \in Nat
        /\ (N + 1) * FrameWords = N * FrameWords + FrameWords
        /\ \A w \in Nat : Pos(N + 1, w) = Len(buf) + w
    BY <1>1, <1>2, NextStart
  <1>4. /\ new \in Seq(Words)
        /\ Len(new) = Len(buf) + Len(f)
        /\ \A n \in 1..Len(buf) : new[n] = buf[n]
        /\ \A n \in 1..Len(f) : new[Len(buf) + n] = f[n]
    BY <1>1
  <1>5. /\ Len(more) = N + 1 /\ DOMAIN more = 1..(N + 1)
        /\ \A n \in 1..N : more[n] = frames[n]
        /\ more[N + 1] = f
        /\ DOMAIN frames = 1..N
    OBVIOUS
  <1>9. Len(buf) \in Nat /\ Len(buf) >= 1
    BY <1>2, <1>3
  <1> HIDE DEF new, more, N
  <1>6. Len(new) = 1 + Len(more) * FrameWords
    BY <1>1, <1>2, <1>3, <1>4, <1>5
  <1>7. new[1] = Magic
    <2>1. 1 \in 1..Len(buf)
      BY <1>9
    <2> QED BY <1>2, <1>4, <2>1
  <1>8. ASSUME NEW n \in DOMAIN more, NEW w \in 1..FrameWords
        PROVE  new[Pos(n, w)] = more[n][w]
    <2>1. CASE n \in 1..N
      <3>1. Pos(n, w) \in 1..Len(buf)
        <4>1. Pos(n, w) \in Nat /\ 1 < Pos(n, w) /\ Pos(n, w) <= 1 + N * FrameWords
          BY <1>1, <2>1, PosInRange
        <4> QED BY <1>2, <1>9, <4>1
      <3> QED BY <1>2, <1>4, <1>5, <2>1, <3>1
    <2>2. CASE n = N + 1
      <3>1. Pos(n, w) = Len(buf) + w /\ w \in 1..Len(f)
        BY <1>1, <1>3, <2>2
      <3> QED BY <1>4, <1>5, <2>2, <3>1
    <2>3. n \in 1..N \/ n = N + 1
      BY <1>1, <1>5
    <2> QED BY <2>1, <2>2, <2>3
  <1> QED BY <1>4, <1>6, <1>7, <1>8 DEF HoldsFrames, Pos, new, more

-----------------------------------------------------------------------------
(* What Replayer::next reads after p frames. *)

LEMMA BelowOrAt ==
  ASSUME NEW a \in Nat, NEW b \in Nat, a <= b, a # b
  PROVE  a < b
  OBVIOUS

LEMMA NextIsFrame ==
  ASSUME Types, FileInv, replaying, file # NoFile, rep_buf = file,
         NEW p \in Nat, p <= Len(taped), off = 1 + p * FrameWords
  PROVE  /\ HasNext => /\ p + 1 \in DOMAIN taped
                       /\ NextLength = FrameWords
                       /\ FromReplayer = [from |-> "replayer", words |-> taped[p + 1]]
         /\ whole /\ p < Len(taped) => HasNext
  <1> DEFINE S == p * FrameWords
             T == Len(taped) * FrameWords
             L == Len(rep_buf)
  <1>1. /\ Len(taped) \in Nat /\ L \in Nat /\ DOMAIN taped = 1..Len(taped)
        /\ \A n \in DOMAIN taped : taped[n] \in AFrame
    BY DEF Types
  <1>2. /\ L <= 1 + T
        /\ whole => L = 1 + T
        /\ \A n \in DOMAIN taped : \A w \in 1..FrameWords :
             Pos(n, w) <= L => rep_buf[Pos(n, w)] = taped[n][w]
    BY DEF FileInv
  <1>3. /\ S \in Nat /\ T \in Nat
        /\ (p + 1) * FrameWords = S + FrameWords
        /\ \A w \in Nat : Pos(p + 1, w) = off + w
    BY <1>1, NextStart
  <1>4. p < Len(taped) => S + FrameWords <= T
    <2>1. p < Len(taped) => p + 1 \in Nat /\ p + 1 <= Len(taped)
      BY <1>1
    <2> QED BY <1>1, <1>3, <2>1, StartsGrow
  <1>5. FrameWords = HeadWords + 1 + InputWords
    BY DEF FrameWords
  <1>6. off = 1 + S
    OBVIOUS
  <1> HIDE DEF S, T, L
  <1>7. ASSUME p < Len(taped), off + HeadWords + 1 <= L
        PROVE  /\ p + 1 \in DOMAIN taped /\ taped[p + 1] \in AFrame
               /\ NextLength = FrameWords
    <2>1. p + 1 \in DOMAIN taped
      BY <1>1, <1>7
    <2>2. HeadWords + 1 \in 1..FrameWords /\ Pos(p + 1, HeadWords + 1) = off + HeadWords + 1
      BY <1>3, <1>6, FrameWordsType
    <2>3. rep_buf[off + HeadWords + 1] = InputWords
      BY <1>1, <1>2, <1>7, <2>1, <2>2, FrameShape
    <2> QED BY <1>1, <1>5, <2>1, <2>3 DEF NextLength
  <1>8. ASSUME HasNext
        PROVE  /\ p + 1 \in DOMAIN taped
               /\ NextLength = FrameWords
               /\ FromReplayer = [from |-> "replayer", words |-> taped[p + 1]]
    <2>1. off + HeadWords + 1 <= L /\ off + NextLength <= L
      BY <1>8 DEF HasNext, HasLength, L
    <2>2. p < Len(taped)
      <3>1. p = Len(taped) => S = T
        BY DEF S, T
      <3>2. S # T
        BY <1>1, <1>2, <1>3, <1>6, <2>1
      <3>3. p # Len(taped)
        BY <3>1, <3>2
      <3>4. Len(taped) \in Nat
        BY <1>1
      <3> QED BY <3>3, <3>4, BelowOrAt
    <2>3. /\ p + 1 \in DOMAIN taped /\ taped[p + 1] \in AFrame
          /\ NextLength = FrameWords
      BY <1>7, <2>1, <2>2
    <2>4. taped[p + 1] = [n \in 1..FrameWords |-> taped[p + 1][n]]
      BY <2>3, FrameShape
    <2>5. ASSUME NEW n \in 1..FrameWords
          PROVE  Word(off + n) = taped[p + 1][n]
      <3>1. n \in Nat /\ off + n <= L
        BY <1>1, <1>3, <1>6, <2>1, <2>3, FrameWordsType
      <3>2. Pos(p + 1, n) = off + n
        BY <1>3, <3>1
      <3> QED BY <1>2, <2>3, <3>1, <3>2 DEF Word, L
    <2>6. [n \in 1..NextLength |-> Word(off + n)] = taped[p + 1]
      BY <2>3, <2>4, <2>5
    <2> QED BY <2>3, <2>6 DEF FromReplayer
  <1>9. ASSUME whole, p < Len(taped)
        PROVE  HasNext
    <2>1. off + FrameWords <= L
      BY <1>2, <1>3, <1>4, <1>6, <1>9, FrameWordsType
    <2>2. off + HeadWords <= L /\ off + HeadWords + 1 <= L
      BY <1>1, <1>3, <1>5, <1>6, <2>1
    <2>3. NextLength = FrameWords
      BY <1>7, <1>9, <2>2
    <2> QED BY <2>1, <2>2, <2>3 DEF HasNext, HasHead, HasLength, L
  <1> QED BY <1>8, <1>9

\* A file that is some beginning of the recording.
LEMMA Beginning ==
  ASSUME NEW buf \in Seq(Words), NEW m \in 0..Len(buf)
  PROVE  LET s == SubSeq(buf, 1, m)
         IN  /\ s \in Seq(Words) /\ Len(s) = m
             /\ \A n \in 1..m : s[n] = buf[n]
  OBVIOUS

-----------------------------------------------------------------------------
(* The steps. *)

LEMMA ReplayInitially == Init => ReplayInv
  <1> SUFFICES ASSUME Init PROVE ReplayInv
    OBVIOUS
  <1>1. /\ rec_buf \in Seq(Words) /\ rep_buf \in Seq(Words)
        /\ live \in Seq(AFrame) /\ taped \in Seq(AFrame)
        /\ fed \in Seq([from : {"replayer", "live"}, words : AFrame])
        /\ Len(rep_buf) = 0
    BY DEF Init
  <1>2. Types
    <2>1. off \in Nat /\ off <= Len(rep_buf)
      BY <1>1 DEF Init
    <2>2. TypeOK
      BY <2>1 DEF Init, TypeOK
    <2> QED BY <1>1, <2>2 DEF Init, Types
  <1> QED BY <1>2 DEF Init, ReplayInv, RecordsLiveFrames, FileInv, WriteInv, PlayInv

LEMMA StartKeeps ==
  ASSUME ReplayInv, NEW record \in BOOLEAN, NEW replay \in BOOLEAN, Start(record, replay)
  PROVE  ReplayInv'
  <1> USE DEF Start
  <1>1. /\ <<>> \in Seq(Words) /\ Len(<<>>) = 0
        /\ <<Magic>> \in Seq(Words) /\ Len(<<Magic>>) = 1 /\ <<Magic>>[1] = Magic
    BY DEF Words
  <1>2. /\ live' \in Seq(AFrame) /\ Len(live') = 0 /\ DOMAIN live' = 1..0
        /\ fed' \in Seq([from : {"replayer", "live"}, words : AFrame])
        /\ Len(fed') = 0 /\ DOMAIN fed' = 1..0
    OBVIOUS
  <1>3. Types'
    <2>1. replaying' => /\ file \in Seq(Words) /\ rep_buf' = file /\ off' = 1
                        /\ Len(file) \in Nat /\ 1 <= Len(file)
      <3>1. replaying' => file \in Seq(Words) /\ file # <<>> /\ rep_buf' = file /\ off' = 1
        BY DEF ReplayInv, Types
      <3>2. file \in Seq(Words) /\ file # <<>> => Len(file) \in Nat /\ 1 <= Len(file)
        OBVIOUS
      <3> QED BY <3>1, <3>2
    <2>2. ~replaying' => rep_buf' = <<>> /\ off' = 0
      OBVIOUS
    <2>3. TypeOK'
      BY <1>1, <2>1, <2>2 DEF ReplayInv, Types, TypeOK
    <2> QED BY <1>1, <1>2, <2>1, <2>2, <2>3 DEF ReplayInv, Types
  <1>4. RecordsLiveFrames'
    BY <1>1, <1>2, FrameWordsType DEF RecordsLiveFrames, HoldsFrames
  <1>5. FileInv'
    BY DEF ReplayInv, FileInv
  <1>6. WriteInv'
    BY DEF WriteInv
  <1>7. PlayInv'
    <2>1. CASE replaying'
      <3>1. file' # NoFile /\ rep_buf' = file' /\ off' = 1
        BY <2>1
      <3>2. PlayedFirst(0)'
        <4>1. 0 * FrameWords = 0
          BY FrameWordsType
        <4>2. Len(taped') \in Nat
          BY DEF ReplayInv, Types
        <4> QED BY <1>2, <3>1, <4>1, <4>2 DEF PlayedFirst
      <3> QED BY <2>1, <3>1, <3>2 DEF PlayInv
    <2>2. CASE ~replaying'
      BY <1>2, <2>2 DEF PlayInv
    <2> QED BY <2>1, <2>2
  <1> QED BY <1>3, <1>4, <1>5, <1>6, <1>7 DEF ReplayInv

\* A frame from the file: one more of the recording's, in its place.
LEMMA ReplayFrameKeeps ==
  ASSUME ReplayInv, ReplayFrame
  PROVE  ReplayInv'
  <1> DEFINE step == [from |-> "replayer", words |-> taped[Len(fed) + 1]]
  <1>1. /\ phase = "running" /\ HasNext /\ replaying
        /\ fed' = Append(fed, FromReplayer)
        /\ off' = off + NextLength
        /\ UNCHANGED <<phase, recording, rec_buf, replaying, rep_buf, file, live, taped, whole>>
    BY DEF ReplayFrame, HasNext
  <1>2. Types /\ FileInv /\ file # NoFile /\ rep_buf = file
    BY <1>1 DEF ReplayInv, PlayInv
  <1>3. PICK p \in Nat : PlayedFirst(p)
    BY <1>1 DEF ReplayInv, PlayInv
  <1>4. Len(fed) \in Nat /\ Len(taped) \in Nat /\ DOMAIN fed = 1..Len(fed)
        /\ DOMAIN taped = 1..Len(taped)
    BY <1>2 DEF Types
  <1>5. p = Len(fed) /\ p <= Len(taped) /\ off = 1 + p * FrameWords
    <2>1. p <= Len(fed) /\ ~(p < Len(fed))
      BY <1>1, <1>3 DEF PlayedFirst
    <2>2. p = Len(fed)
      BY <1>4, <2>1, BelowOrAt
    <2> QED BY <1>3, <2>2 DEF PlayedFirst
  <1>6. /\ p + 1 \in DOMAIN taped /\ NextLength = FrameWords
        /\ FromReplayer = step
    BY <1>1, <1>2, <1>5, NextIsFrame
  <1>7. /\ step \in [from : {"replayer", "live"}, words : AFrame]
        /\ step.from = "replayer"
    <2>1. taped[p + 1] \in AFrame
      BY <1>2, <1>6 DEF Types
    <2> QED BY <1>5, <2>1
  <1> HIDE DEF step
  <1>8. /\ fed' \in Seq([from : {"replayer", "live"}, words : AFrame])
        /\ Len(fed') = p + 1 /\ DOMAIN fed' = 1..(p + 1)
        /\ \A n \in 1..p : fed'[n] = fed[n]
        /\ fed'[p + 1] = step
    <2>1. fed' = Append(fed, step) /\ fed \in Seq([from : {"replayer", "live"}, words : AFrame])
      BY <1>1, <1>2, <1>6 DEF Types
    <2> QED BY <1>5, <1>7, <2>1
  <1>9. off' = 1 + (p + 1) * FrameWords
    <2> DEFINE S == p * FrameWords
    <2>1. (p + 1) * FrameWords = S + FrameWords /\ S \in Nat
      BY NextStart
    <2>2. off' = 1 + S + FrameWords
      BY <1>1, <1>5, <1>6
    <2> HIDE DEF S
    <2> QED BY <2>1, <2>2, FrameWordsType
  <1>10. Types'
    <2>1. off' \in Nat /\ off' <= Len(rep_buf')
      <3>1. off' <= Len(rep_buf')
        BY <1>1 DEF HasNext
      <3>2. off \in Nat /\ off' = off + FrameWords
        BY <1>1, <1>2, <1>6 DEF Types, TypeOK
      <3> QED BY <3>1, <3>2, FrameWordsType
    <2>2. TypeOK'
      BY <1>1, <1>2, <2>1 DEF Types, TypeOK
    <2> QED BY <1>1, <1>2, <1>8, <2>2 DEF Types
  <1>11. RecordsLiveFrames' /\ FileInv' /\ WriteInv'
    BY <1>1 DEF ReplayInv, RecordsLiveFrames, FileInv, WriteInv
  <1>12. PlayedFirst(p + 1)'
    <2>1. \A n \in 1..p : fed[n] = [from |-> "replayer", words |-> taped[n]]
      BY <1>3 DEF PlayedFirst
    <2>2. ASSUME NEW n \in 1..(p + 1)
          PROVE  fed'[n] = [from |-> "replayer", words |-> taped[n]]
      <3>1. CASE n \in 1..p
        BY <1>8, <2>1, <3>1
      <3>2. CASE n = p + 1
        BY <1>5, <1>8, <3>2 DEF step
      <3> QED BY <3>1, <3>2
    <2>3. /\ p + 1 <= Len(fed') /\ ~(p + 1 < Len(fed'))
          /\ \A n \in DOMAIN fed' : ~(n > p + 1)
      BY <1>8
    <2>4. p + 1 <= Len(taped)
      BY <1>4, <1>6
    <2> QED BY <1>1, <1>9, <2>2, <2>3, <2>4 DEF PlayedFirst
  <1>13. PlayInv'
    <2>1. p + 1 \in Nat
      OBVIOUS
    <2> QED BY <1>1, <1>2, <1>12, <2>1 DEF PlayInv
  <1> QED BY <1>10, <1>11, <1>13 DEF ReplayInv

\* A frame from the user, after the last frame of a replay or without one.
LEMMA LiveFrameKeeps ==
  ASSUME ReplayInv, NEW i \in Inputs, LiveFrame(i)
  PROVE  ReplayInv'
  <1> DEFINE step == FromUser(i)
             f == Frame(i)
  <1>1. /\ phase = "running" /\ ~HasNext
        /\ fed' = Append(fed, step)
        /\ live' = Append(live, f)
        /\ rec_buf' = IF recording THEN rec_buf \o f ELSE rec_buf
        /\ UNCHANGED <<phase, recording, replaying, rep_buf, off, file, taped, whole>>
    BY DEF LiveFrame
  <1>2. f \in AFrame /\ f \in Seq(Words)
    BY FrameShape DEF AFrame
  <1>3. /\ step \in [from : {"replayer", "live"}, words : AFrame]
        /\ step.from = "live"
    BY <1>2 DEF FromUser
  <1> HIDE DEF step, f
  <1>4. Types
    BY DEF ReplayInv
  <1>5. /\ fed' \in Seq([from : {"replayer", "live"}, words : AFrame])
        /\ Len(fed) \in Nat /\ Len(fed') = Len(fed) + 1
        /\ DOMAIN fed = 1..Len(fed) /\ DOMAIN fed' = 1..(Len(fed) + 1)
        /\ \A n \in 1..Len(fed) : fed'[n] = fed[n]
        /\ fed'[Len(fed) + 1] = step
    BY <1>1, <1>3, <1>4 DEF Types
  <1>6. live' \in Seq(AFrame) /\ rec_buf' \in Seq(Words)
    BY <1>1, <1>2, <1>4 DEF Types
  <1>7. Types'
    <2>1. TypeOK'
      BY <1>1, <1>4 DEF Types, TypeOK
    <2> QED BY <1>1, <1>4, <1>5, <1>6, <2>1 DEF Types
  <1>8. RecordsLiveFrames'
    <2>1. CASE recording
      <3>1. HoldsFrames(rec_buf \o f, Append(live, f))
        BY <1>2, <1>4, <2>1, AppendedFrame DEF ReplayInv, RecordsLiveFrames, Types
      <3> QED BY <1>1, <2>1, <3>1 DEF RecordsLiveFrames
    <2>2. CASE ~recording
      BY <1>1, <2>2 DEF RecordsLiveFrames
    <2> QED BY <2>1, <2>2
  <1>9. FileInv' /\ WriteInv'
    BY <1>1 DEF ReplayInv, FileInv, WriteInv
  <1>10. PlayInv'
    <2>1. CASE replaying
      <3>1. PICK p \in Nat : PlayedFirst(p)
        BY <1>1, <2>1 DEF ReplayInv, PlayInv
      <3>2. p \in Nat /\ p <= Len(fed) /\ p < Len(fed) + 1 /\ p <= Len(fed')
        <4>1. p <= Len(fed)
          BY <3>1 DEF PlayedFirst
        <4> QED BY <1>5, <4>1
      <3>3. ASSUME NEW n \in DOMAIN fed', n > p
            PROVE  fed'[n].from = "live"
        <4>1. CASE n \in 1..Len(fed)
          BY <1>5, <3>1, <3>3, <4>1 DEF PlayedFirst
        <4>2. CASE n = Len(fed) + 1
          BY <1>3, <1>5, <4>2
        <4> QED BY <1>5, <4>1, <4>2
      <3>4. \A n \in 1..p : fed'[n] = [from |-> "replayer", words |-> taped'[n]]
        <4>1. \A n \in 1..p : n \in 1..Len(fed)
          BY <1>5, <3>2
        <4> QED BY <1>1, <1>5, <3>1, <4>1 DEF PlayedFirst
      <3>5. ~HasNext'
        BY <1>1 DEF HasNext, HasHead, HasLength, NextLength
      <3>6. PlayedFirst(p)'
        BY <1>1, <3>1, <3>2, <3>3, <3>4, <3>5 DEF PlayedFirst
      <3> QED BY <1>1, <2>1, <3>6 DEF ReplayInv, PlayInv
    <2>2. CASE ~replaying
      <3>1. \A n \in 1..Len(fed) : fed[n].from = "live"
        BY <1>1, <1>5, <2>2 DEF ReplayInv, PlayInv
      <3>2. \A n \in DOMAIN fed' : n \in 1..Len(fed) \/ n = Len(fed) + 1
        BY <1>5
      <3> QED BY <1>1, <1>3, <1>5, <2>2, <3>1, <3>2 DEF PlayInv
    <2> QED BY <2>1, <2>2
  <1> QED BY <1>7, <1>8, <1>9, <1>10 DEF ReplayInv

\* What Recorder::stop gets onto the disk, none of it, some of it or all.
LEMMA StopKeeps ==
  ASSUME ReplayInv, Stop \/ Written \/ CutOff \/ Abandon
  PROVE  ReplayInv'
  <1>0. Types
    BY DEF ReplayInv
  <1>1. CASE (Stop /\ ~recording) \/ Abandon
    <2>1. UNCHANGED <<sessionVars, file, taped, whole>> /\ phase' = "off"
      BY <1>1 DEF Stop, Abandon
    <2> QED BY <1>0, <2>1 DEF ReplayInv, Types, TypeOK, RecordsLiveFrames, FileInv,
               WriteInv, PlayInv, sessionVars
  <1>2. CASE Stop /\ recording
    <2>1. /\ UNCHANGED sessionVars /\ phase' = "writing"
          /\ file' = <<>> /\ taped' = live /\ whole' = FALSE
      BY <1>2 DEF Stop
    <2>2. Types'
      <3>1. TypeOK'
        BY <1>0, <2>1 DEF Types, TypeOK, sessionVars
      <3>2. <<>> \in Seq(Words)
        OBVIOUS
      <3> QED BY <1>0, <2>1, <3>1, <3>2 DEF Types, sessionVars
    <2>3. RecordsLiveFrames' /\ WriteInv' /\ PlayInv'
      BY <1>2, <2>1 DEF ReplayInv, RecordsLiveFrames, WriteInv, PlayInv, sessionVars
    <2>4. FileInv'
      <3>1. Len(file') = 0 /\ Len(taped') \in Nat /\ DOMAIN taped' = 1..Len(taped')
        BY <2>1, <2>2 DEF Types
      <3>2. Len(taped') * FrameWords \in Nat
        BY <3>1, NextStart
      <3>3. ASSUME NEW n \in DOMAIN taped', NEW w \in 1..FrameWords
            PROVE  ~(Pos(n, w) <= Len(file'))
        <4>1. Pos(n, w) \in Nat /\ 1 < Pos(n, w)
          BY <3>1, PosInRange
        <4> QED BY <3>1, <4>1
      <3>4. 0 <= 1 + Len(taped') * FrameWords
        BY <3>2
      <3> QED BY <2>1, <3>1, <3>3, <3>4 DEF FileInv
    <2> QED BY <2>2, <2>3, <2>4 DEF ReplayInv
  <1>3. CASE Written \/ CutOff
    <2>1. /\ phase = "writing" /\ phase' = "off" /\ UNCHANGED <<sessionVars, taped>>
          /\ recording /\ taped = live /\ ~whole
      BY <1>3 DEF Written, CutOff, ReplayInv, WriteInv
    <2>2. /\ Len(rec_buf) = 1 + Len(taped) * FrameWords
          /\ \A n \in DOMAIN taped : \A w \in 1..FrameWords :
               rec_buf[Pos(n, w)] = taped[n][w]
      BY <2>1 DEF ReplayInv, RecordsLiveFrames, HoldsFrames, Pos
    <2>3. rec_buf \in Seq(Words) /\ Len(rec_buf) \in Nat
          /\ Len(taped) \in Nat /\ DOMAIN taped = 1..Len(taped)
      BY <1>0 DEF Types
    <2>4. PICK m \in 0..Len(rec_buf) :
            /\ file' \in Seq(Words) /\ Len(file') = m
            /\ \A n \in 1..m : file'[n] = rec_buf[n]
            /\ whole' => m = Len(rec_buf)
      <3>1. CASE Written
        <4>1. file' = rec_buf /\ Len(rec_buf) \in 0..Len(rec_buf)
          BY <2>3, <3>1 DEF Written
        <4> QED BY <2>3, <4>1
      <3>2. CASE CutOff
        <4>1. PICK m \in 0..Len(rec_buf) : file' = SubSeq(rec_buf, 1, m)
          BY <3>2 DEF CutOff
        <4>2. ~whole'
          BY <2>1, <3>2 DEF CutOff
        <4> QED BY <2>3, <4>1, <4>2, Beginning
      <3> QED BY <1>3, <3>1, <3>2
    <2>5. Types'
      <3>1. whole' \in BOOLEAN
        BY <1>0, <1>3 DEF Types, TypeOK, Written, CutOff
      <3> QED BY <1>0, <2>1, <2>4, <3>1 DEF Types, TypeOK, sessionVars
    <2>6. FileInv'
      <3>1. ASSUME NEW n \in DOMAIN taped, NEW w \in 1..FrameWords, Pos(n, w) <= m
            PROVE  file'[Pos(n, w)] = taped[n][w]
        <4>1. Pos(n, w) \in Nat /\ 1 < Pos(n, w)
          BY <2>3, PosInRange
        <4>2. Pos(n, w) \in 1..m
          BY <3>1, <4>1
        <4> QED BY <2>2, <2>4, <4>2
      <3>2. /\ m <= 1 + Len(taped) * FrameWords
            /\ whole' => m = 1 + Len(taped) * FrameWords
        <4>1. m <= Len(rec_buf)
          BY <2>3
        <4> QED BY <2>2, <2>4, <4>1
      <3> QED BY <2>1, <2>4, <3>1, <3>2 DEF FileInv
    <2>7. RecordsLiveFrames' /\ WriteInv' /\ PlayInv'
      BY <2>1 DEF ReplayInv, RecordsLiveFrames, WriteInv, PlayInv, sessionVars
    <2> QED BY <2>5, <2>6, <2>7 DEF ReplayInv
  <1> QED BY <1>1, <1>2, <1>3

LEMMA ReplayStep == ReplayInv /\ [Next]_vars => ReplayInv'
  <1> SUFFICES ASSUME ReplayInv, [Next]_vars
               PROVE  ReplayInv'
    OBVIOUS
  <1>1. CASE UNCHANGED vars
    <2>1. UNCHANGED <<phase, sessionVars, file, taped, whole>>
      BY <1>1 DEF vars
    <2>2. Types' /\ RecordsLiveFrames' /\ FileInv' /\ WriteInv'
      BY <2>1 DEF ReplayInv, Types, TypeOK, RecordsLiveFrames, FileInv, WriteInv, sessionVars
    <2>3. PlayInv'
      BY <2>1 DEF ReplayInv, PlayInv, PlayedFirst, HasNext, HasHead, HasLength,
                  NextLength, sessionVars
    <2> QED BY <2>2, <2>3 DEF ReplayInv
  <1>2. CASE Next
    BY <1>2, StartKeeps, ReplayFrameKeeps, LiveFrameKeeps, StopKeeps DEF Next
  <1> QED BY <1>1, <1>2

LEMMA ReplayInvHolds == Spec => []ReplayInv
  BY ReplayInitially, ReplayStep, PTL DEF Spec

-----------------------------------------------------------------------------
(* The theorems. *)

\* Replayer::next never moves its offset past the end of the buffer, wherever
\* the file was cut off.
THEOREM ReplayStaysInBuffer == Spec => []TypeOK
  BY ReplayInvHolds, PTL DEF ReplayInv, Types

\* Recorder::add and the two branches of main(): what is recorded is what the
\* user gave, frame by frame, also when a replay comes first.
THEOREM RecordingIsLive == Spec => []RecordsLiveFrames
  BY ReplayInvHolds, PTL DEF ReplayInv

\* Replayer::next against Recorder::add, Recorder::stop and any crash between:
\* the frames replayed are the first of those recorded, whole and in order, for
\* frames of any size and sessions of any length.
THEOREM ReplaysAreFaithful == Spec => []ReplayIsFaithful
  <1>1. ReplayInv => ReplayIsFaithful
    <2> SUFFICES ASSUME ReplayInv, phase = "running",
                        NEW n \in DOMAIN fed, fed[n].from = "replayer"
                 PROVE  n \in DOMAIN taped /\ fed[n].words = taped[n]
      BY DEF ReplayIsFaithful
    <2>1. replaying
      BY DEF ReplayInv, PlayInv
    <2>2. PICK p \in Nat : PlayedFirst(p)
      BY <2>1 DEF ReplayInv, PlayInv
    <2>3. n \in Nat /\ n >= 1 /\ Len(taped) \in Nat /\ DOMAIN taped = 1..Len(taped)
      BY DEF ReplayInv, Types
    <2>4. n <= p /\ p <= Len(taped)
      BY <2>2, <2>3 DEF PlayedFirst
    <2>5. n \in 1..p /\ n \in 1..Len(taped)
      BY <2>3, <2>4
    <2>6. fed[n] = [from |-> "replayer", words |-> taped[n]]
      BY <2>2, <2>5 DEF PlayedFirst
    <2> QED BY <2>3, <2>5, <2>6
  <1> QED BY <1>1, ReplayInvHolds, PTL

\* The three bounds tests of Replayer::next: a recording that was written whole
\* is replayed to its last frame, and the session that has gone live stays so.
THEOREM ReplaysAreComplete == Spec => []ReplayIsComplete
  <1>1. ReplayInv => ReplayIsComplete
    <2> SUFFICES ASSUME ReplayInv, phase = "running", replaying,
                        NEW n \in DOMAIN fed, fed[n].from = "live"
                 PROVE  /\ whole => n > Len(taped)
                        /\ \A m \in n..Len(fed) : fed[m].from = "live"
      BY DEF ReplayIsComplete
    <2>1. PICK p \in Nat : PlayedFirst(p)
      BY DEF ReplayInv, PlayInv
    <2>2. /\ n \in Nat /\ n >= 1 /\ Len(taped) \in Nat /\ Len(fed) \in Nat
          /\ n <= Len(fed) /\ DOMAIN fed = 1..Len(fed)
      BY DEF ReplayInv, Types
    <2>3. n > p
      <3>1. ASSUME n \in 1..p
            PROVE  FALSE
        <4>1. fed[n] = [from |-> "replayer", words |-> taped[n]]
          BY <2>1, <3>1 DEF PlayedFirst
        <4>2. fed[n].from = "replayer"
          BY <4>1
        <4> QED BY <4>2
      <3> QED BY <2>2, <3>1
    <2>4. whole => p = Len(taped)
      <3>1. p < Len(fed)
        BY <2>2, <2>3
      <3>2. ~HasNext /\ p <= Len(taped) /\ off = 1 + p * FrameWords
        BY <2>1, <3>1 DEF PlayedFirst
      <3>3. whole => ~(p < Len(taped))
        BY <3>2, NextIsFrame DEF ReplayInv, PlayInv
      <3> QED BY <2>2, <3>2, <3>3, BelowOrAt
    <2>5. \A m \in n..Len(fed) : m \in DOMAIN fed /\ m > p
      BY <2>2, <2>3
    <2> QED BY <2>1, <2>3, <2>4, <2>5 DEF PlayedFirst
  <1> QED BY <1>1, ReplayInvHolds, PTL
================================================================================
