---------------------------- MODULE DemoEcho_proofs ----------------------------
(***************************************************************************)
(* The theorems about the data that Demo carries: the line handed out is   *)
(* what was taken from the ring, echoes come out whole, in order and once, *)
(* and every variable keeps its type; for any bytes, sizes and arguments.  *)
(*                                                                         *)
(* They need induction over streams.  It is had from least elements: a     *)
(* property of numbers is a set of numbers.                                *)
(***************************************************************************)
EXTENDS Demo_proofs, FiniteSetTheorems, WellFoundedInduction

-----------------------------------------------------------------------------
(* Induction *)

LEMMA LeastNumber ==
    ASSUME NEW T \in SUBSET Nat, T # {}
    PROVE  \E m \in T : \A k \in T : m <= k
<1> DEFINE below(n) == 0..n-1
           B == {below(n) : n \in T}
<1>1. B \subseteq FiniteSubsetsOf(Nat) /\ B # {}
  <2>1. \A n \in Nat : below(n) \in SUBSET Nat /\ IsFiniteSet(below(n))
    BY FS_Interval
  <2> QED BY <2>1 DEF FiniteSubsetsOf
<1>2. IsWellFoundedOn(StrictSubsetOrdering(Nat), FiniteSubsetsOf(Nat))
  BY FS_StrictSubsetOrderingWellFounded
<1> HIDE DEF B
<1>3. PICK b \in B : \A c \in B : ~(<<c, b>> \in StrictSubsetOrdering(Nat))
  BY <1>1, <1>2, WFMin
<1>4. PICK m \in T : b = below(m)
  BY <1>3 DEF B
<1>5. ASSUME NEW k \in T, k < m
      PROVE  FALSE
  <2>1. below(k) \in B
    BY DEF B
  <2>2. below(k) \in SUBSET Nat /\ b \in SUBSET Nat
    BY <1>1, <2>1 DEF FiniteSubsetsOf
  <2>3. below(k) \subseteq b /\ k \in b /\ k \notin below(k)
    BY <1>4, <1>5
  <2>4. below(k) # b
    BY <2>3
  <2> HIDE DEF below
  <2>5. <<below(k), b>> \in StrictSubsetOrdering(Nat)
    BY <2>2, <2>3, <2>4 DEF StrictSubsetOrdering
  <2> QED BY <1>3, <2>1, <2>5
<1> QED BY <1>5

(* A set with 0 in it, and n + 1 with every n, has all numbers in it. *)
LEMMA AllNumbers ==
    ASSUME NEW S, 0 \in S, \A n \in Nat : n \in S => n + 1 \in S
    PROVE  \A n \in Nat : n \in S
<1> SUFFICES ASSUME Nat \ S # {} PROVE FALSE
  OBVIOUS
<1>1. PICK m \in Nat \ S : \A k \in Nat \ S : m <= k
  BY LeastNumber
<1>2. m # 0 /\ m - 1 \in Nat
  BY <1>1
<1>3. m - 1 \in S
  BY <1>1, <1>2
<1> QED BY <1>1, <1>2, <1>3

-----------------------------------------------------------------------------
(* Folds *)

(* The intermediate results acc of a fold over s. *)
IsFold(acc, step, base, s) ==
    acc = [k \in 0..Len(s) |-> IF k = 0 THEN base ELSE step[<<acc[k - 1], s[k]>>]]

(* Its first n results. *)
Begun(f, n, A, step, base, s) ==
    /\ f \in [0..n -> A] /\ f[0] = base
    /\ \A k \in 1..n : f[k] = step[<<f[k - 1], s[k]>>]

LEMMA FoldGoesOn ==
    ASSUME NEW A, NEW B, NEW base \in A, NEW step \in [A \X B -> A],
           NEW s \in Seq(B), NEW n \in Nat, n + 1 <= Len(s),
           NEW f, Begun(f, n, A, step, base, s)
    PROVE  \E g : Begun(g, n + 1, A, step, base, s)
<1> DEFINE e == step[<<f[n], s[n + 1]>>]
           g == [k \in 0..n + 1 |-> IF k = n + 1 THEN e ELSE f[k]]
<1>1. f \in [0..n -> A] /\ f[0] = base
      /\ \A k \in 1..n : f[k] = step[<<f[k - 1], s[k]>>]
  BY DEF Begun
<1>2. s[n + 1] \in B
  <2>1. n + 1 \in 1..Len(s)
    OBVIOUS
  <2> QED BY <2>1, ElementOfSeq
<1>3. e \in A
  <2>1. f[n] \in A
    BY <1>1
  <2>2. <<f[n], s[n + 1]>> \in A \X B
    BY <1>2, <2>1
  <2> QED BY <2>2
<1> HIDE DEF e
<1>4. g \in [0..n + 1 -> A]
  BY <1>1, <1>3
<1>5. g[0] = base /\ g[n + 1] = e /\ \A k \in 0..n : g[k] = f[k]
  BY <1>1
<1> HIDE DEF g
<1>6. \A k \in 1..n + 1 : g[k] = step[<<g[k - 1], s[k]>>]
  <2>1. TAKE k \in 1..n + 1
  <2>2. CASE k = n + 1
    <3>1. k - 1 = n /\ n \in 0..n
      BY <2>2
    <3>2. g[k] = e /\ g[k - 1] = f[n]
      BY <1>5, <2>2, <3>1
    <3> QED BY <2>2, <3>2 DEF e
  <2>3. CASE k \in 1..n
    <3>1. g[k] = f[k] /\ g[k - 1] = f[k - 1]
      BY <1>5, <2>3
    <3> QED BY <1>1, <2>3, <3>1
  <2> QED BY <2>2, <2>3
<1> QED BY <1>4, <1>5, <1>6 DEF Begun

LEMMA FoldExists ==
    ASSUME NEW A, NEW B, NEW base \in A, NEW step \in [A \X B -> A],
           NEW s \in Seq(B)
    PROVE  \E acc \in [0..Len(s) -> A] : IsFold(acc, step, base, s)
<1> DEFINE some(n) == \E f : Begun(f, n, A, step, base, s)
           S == {n \in Nat : n <= Len(s) => some(n)}
<1>1. some(0)
  <2>1. Begun([k \in 0..0 |-> base], 0, A, step, base, s)
    BY DEF Begun
  <2> QED BY <2>1
<1>2. \A n \in Nat : n + 1 <= Len(s) /\ some(n) => some(n + 1)
  BY FoldGoesOn
<1>3. some(Len(s))
  <2> HIDE DEF some
  <2>1. Len(s) \in Nat
    OBVIOUS
  <2>2. 0 \in S
    BY <1>1
  <2>3. \A n \in Nat : n \in S => n + 1 \in S
    BY <1>2, <2>1
  <2>4. Len(s) \in S
    <3> HIDE DEF S
    <3> QED BY <2>1, <2>2, <2>3, AllNumbers
  <2> QED BY <2>1, <2>4
<1>4. PICK f : Begun(f, Len(s), A, step, base, s)
  BY <1>3
<1>5. \A k \in 0..Len(s) : f[k] = IF k = 0 THEN base ELSE step[<<f[k - 1], s[k]>>]
  BY <1>4 DEF Begun
<1>6. f \in [0..Len(s) -> A]
  BY <1>4 DEF Begun
<1>7. f = [k \in 0..Len(s) |-> IF k = 0 THEN base ELSE step[<<f[k - 1], s[k]>>]]
  BY <1>5, <1>6
<1> QED BY <1>6, <1>7 DEF IsFold

(* s and t have the same m first elements. *)
Agree(s, t, m) == m <= Len(s) /\ m <= Len(t) /\ \A k \in 1..m : s[k] = t[k]

(* Two folds agree where the sequences do. *)
LEMMA FoldsAgree ==
    ASSUME NEW step, NEW base, NEW B, NEW s \in Seq(B), NEW t \in Seq(B),
           NEW m \in Nat, Agree(s, t, m),
           NEW f, IsFold(f, step, base, s), NEW g, IsFold(g, step, base, t)
    PROVE  f[m] = g[m]
<1> USE DEF Agree
<1> DEFINE S == {n \in Nat : n <= m => f[n] = g[n]}
<1>1. /\ \A k \in 0..Len(s) :
           f[k] = IF k = 0 THEN base ELSE step[<<f[k - 1], s[k]>>]
      /\ \A k \in 0..Len(t) :
           g[k] = IF k = 0 THEN base ELSE step[<<g[k - 1], t[k]>>]
  BY Zenon DEF IsFold
<1>2. 0 \in S
  <2>1. 0 \in 0..Len(s) /\ 0 \in 0..Len(t)
    OBVIOUS
  <2> QED BY <1>1, <2>1
<1>3. ASSUME NEW n \in Nat, n \in S PROVE n + 1 \in S
  <2>1. n + 1 <= m => f[n + 1] = g[n + 1]
    <3> SUFFICES ASSUME n + 1 <= m PROVE f[n + 1] = g[n + 1]
      OBVIOUS
    <3>1. /\ n + 1 \in 0..Len(s) /\ n + 1 \in 0..Len(t) /\ n + 1 \in 1..m
          /\ (n + 1) - 1 = n /\ n + 1 # 0
      OBVIOUS
    <3>2. f[n] = g[n] /\ s[n + 1] = t[n + 1]
      BY <1>3, <3>1
    <3>3. f[n + 1] = step[<<f[n], s[n + 1]>>] /\ g[n + 1] = step[<<g[n], t[n + 1]>>]
      BY <1>1, <3>1
    <3> QED BY <3>2, <3>3
  <2> QED BY <2>1
<1> HIDE DEF S
<1>4. m \in S
  BY <1>2, <1>3, AllNumbers
<1> QED BY <1>4 DEF S

(* What the values of a fold need to be, and what the fold then is. *)
Foldable(A, B, step, base) == base \in A /\ step \in [A \X B -> A]

Folded(acc, A, step, base, s) ==
    /\ acc \in [0..Len(s) -> A] /\ IsFold(acc, step, base, s)
    /\ Fold(step, base, s) = acc[Len(s)]

LEMMA FoldIs ==
    ASSUME NEW A, NEW B, NEW step, NEW base, Foldable(A, B, step, base),
           NEW s \in Seq(B)
    PROVE  \E acc : Folded(acc, A, step, base, s)
<1> DEFINE acc == CHOOSE f : IsFold(f, step, base, s)
<1>1. PICK f \in [0..Len(s) -> A] : IsFold(f, step, base, s)
  BY FoldExists DEF Foldable
<1>2. IsFold(acc, step, base, s)
  BY <1>1
<1>3. Fold(step, base, s) = acc[Len(s)]
  BY Zenon DEF Fold, IsFold
<1>4. \A k \in 0..Len(s) : acc[k] = f[k]
  <2> HIDE DEF acc
  <2> QED BY <1>1, <1>2, FoldsAgree DEF Agree
<1>5. acc = f
  BY <1>2, <1>4 DEF IsFold
<1> QED BY <1>1, <1>2, <1>3, <1>5, Zenon DEF Folded

(* What a fold over nothing gives, and over one element more. *)
LEMMA FoldEmpty ==
    ASSUME NEW A, NEW B, NEW step, NEW base, Foldable(A, B, step, base)
    PROVE  Fold(step, base, <<>>) = base
<1>1. <<>> \in Seq(B) /\ Len(<<>>) = 0
  OBVIOUS
<1>2. PICK acc : Folded(acc, A, step, base, <<>>)
  BY <1>1, FoldIs, Zenon
<1> QED BY <1>1, <1>2 DEF IsFold, Folded

LEMMA FoldAppend ==
    ASSUME NEW A, NEW B, NEW step, NEW base, Foldable(A, B, step, base),
           NEW s \in Seq(B), NEW b \in B
    PROVE  /\ Fold(step, base, s) \in A
           /\ Fold(step, base, Append(s, b)) = step[<<Fold(step, base, s), b>>]
<1> DEFINE t == Append(s, b)
           m == Len(s)
<1>1. /\ t \in Seq(B) /\ Len(t) = m + 1 /\ t[m + 1] = b
      /\ m \in Nat /\ Agree(s, t, m)
  BY DEF Agree
<1> HIDE DEF t
<1>2. PICK f : Folded(f, A, step, base, s)
  BY FoldIs, Zenon
<1>3. PICK g : Folded(g, A, step, base, t)
  BY <1>1, FoldIs, Zenon
<1>4. f[m] = g[m]
  <2>1. IsFold(f, step, base, s) /\ IsFold(g, step, base, t)
    BY <1>2, <1>3 DEF Folded
  <2> HIDE DEF m
  <2> QED BY <1>1, <2>1, FoldsAgree
<1>5. g[Len(t)] = step[<<g[m], b>>]
  <2>1. \A k \in 0..Len(t) :
          g[k] = IF k = 0 THEN base ELSE step[<<g[k - 1], t[k]>>]
    BY <1>3, Zenon DEF IsFold, Folded
  <2>2. Len(t) \in 0..Len(t) /\ Len(t) # 0 /\ Len(t) - 1 = m
    BY <1>1
  <2> QED BY <1>1, <2>1, <2>2
<1>6. f[m] \in A
  BY <1>1, <1>2 DEF Folded
<1>7. Fold(step, base, s) = f[m] /\ Fold(step, base, t) = g[Len(t)]
  BY <1>2, <1>3 DEF Folded
<1> QED BY <1>4, <1>5, <1>6, <1>7 DEF t

-----------------------------------------------------------------------------
(* Lines *)

LEMMA KeepIs ==
    /\ Keep \in [Seq(Others) \X Bytes -> Seq(Others)]
    /\ \A t \in Seq(Others), b \in Bytes :
         Keep[<<t, b>>] = IF b \in {"CR", "LF"} THEN t ELSE Append(t, b)
<1>1. ASSUME NEW p \in Seq(Others) \X Bytes
      PROVE  (IF p[2] \in {"CR", "LF"} THEN p[1] ELSE Append(p[1], p[2]))
               \in Seq(Others)
  <2>1. p[1] \in Seq(Others) /\ p[2] \in Bytes
    OBVIOUS
  <2> QED BY <2>1, Appends DEF Bytes
<1> QED BY <1>1 DEF Keep

LEMMA TextIs ==
    /\ Text(<<>>) = <<>>
    /\ \A s \in Seq(Bytes), b \in Bytes :
         /\ Text(s) \in Seq(Others)
         /\ Text(Append(s, b)) = IF b \in {"CR", "LF"} THEN Text(s)
                                 ELSE Append(Text(s), b)
<1>1. Foldable(Seq(Others), Bytes, Keep, <<>>)
  BY EmptySeqs, KeepIs DEF Foldable
<1>2. Fold(Keep, <<>>, <<>>) = <<>>
  BY <1>1, FoldEmpty, Zenon
<1>3. ASSUME NEW s \in Seq(Bytes), NEW b \in Bytes
      PROVE  /\ Fold(Keep, <<>>, s) \in Seq(Others)
             /\ Fold(Keep, <<>>, Append(s, b)) = Keep[<<Fold(Keep, <<>>, s), b>>]
  BY <1>1, FoldAppend
<1> QED BY <1>2, <1>3, KeepIs, Zenon DEF Text

(* Newlines in what a call has taken. *)
NoNewline(s) == \A k \in 1..Len(s) : s[k] # "LF"
NewlineLast(s) == /\ s # <<>> /\ s[Len(s)] = "LF"
                  /\ \A k \in 1..Len(s) - 1 : s[k] # "LF"

(* The line so far is the text of what the call has taken, and a newline   *)
(* ends the call.                                                          *)
LineInv ==
    /\ l.line = Text(segment)
    /\ lpc = "idle" => segment = <<>>
    /\ InLine => cause = "none"
    /\ IF cause = "line" THEN lpc = "returned" /\ NewlineLast(segment)
                         ELSE NoNewline(segment)

LEMMA NextLineInv == ReaderTypes /\ LineInv /\ [Next]_vars => LineInv'
<1> SUFFICES ASSUME ReaderTypes, LineInv, ReaderSteps PROVE LineInv'
  BY Steps
<1> USE DEF LineInv, InLine, Goto
<1>0. /\ l \in Locals /\ segment \in Seq(Bytes) /\ rx_buf_ \in Seq(Bytes)
      /\ lpc \in {"idle", "head", "receive", "pop", "time", "returned"}
  BY DEF ReaderTypes, LineTypeOK, Locals
<1>1. CASE UNCHANGED <<lpc, l, segment, cause>>
  BY <1>1
<1>2. CASE ReceiveLine(args.max_len, args.tmo)
  <2>1. PICK start \in 0..TickMod-1 :
          l' = [NoCall EXCEPT !.max_len = args.max_len, !.tmo = args.tmo,
                              !.start = start]
    BY <1>2 DEF ReceiveLine
  <2>2. l'.line = <<>>
    BY <2>1 DEF NoCall
  <2>3. segment' = <<>> /\ lpc' \in {"returned", "head"} /\ cause' # "line"
        /\ (lpc' = "head" => cause' = "none")
    BY <1>2 DEF ReceiveLine
  <2> QED BY <2>2, <2>3, TextIs DEF NoNewline
<1>3. CASE LoopHead \/ Receive \/ PopEmpty \/ TimeTest
  <2>1. /\ l'.line = l.line /\ segment' = segment /\ lpc' # "idle" /\ InLine
        /\ cause' \in {"none", "full", "timeout"} /\ (cause' = "none" \/ ~InLine')
    BY <1>0, <1>3 DEF LoopHead, Receive, PopEmpty, TimeTest, GiveUp, Locals,
       lineHistory
  <2> QED BY <2>1
<1>4. CASE Pop
  <2> DEFINE b == Head(rx_buf_)
  <2>1. b \in Bytes /\ segment' = Append(segment, b)
    BY <1>0, <1>4, HeadTails DEF Pop
  <2>2. cause = "none" /\ NoNewline(segment) /\ Store(b)
    BY <1>4 DEF Pop
  <2> HIDE DEF b
  <2>3. /\ Len(segment') = Len(segment) + 1 /\ segment'[Len(segment')] = b
        /\ \A k \in 1..Len(segment) : segment'[k] = segment[k]
    BY <1>0, <2>1
  <2>4. Text(segment') = IF b \in {"CR", "LF"} THEN Text(segment)
                         ELSE Append(Text(segment), b)
    BY <1>0, <2>1, TextIs
  <2>5. l'.line = Text(segment')
    <3>1. Received.line = l.line /\ Received \in Locals
      BY <1>0, LocalUpdates DEF Received, Locals
    <3>2. CASE b \in {"CR", "LF"}
      BY <2>2, <2>4, <3>1, <3>2 DEF Store
    <3>3. CASE b \notin {"CR", "LF"}
      BY <2>2, <2>4, <3>1, <3>3 DEF Store, Locals
    <3> QED BY <3>2, <3>3
  <2>6. CASE b = "LF"
    <3>1. lpc' = "returned" /\ cause' = "line"
      BY <2>2, <2>6 DEF Store
    <3>2. NewlineLast(segment')
      BY <1>0, <2>1, <2>2, <2>3, <2>6 DEF NoNewline, NewlineLast
    <3> QED BY <2>5, <3>1, <3>2
  <2>7. CASE b # "LF"
    <3>1. lpc' = "head" /\ cause' = "none"
      BY <2>2, <2>7 DEF Store
    <3>2. NoNewline(segment')
      BY <1>0, <2>2, <2>3, <2>7 DEF NoNewline
    <3> QED BY <2>5, <3>1, <3>2
  <2> QED BY <2>6, <2>7
<1>5. CASE LineResult
  <2>1. l'.line = <<>> /\ segment' = <<>> /\ cause' = "none" /\ lpc' = "idle"
    BY <1>5 DEF LineResult, NoCall
  <2> QED BY <2>1, TextIs DEF NoNewline
<1> QED BY <1>1, <1>2, <1>3, <1>4, <1>5
        DEF ReaderSteps, LineGoesOn, Quiet, SysTick, Arrive, lineHistory

LEMMA AlwaysLineInv == Spec => [](ReaderTypes /\ LineInv)
<1>1. Init => LineInv
  BY TextIs DEF Init, LineInit, NoCall, LineInv, InLine, NoNewline
<1>2. ReaderTypes /\ LineInv /\ [Next]_vars => LineInv'
  BY NextLineInv
<1> QED BY <1>1, <1>2, AlwaysReaderTypes, PTL DEF Spec

(* receive_line() hands out what it has taken from the ring, no more and   *)
(* no less, without CR and LF; it says true exactly when the last byte     *)
(* taken was a newline, and takes nothing after it.                        *)
THEOREM LineRight == Spec => []LineIsWhatWasTaken
<1>1. ReaderTypes /\ LineInv => LineIsWhatWasTaken
  <2> SUFFICES ASSUME ReaderTypes, LineInv PROVE LineIsWhatWasTaken
    OBVIOUS
  <2>1. segment \in Seq(Bytes)
    BY DEF ReaderTypes, LineTypeOK
  <2> QED BY <2>1 DEF LineInv, LineIsWhatWasTaken, NoNewline, NewlineLast
<1> QED BY <1>1, AlwaysLineInv, PTL

-----------------------------------------------------------------------------
(* Types *)

(* strlen() stops inside the line. *)
LEMMA UpToNulIs ==
    ASSUME NEW t \in Seq(Others)
    PROVE  UpToNul(t) \in Seq(Others)
<1> DEFINE I == {i \in 1..Len(t) : t[i] = "NUL"}
<1>1. CASE "NUL" \notin ToSet(t)
  BY <1>1 DEF UpToNul
<1>2. CASE "NUL" \in ToSet(t)
  <2>1. I # {} /\ I \in SUBSET Nat
    BY <1>2 DEF ToSet
  <2>2. PICK m \in I : \A k \in I : m <= k
    <3> HIDE DEF I
    <3> QED BY <2>1, LeastNumber
  <2>3. Min(I) \in I
    BY <2>2 DEF Min
  <2>4. SelectInSeq(t, LAMBDA b : b = "NUL") = Min(I)
    BY <2>1, Zenon DEF SelectInSeq
  <2> DEFINE n == Min(I) - 1
  <2>5. n \in Int /\ n <= Len(t)
    BY <2>3
  <2>6. UpToNul(t) = SubSeq(t, 1, n)
    BY <1>2, <2>4, Zenon DEF UpToNul
  <2> HIDE DEF n
  <2>7. \A i \in 1..n : t[i] \in Others
    BY <2>5
  <2> QED BY <2>5, <2>6, <2>7, SubSeqProperties
<1> QED BY <1>1, <1>2

(* Texts, none of them without bytes. *)
Texts(ts) == ts \in Seq(Seq(Tokens)) /\ \A k \in 1..Len(ts) : ts[k] # <<>>

LEMMA ThenTexts ==
    ASSUME NEW t \in Seq(Tokens), NEW ts, Texts(ts)
    PROVE  /\ Texts(Then(t, ts)) /\ Len(Then(t, ts)) <= Len(ts) + 1
           /\ t # <<>> => <<t>> \o ts = Then(t, ts)
<1> USE DEF Texts
<1>1. CASE t = <<>>
  BY <1>1 DEF Then
<1>2. CASE t # <<>>
  <2> DEFINE us == <<t>> \o ts
  <2>1. /\ us \in Seq(Seq(Tokens)) /\ Len(us) = Len(ts) + 1
        /\ us[1] = t /\ \A k \in 1..Len(ts) : us[k + 1] = ts[k]
    OBVIOUS
  <2>2. ASSUME NEW k \in 1..Len(us) PROVE us[k] # <<>>
    <3> HIDE DEF us
    <3>1. k = 1 \/ (k - 1 \in 1..Len(ts) /\ k = (k - 1) + 1)
      BY <2>1
    <3> QED BY <1>2, <2>1, <3>1
  <2>3. Then(t, ts) = us
    BY <1>2 DEF Then
  <2>4. Len(us) <= Len(ts) + 1
    BY <2>1
  <2>5. Texts(us)
    <3> HIDE DEF us
    <3> QED BY <2>1, <2>2
  <2> QED BY <2>3, <2>4, <2>5
<1> QED BY <1>1, <1>2

LEMMA TailTexts ==
    ASSUME NEW ts, Texts(ts), ts # <<>>
    PROVE  /\ Head(ts) \in Seq(Tokens) /\ Head(ts) # <<>>
           /\ Texts(Tail(ts)) /\ Len(Tail(ts)) = Len(ts) - 1
<1> USE DEF Texts
<1>1. Len(ts) \in Nat \ {0} /\ Head(ts) = ts[1]
  OBVIOUS
<1>2. /\ Tail(ts) \in Seq(Seq(Tokens)) /\ Len(Tail(ts)) = Len(ts) - 1
      /\ \A k \in 1..Len(ts) - 1 : Tail(ts)[k] = ts[k + 1]
  BY HeadTailProperties
<1> QED BY <1>1, <1>2

(* One text. *)
LEMMA OneText ==
    ASSUME NEW t \in Tokens
    PROVE  /\ <<t>> \in Seq(Tokens) /\ <<t>> # <<>>
           /\ Texts(<<<<t>>>>) /\ Len(<<<<t>>>>) = 1
<1>1. <<t>> \in Seq(Tokens) /\ <<t>> # <<>>
  OBVIOUS
<1> DEFINE u == <<t>>
<1> HIDE DEF u
<1>2. <<u>> \in Seq({u}) /\ Len(<<u>>) = 1 /\ <<u>>[1] = u
  OBVIOUS
<1>3. u \in Seq(Tokens) => Texts(<<u>>)
  BY <1>1, <1>2 DEF Texts, u
<1> QED BY <1>1, <1>2, <1>3 DEF u

(* What main says is texts of tokens, at most three at a time. *)
Saying == Texts(say) /\ Len(say) <= 3

LEMMA SayStays ==
    ASSUME ReaderTypes, Saying, [Next]_vars
    PROVE  Saying'
<1> USE DEF Saying
<1>0. \A t \in {"G", ">", "CRLF", "T", "S"} : t \in Tokens
  BY DEF Tokens
<1>1. CASE SendByte
  <2> DEFINE h == Head(say)
             r == Tail(say)
  <2>1. h \in Seq(Tokens) /\ h # <<>> /\ Texts(r) /\ Len(r) = Len(say) - 1
    BY <1>1, TailTexts DEF SendByte
  <2>2. Len(say) \in Nat
    BY DEF Texts
  <2>3. say' \in {Then(Tail(h), r), r}
    BY <1>1 DEF SendByte
  <2> HIDE DEF h, r
  <2>4. Tail(h) \in Seq(Tokens)
    BY <2>1
  <2>5. Texts(Then(Tail(h), r)) /\ Len(Then(Tail(h), r)) <= Len(r) + 1
    BY <2>1, <2>4, ThenTexts
  <2>6. Texts(say') /\ (Len(say') <= Len(r) + 1 \/ Len(say') = Len(r))
    BY <2>1, <2>3, <2>5
  <2>7. Len(say') \in Nat
    BY <2>6 DEF Texts
  <2> QED BY <2>1, <2>2, <2>6, <2>7
<1>2. CASE Reply /\ cause = "line"
  <2>1. UpToNul(l.line) \in Seq(Tokens)
    <3>1. l.line \in Seq(Others)
      BY DEF ReaderTypes, LineTypeOK
    <3>2. UpToNul(l.line) \in Seq(Others)
      BY <3>1, UpToNulIs
    <3> QED BY <3>2 DEF Tokens
  <2> DEFINE one == <<<<"CRLF">>>>
             first == <<">">>
             u == UpToNul(l.line)
             ts == Then(u, one)
  <2>2. Texts(one) /\ Len(one) = 1 /\ first \in Seq(Tokens) /\ first # <<>>
    BY <1>0, OneText
  <2>3. say' = <<first>> \o ts
    BY <1>2 DEF Reply
  <2> HIDE DEF one, first, u
  <2>4. Texts(ts) /\ Len(ts) <= Len(one) + 1
    BY <2>1, <2>2, ThenTexts DEF u
  <2>5. Len(ts) \in Nat
    BY <2>4 DEF Texts
  <2> HIDE DEF ts
  <2>6. Texts(Then(first, ts)) /\ Len(Then(first, ts)) <= Len(ts) + 1
        /\ <<first>> \o ts = Then(first, ts)
    BY <2>2, <2>4, ThenTexts
  <2>7. Len(Then(first, ts)) \in Nat
    BY <2>6 DEF Texts
  <2>8. say' = Then(first, ts)
    BY <2>3, <2>6
  <2>9. Texts(say') /\ Len(say') <= Len(ts) + 1 /\ Len(say') \in Nat
    BY <2>6, <2>7, <2>8
  <2> QED BY <2>2, <2>4, <2>5, <2>9
<1>3. CASE Reply /\ cause # "line"
  <2>1. say' = <<<<"T">>>>
    BY <1>3 DEF Reply
  <2>2. Texts(<<<<"T">>>>) /\ Len(<<<<"T">>>>) = 1
    BY <1>0, OneText
  <2> QED BY <2>1, <2>2
<1>4. CASE PrintStats
  <2> DEFINE s == <<"S">>
  <2>1. s \in Seq(Tokens) /\ s # <<>>
    BY <1>0, OneText
  <2>2. say' = <<s, s, s>>
    BY <1>4 DEF PrintStats
  <2> HIDE DEF s
  <2> QED BY <2>1, <2>2 DEF Texts
<1>5. CASE say' = say
  BY <1>5 DEF Texts
<1> QED BY <1>1, <1>2, <1>3, <1>4, <1>5
        DEF Next, MainSteps, CallLine, LineStep, Stats, Copy, Transmit, Around,
            vars, demoVars

(* Every line counted ended in a newline that arrived. *)
Counted == /\ line_count \in Nat
           /\ line_count + Len(rx_buf_) + Len(segment) <= Received_

LEMMA CountedStays ==
    ASSUME ReaderTypes, LineInv, Counted, [Next]_vars
    PROVE  Counted'
<1> USE DEF Counted
<1>0. /\ Len(rx_buf_) \in Nat /\ Len(segment) \in Nat
      /\ rx_buf_ \in Seq(Bytes) /\ segment \in Seq(Bytes)
      /\ Received_ \in Nat /\ stats_ \in [Counters -> 0..MaxFrames]
      /\ "bytes_received" \in Counters /\ "rx_buffer_overflows" \in Counters
  BY CounterTypes DEF ReaderTypes, LineTypeOK, Received_, Counters
<1>1. CASE Reply
  <2>1. segment' = <<>> /\ UNCHANGED uartVars
    BY <1>1 DEF Reply, LineResult
  <2>2. \/ line_count' = line_count
        \/ line_count' = line_count + 1 /\ cause = "line"
    BY <1>1 DEF Reply
  <2>3. cause = "line" => Len(segment) > 0
    BY <1>0 DEF LineInv, NewlineLast
  <2> QED BY <1>0, <2>1, <2>2, <2>3, EmptySeqs DEF uartVars, Received_
<1>2. CASE LineStep
  <2>1. line_count' = line_count /\ stats_' = stats_
    BY <1>2 DEF LineStep, LineGoesOn, LoopHead, Receive, Pop, PopEmpty,
       TimeTest, demoVars, uartVars
  <2>2. Len(rx_buf_') + Len(segment') = Len(rx_buf_) + Len(segment)
        /\ Len(rx_buf_') \in Nat /\ Len(segment') \in Nat
    <3>1. CASE Pop
      <4>1. Head(rx_buf_) \in Bytes /\ Len(Tail(rx_buf_)) = Len(rx_buf_) - 1
            /\ Tail(rx_buf_) \in Seq(Bytes)
        BY <1>0, <3>1, HeadTails DEF Pop
      <4>2. Len(Append(segment, Head(rx_buf_))) = Len(segment) + 1
            /\ Append(segment, Head(rx_buf_)) \in Seq(Bytes)
        BY <1>0, <4>1, Appends
      <4> QED BY <1>0, <3>1, <4>1, <4>2 DEF Pop
    <3>2. CASE UNCHANGED <<rx_buf_, segment>>
      BY <1>0, <3>2
    <3> QED BY <1>2, <3>1, <3>2
            DEF LineStep, LineGoesOn, LoopHead, Receive, PopEmpty, TimeTest,
                uartVars, lineHistory
  <2> QED BY <1>0, <2>1, <2>2 DEF Received_
<1>3. CASE \E b \in Bytes : Arrive(b) /\ Around
  <2>1. PICK b \in Bytes : Arrive(b)
    BY <1>3
  <2>2. line_count' = line_count /\ segment' = segment
    BY <1>3 DEF Arrive, Around, demoVars
  <2>3. CASE /\ rx_buf_' = Append(rx_buf_, b)
             /\ stats_' = [stats_ EXCEPT !["bytes_received"] = @ + 1]
    <3>1. Len(rx_buf_') = Len(rx_buf_) + 1
      BY <1>0, <2>3, Appends
    <3>2. Received_' = Received_ + 1
      BY <1>0, <2>3 DEF Received_
    <3> QED BY <1>0, <2>2, <3>1, <3>2
  <2>4. CASE /\ rx_buf_' = rx_buf_
             /\ stats_' = [stats_ EXCEPT !["rx_buffer_overflows"] = @ + 1]
    <3>1. Received_' = Received_
      BY <1>0, <2>4 DEF Received_
    <3> QED BY <1>0, <2>2, <2>4, <3>1
  <2> QED BY <2>1, <2>3, <2>4 DEF Arrive
<1>4. CASE UNCHANGED <<uartVars, segment, line_count>>
  BY <1>0, <1>4 DEF uartVars, Received_
<1> QED BY <1>1, <1>2, <1>3, <1>4
        DEF Next, MainSteps, SendByte, CallLine, ReceiveLine, Stats, PrintStats,
            Copy, Transmit, SysTick, Around, vars, lineVars, demoVars,
            lineHistory

(* The rest of what main keeps. *)
MainTypes == /\ queued \in 0..TxN-1
             /\ pc \in {"loop", "line", "stats", "copy"}
             /\ todo \subseteq Counters
             /\ snap \in [Counters -> 0..MaxFrames] /\ since \in 0..MaxFrames

LEMMA MainTypesStay ==
    ASSUME ReaderTypes, MainTypes, [Next]_vars
    PROVE  MainTypes'
<1> USE DEF MainTypes
<1>0. /\ stats_ \in [Counters -> 0..MaxFrames] /\ Seen \in 0..MaxFrames
      /\ 0 \in 0..MaxFrames /\ TxN \in Nat \ {0}
  <2>1. Seen \in Nat
    BY CounterTypes DEF Seen
  <2> QED BY <2>1, LineAssumption, DemoAssumption DEF ReaderTypes, LineTypeOK
<1>1. CASE SendByte
  BY <1>0, <1>1 DEF SendByte, Put
<1>2. CASE CallLine \/ Reply
  BY <1>2 DEF CallLine, Reply, demoHistory
<1>3. CASE Stats
  BY <1>0, <1>3 DEF Stats
<1>4. CASE PrintStats
  BY <1>0, <1>4 DEF PrintStats
<1>5. ASSUME NEW c \in Counters, Copy(c) PROVE MainTypes'
  <2>1. stats_[c] \in 0..MaxFrames
    BY <1>0
  <2> QED BY <1>5, <2>1 DEF Copy, demoHistory
<1>6. CASE Transmit
  BY <1>0, <1>6 DEF Transmit, demoHistory
<1>7. CASE UNCHANGED <<demoVars, demoHistory>>
  BY <1>7 DEF demoVars, demoHistory
<1> QED BY <1>1, <1>2, <1>3, <1>4, <1>5, <1>6, <1>7
        DEF Next, MainSteps, LineStep, Around, vars

(* The histories. *)
StreamTypes == echoed \in Seq(Tokens) /\ heard \in Seq(Bytes) /\ spoilt \in BOOLEAN

LEMMA StreamTypesStay ==
    ASSUME ReaderTypes, Saying, StreamTypes, [Next]_vars
    PROVE  StreamTypes'
<1> USE DEF StreamTypes
<1>0. <<>> \in Seq(Tokens) /\ <<>> \in Seq(Bytes)
  OBVIOUS
<1>1. CASE SendByte
  <2>1. Head(say) \in Seq(Tokens) /\ Head(say) # <<>>
    BY <1>1, TailTexts DEF SendByte, Saying
  <2>2. Head(Head(say)) \in Tokens
    BY <2>1
  <2>3. Append(echoed, Head(Head(say))) \in Seq(Tokens)
    BY <2>2
  <2> QED BY <1>0, <1>1, <2>3 DEF SendByte, Put, Spoil
<1>2. CASE Reply
  <2>1. segment \in Seq(Bytes)
    BY DEF ReaderTypes, LineTypeOK
  <2>2. heard \o segment \in Seq(Bytes)
    BY <2>1
  <2> QED BY <1>0, <1>2, <2>2 DEF Reply, Hear, Spoil
<1>3. CASE UNCHANGED <<echoed, heard, spoilt>>
  BY <1>3
<1> QED BY <1>1, <1>2, <1>3
        DEF Next, MainSteps, CallLine, LineStep, Stats, PrintStats, Copy,
            Transmit, Around, vars, demoHistory

DemoTypesInv == LineInv /\ Saying /\ Counted /\ MainTypes /\ StreamTypes

LEMMA AlwaysDemoTypes == Spec => [](ReaderTypes /\ DemoTypesInv)
<1>1. Init => DemoTypesInv
  <2> SUFFICES ASSUME Init PROVE DemoTypesInv
    OBVIOUS
  <2>1. LineInv
    BY TextIs DEF Init, LineInit, NoCall, LineInv, InLine, NoNewline
  <2>2. Saying
    <3>1. Texts(<<<<"G">>>>) /\ Len(<<<<"G">>>>) = 1
      BY OneText DEF Tokens
    <3> QED BY <3>1 DEF Init, Saying
  <2>3. Counted
    BY EmptySeqs DEF Init, LineInit, Counted, Received_, Counters
  <2>4. MainTypes
    BY LineAssumption, DemoAssumption DEF Init, MainTypes
  <2>5. StreamTypes
    <3>1. spoilt \in BOOLEAN
      BY Zenon DEF Init
    <3>2. echoed = <<>> /\ heard = <<>>
      BY DEF Init
    <3> QED BY <3>1, <3>2 DEF StreamTypes
  <2> QED BY <2>1, <2>2, <2>3, <2>4, <2>5 DEF DemoTypesInv
<1>2. ReaderTypes /\ DemoTypesInv /\ [Next]_vars => DemoTypesInv'
  BY NextLineInv, SayStays, CountedStays, MainTypesStay, StreamTypesStay
     DEF DemoTypesInv
<1> QED BY <1>1, <1>2, AlwaysReaderTypes, PTL DEF Spec

(* Every variable of the demo keeps its type: no text is longer than three *)
(* send()s, no more lines are counted than newlines arrived, and the       *)
(* transmit ring never holds more than its bytes.                          *)
THEOREM DemoTypes == Spec => []TypeOK
<1>1. ReaderTypes /\ DemoTypesInv => TypeOK
  <2> SUFFICES ASSUME ReaderTypes, DemoTypesInv PROVE TypeOK
    OBVIOUS
  <2>1. say \in Seq(Seq(Tokens)) /\ <<>> \notin ToSet(say)
    BY DEF DemoTypesInv, Saying, Texts, ToSet
  <2>2. line_count \in 0..MaxFrames
    <3>1. Len(rx_buf_) \in Nat /\ Len(segment) \in Nat
          /\ Received_ \in Nat /\ Received_ <= MaxFrames
      BY CounterTypes, LineAssumption
         DEF ReaderTypes, LineTypeOK, Received_, Counters
    <3> QED BY <3>1, LineAssumption DEF DemoTypesInv, Counted
  <2>3. spoilt \in BOOLEAN
    BY Zenon DEF DemoTypesInv, StreamTypes
  <2> QED BY <2>1, <2>2, <2>3
          DEF ReaderTypes, DemoTypesInv, MainTypes, StreamTypes, TypeOK
<1> QED BY <1>1, AlwaysDemoTypes, PTL

-----------------------------------------------------------------------------
(* Echoes *)

(* The next byte, of which EchoStep makes a function. *)
After(e, b) ==
    IF b = "LF" THEN [out |-> e.out \o <<">">> \o UpToNul(e.cur) \o <<"CRLF">>,
                      cur |-> <<>>]
    ELSE IF b = "CR" THEN e ELSE [e EXCEPT !.cur = Append(@, b)]

LEMMA AfterTypes ==
    ASSUME NEW e \in Echoed, NEW b \in Bytes
    PROVE  After(e, b) \in Echoed
<1>1. e.out \in Seq(Tokens) /\ e.cur \in Seq(Others)
  BY DEF Echoed
<1>2. UpToNul(e.cur) \in Seq(Tokens)
  <2>1. UpToNul(e.cur) \in Seq(Others)
    BY <1>1, UpToNulIs
  <2> QED BY <2>1 DEF Tokens
<1> DEFINE u == UpToNul(e.cur)
           o == e.out \o <<">">> \o u \o <<"CRLF">>
<1>3. o \in Seq(Tokens)
  <2>1. <<">">> \in Seq(Tokens) /\ <<"CRLF">> \in Seq(Tokens)
    BY DEF Tokens
  <2> HIDE DEF u
  <2> QED BY <1>1, <1>2, <2>1 DEF u
<1> HIDE DEF o
<1>4. [out |-> o, cur |-> <<>>] \in Echoed
  BY <1>3, EmptySeqs DEF Echoed
<1>5. b \in Others => [e EXCEPT !.cur = Append(@, b)] \in Echoed
  <2>1. b \in Others => Append(e.cur, b) \in Seq(Others)
    BY <1>1, Appends
  <2> QED BY <2>1 DEF Echoed
<1> QED BY <1>4, <1>5 DEF After, Bytes, o

LEMMA EchoStepIs ==
    /\ EchoStep \in [Echoed \X Bytes -> Echoed]
    /\ \A e \in Echoed, b \in Bytes : EchoStep[<<e, b>>] = After(e, b)
<1>1. ASSUME NEW p \in Echoed \X Bytes
      PROVE  (CASE p[2] = "LF" ->
                     [out |-> p[1].out \o <<">">> \o UpToNul(p[1].cur)
                                       \o <<"CRLF">>,
                      cur |-> <<>>]
                [] p[2] = "CR" -> p[1]
                [] p[2] \in Others -> [p[1] EXCEPT !.cur = Append(@, p[2])])
               = After(p[1], p[2])
  BY LineAssumption DEF After, Bytes
<1>2. EchoStep = [p \in Echoed \X Bytes |-> After(p[1], p[2])]
  BY <1>1 DEF EchoStep
<1> QED BY <1>2, AfterTypes

LEMMA EchoingIs ==
    /\ Echoing(<<>>) = [out |-> <<>>, cur |-> <<>>]
    /\ \A s \in Seq(Bytes), b \in Bytes :
         /\ Echoing(s) \in Echoed
         /\ Echoing(Append(s, b)) = After(Echoing(s), b)
<1> DEFINE e0 == [out |-> <<>>, cur |-> <<>>]
<1>1. Foldable(Echoed, Bytes, EchoStep, e0)
  <2>1. e0 \in Echoed
    BY DEF Echoed
  <2> HIDE DEF e0
  <2> QED BY <2>1, EchoStepIs DEF Foldable
<1>2. \A s : Echoing(s) = Fold(EchoStep, e0, s)
  BY DEF Echoing
<1> HIDE DEF e0
<1>3. Fold(EchoStep, e0, <<>>) = e0
  BY <1>1, FoldEmpty, Zenon
<1>4. ASSUME NEW s \in Seq(Bytes), NEW b \in Bytes
      PROVE  /\ Fold(EchoStep, e0, s) \in Echoed
             /\ Fold(EchoStep, e0, Append(s, b))
                  = EchoStep[<<Fold(EchoStep, e0, s), b>>]
  BY <1>1, FoldAppend
<1>5. ASSUME NEW s \in Seq(Bytes), NEW b \in Bytes
      PROVE  /\ Echoing(s) \in Echoed
             /\ Echoing(Append(s, b)) = After(Echoing(s), b)
  <2>1. /\ Echoing(s) \in Echoed
        /\ Echoing(Append(s, b)) = EchoStep[<<Echoing(s), b>>]
    BY <1>2, <1>4, Zenon
  <2> QED BY <2>1, EchoStepIs
<1> QED BY <1>2, <1>3, <1>5, Zenon DEF e0

(* The tokens of at most three texts one after the other. *)
Rest(ts) == CASE Len(ts) = 0 -> <<>>
              [] Len(ts) = 1 -> ts[1]
              [] Len(ts) = 2 -> ts[1] \o ts[2]
              [] Len(ts) = 3 -> ts[1] \o (ts[2] \o ts[3])

(* Sequences taken apart at the head, and put together there. *)
LEMMA FirstAndRest ==
    ASSUME NEW T, NEW ts \in Seq(T), ts # <<>>
    PROVE  /\ Head(ts) = ts[1] /\ Head(ts) \in T /\ Tail(ts) \in Seq(T)
           /\ Len(ts) \in Nat \ {0} /\ Len(Tail(ts)) = Len(ts) - 1
           /\ \A k \in 1..Len(ts) - 1 : Tail(ts)[k] = ts[k + 1]
BY HeadTailProperties

LEMMA Consed ==
    ASSUME NEW T, NEW t \in T, NEW ts \in Seq(T)
    PROVE  /\ <<t>> \o ts \in Seq(T) /\ <<t>> \o ts # <<>>
           /\ Len(ts) \in Nat /\ Len(<<t>> \o ts) = Len(ts) + 1
           /\ Head(<<t>> \o ts) = t /\ Tail(<<t>> \o ts) = ts
<1> DEFINE us == <<t>> \o ts
<1>1. <<t>> \in Seq(T) /\ Len(<<t>>) = 1 /\ <<t>>[1] = t
  OBVIOUS
<1>2. /\ us \in Seq(T) /\ Len(us) = Len(ts) + 1 /\ us # <<>>
      /\ us[1] = t /\ \A k \in 1..Len(ts) : us[k + 1] = ts[k]
  OBVIOUS
<1> HIDE DEF us
<1>3. /\ Head(us) = us[1] /\ Tail(us) \in Seq(T) /\ Len(Tail(us)) = Len(us) - 1
      /\ \A k \in 1..Len(us) - 1 : Tail(us)[k] = us[k + 1]
  BY <1>2, FirstAndRest
<1> DEFINE r == Tail(us)
<1>4. r \in Seq(T) /\ Len(r) = Len(ts) /\ \A k \in 1..Len(ts) : r[k] = ts[k]
  BY <1>2, <1>3
<1> HIDE DEF r
<1>5. r = ts
  BY <1>4, SeqEqual
<1> QED BY <1>2, <1>3, <1>5 DEF us, r

LEMMA UpToThree ==
    \A n \in Nat : /\ n <= 2 => n = 0 \/ n = 1 \/ n = 2
                   /\ n <= 3 => n = 0 \/ n = 1 \/ n = 2 \/ n = 3
OBVIOUS

LEMMA RestHead ==
    ASSUME NEW S, NEW ts \in Seq(Seq(S)), ts # <<>>, Len(ts) <= 3
    PROVE  /\ Head(ts) \in Seq(S) /\ Tail(ts) \in Seq(Seq(S))
           /\ Rest(Tail(ts)) \in Seq(S)
           /\ Rest(ts) = Head(ts) \o Rest(Tail(ts))
<1> DEFINE r == Tail(ts)
<1>1. /\ r \in Seq(Seq(S)) /\ Len(ts) \in Nat \ {0} /\ Len(r) = Len(ts) - 1
      /\ Head(ts) = ts[1] /\ Head(ts) \in Seq(S)
      /\ \A k \in 1..Len(ts) - 1 : r[k] = ts[k + 1]
  BY FirstAndRest
<1>2. \A k \in 1..Len(ts) : ts[k] \in Seq(S)
  OBVIOUS
<1> HIDE DEF r
<1> DEFINE goal == Rest(r) \in Seq(S) /\ Rest(ts) = Head(ts) \o Rest(r)
<1>3. ASSUME Len(ts) = 1 PROVE goal
  <2>1. Rest(r) = <<>> /\ Rest(ts) = ts[1]
    BY <1>1, <1>3 DEF Rest
  <2>2. ts[1] \in Seq(S)
    BY <1>2, <1>3
  <2> QED BY <1>1, <2>1, <2>2
<1>4. ASSUME Len(ts) = 2 PROVE goal
  <2>1. Rest(r) = ts[2] /\ Rest(ts) = ts[1] \o ts[2]
    BY <1>1, <1>4 DEF Rest
  <2>2. ts[1] \in Seq(S) /\ ts[2] \in Seq(S)
    BY <1>2, <1>4
  <2> QED BY <1>1, <2>1, <2>2
<1>5. ASSUME Len(ts) = 3 PROVE goal
  <2>1. Rest(r) = ts[2] \o ts[3] /\ Rest(ts) = ts[1] \o (ts[2] \o ts[3])
    BY <1>1, <1>5 DEF Rest
  <2>2. ts[1] \in Seq(S) /\ ts[2] \in Seq(S) /\ ts[3] \in Seq(S)
    BY <1>2, <1>5
  <2>3. ts[2] \o ts[3] \in Seq(S)
    BY <2>2, ConcatProperties
  <2> QED BY <1>1, <2>1, <2>3
<1>6. Len(ts) = 1 \/ Len(ts) = 2 \/ Len(ts) = 3
  <2>1. Len(ts) \in Nat /\ Len(ts) # 0
    BY <1>1
  <2> QED BY <2>1, UpToThree, Zenon
<1>7. goal
  <2> HIDE DEF goal
  <2> QED BY <1>3, <1>4, <1>5, <1>6
<1> QED BY <1>1, <1>7 DEF r

LEMMA RestThen ==
    ASSUME NEW S, NEW t \in Seq(S), NEW ts \in Seq(Seq(S)), Len(ts) <= 2
    PROVE  /\ Then(t, ts) \in Seq(Seq(S)) /\ Rest(ts) \in Seq(S)
           /\ Rest(Then(t, ts)) = t \o Rest(ts)
<1>1. Rest(ts) \in Seq(S)
  <2>1. \A k \in 1..Len(ts) : ts[k] \in Seq(S)
    OBVIOUS
  <2>0. Len(ts) \in Nat
    OBVIOUS
  <2>2. CASE Len(ts) = 0
    BY <2>2 DEF Rest
  <2>3. CASE Len(ts) = 1
    BY <2>1, <2>3 DEF Rest
  <2>4. CASE Len(ts) = 2
    <3>1. ts[1] \in Seq(S) /\ ts[2] \in Seq(S)
      BY <2>1, <2>4
    <3> QED BY <2>4, <3>1 DEF Rest
  <2>5. Len(ts) = 0 \/ Len(ts) = 1 \/ Len(ts) = 2
    BY <2>0, UpToThree, Zenon
  <2> QED BY <2>2, <2>3, <2>4, <2>5
<1>2. CASE t = <<>>
  BY <1>1, <1>2 DEF Then
<1>3. CASE t # <<>>
  <2> DEFINE us == <<t>> \o ts
  <2>1. /\ us \in Seq(Seq(S)) /\ us # <<>>
        /\ Len(ts) \in Nat /\ Len(us) = Len(ts) + 1
        /\ Head(us) = t /\ Tail(us) = ts
    BY Consed
  <2>2. Then(t, ts) = us
    BY <1>3 DEF Then
  <2> HIDE DEF us
  <2>3. Rest(us) = Head(us) \o Rest(Tail(us))
    <3>1. Len(us) <= 3
      BY <2>1
    <3> QED BY <2>1, <3>1, RestHead
  <2> QED BY <1>1, <2>1, <2>2, <2>3
<1> QED BY <1>2, <1>3

(* What is no text of the statistics. *)
Echoes == Tokens \ {"S"}

(* The bytes taken so far make the echoes sent so far, the texts still to  *)
(* be sent and the line begun; or statistics are being sent.               *)
HeardSoFar ==
    /\ Echoing(heard).cur = <<>>
    /\ Echoing(heard \o segment) =
         IF cause = "line"
         THEN [out |-> EchoOf(heard) \o <<">">> \o UpToNul(l.line) \o <<"CRLF">>,
               cur |-> <<>>]
         ELSE [out |-> EchoOf(heard), cur |-> l.line]
SaidSoFar ==
    \/ /\ \A k \in 1..Len(say) : say[k] = <<"S">>
       /\ echoed = <<"G">> \o EchoOf(heard)
    \/ /\ say \in Seq(Seq(Echoes))
       /\ echoed \o Rest(say) = <<"G">> \o EchoOf(heard)

EchoInv == ~spoilt => HeardSoFar /\ SaidSoFar

EchoTypes == ReaderTypes /\ OneThread /\ DemoTypesInv

LEMMA EchoTypeFacts ==
    ASSUME EchoTypes
    PROVE  /\ heard \in Seq(Bytes) /\ segment \in Seq(Bytes)
           /\ rx_buf_ \in Seq(Bytes) /\ echoed \in Seq(Tokens)
           /\ l \in Locals /\ l.line \in Seq(Others)
           /\ heard \o segment \in Seq(Bytes)
           /\ Echoing(heard) \in Echoed /\ EchoOf(heard) \in Seq(Tokens)
<1>1. /\ heard \in Seq(Bytes) /\ segment \in Seq(Bytes)
      /\ rx_buf_ \in Seq(Bytes) /\ echoed \in Seq(Tokens)
      /\ l \in Locals /\ l.line \in Seq(Others)
  BY DEF EchoTypes, ReaderTypes, LineTypeOK, Locals, DemoTypesInv, StreamTypes
<1>2. heard \o segment \in Seq(Bytes)
  BY <1>1
<1>3. Echoing(heard) \in Echoed
  <2>1. "CR" \in Bytes
    BY DEF Bytes
  <2> QED BY <1>1, <2>1, EchoingIs
<1>4. EchoOf(heard) \in Seq(Tokens)
  BY <1>3 DEF Echoed, EchoOf
<1> QED BY <1>1, <1>2, <1>3, <1>4

(* A byte taken makes one more step of the echo. *)
LEMMA PopHeard ==
    ASSUME EchoTypes, HeardSoFar, Pop, heard' = heard
    PROVE  HeardSoFar'
<1> DEFINE b == Head(rx_buf_)
           hs == heard \o segment
<1>0. /\ heard \in Seq(Bytes) /\ segment \in Seq(Bytes) /\ hs \in Seq(Bytes)
      /\ l \in Locals /\ l.line \in Seq(Others) /\ EchoOf(heard) \in Seq(Tokens)
  BY EchoTypeFacts
<1>1. b \in Bytes
  BY EchoTypeFacts, HeadTails DEF Pop
<1>2. segment' = Append(segment, b) /\ Store(b) /\ cause = "none"
  BY DEF Pop, EchoTypes, DemoTypesInv, LineInv, InLine
<1> HIDE DEF b
<1>3. heard' \o segment' = Append(hs, b)
  BY <1>0, <1>1, <1>2
<1> HIDE DEF hs
<1>4. Echoing(heard' \o segment') = After(Echoing(hs), b)
  BY <1>0, <1>1, <1>3, EchoingIs
<1>5. Echoing(hs) = [out |-> EchoOf(heard), cur |-> l.line]
  BY <1>2 DEF HeardSoFar, hs
<1>6. Echoing(heard') = Echoing(heard) /\ EchoOf(heard') = EchoOf(heard)
  OBVIOUS
<1>7. Received.line = l.line /\ Received \in Locals
  BY <1>0, LocalUpdates DEF Received, Locals
<1> DEFINE o == EchoOf(heard)
           t == l.line
<1>8. CASE b = "LF"
  <2>1. cause' = "line" /\ l'.line = t
    BY <1>2, <1>7, <1>8 DEF Store
  <2> HIDE DEF o, t
  <2>2. After([out |-> o, cur |-> t], b)
          = [out |-> o \o <<">">> \o UpToNul(t) \o <<"CRLF">>, cur |-> <<>>]
    BY <1>8 DEF After
  <2>3. Echoing(heard' \o segment')
          = [out |-> o \o <<">">> \o UpToNul(t) \o <<"CRLF">>, cur |-> <<>>]
    BY <1>4, <1>5, <2>2 DEF o, t
  <2>4. UpToNul(l'.line) = UpToNul(t) /\ EchoOf(heard') = o
    BY <1>6, <2>1 DEF o
  <2> QED BY <1>6, <2>1, <2>3, <2>4 DEF HeardSoFar
<1>9. CASE b = "CR"
  <2>1. cause' = "none" /\ l'.line = t
    BY <1>2, <1>7, <1>9 DEF Store
  <2> HIDE DEF o, t
  <2>2. After([out |-> o, cur |-> t], b) = [out |-> o, cur |-> t]
    BY <1>9 DEF After
  <2> QED BY <1>4, <1>5, <1>6, <2>1, <2>2 DEF HeardSoFar, o, t
<1>10. CASE b \notin {"CR", "LF"}
  <2>1. cause' = "none" /\ l'.line = Append(t, b)
    BY <1>2, <1>7, <1>10 DEF Store, Locals
  <2> HIDE DEF o, t
  <2>2. After([out |-> o, cur |-> t], b) = [out |-> o, cur |-> Append(t, b)]
    BY <1>10 DEF After
  <2> QED BY <1>4, <1>5, <1>6, <2>1, <2>2 DEF HeardSoFar, o, t
<1> QED BY <1>8, <1>9, <1>10

(* The other steps that take nothing. *)
LEMMA SameHeard ==
    ASSUME HeardSoFar, UNCHANGED <<heard, segment>>, l'.line = l.line,
           cause # "line", cause' # "line"
    PROVE  HeardSoFar'
<1>1. /\ Echoing(heard)' = Echoing(heard) /\ EchoOf(heard)' = EchoOf(heard)
      /\ Echoing(heard \o segment)' = Echoing(heard \o segment)
  OBVIOUS
<1> QED BY <1>1 DEF HeardSoFar

(* Nothing is left to be said. *)
LEMMA AllSaid ==
    ASSUME EchoTypes, SaidSoFar, say = <<>>
    PROVE  echoed = <<"G">> \o EchoOf(heard)
<1>1. Rest(<<>>) = <<>>
  BY EmptySeqs DEF Rest
<1>2. echoed \o <<>> = echoed
  BY EchoTypeFacts
<1> QED BY <1>1, <1>2 DEF SaidSoFar

(* A token put in the ring is taken from what is left to be said. *)
LEMMA PutSaid ==
    ASSUME EchoTypes, SaidSoFar, ~spoilt, say # <<>>, UNCHANGED heard,
           Put(Head(Head(say))), say' = Then(Tail(Head(say)), Tail(say))
    PROVE  SaidSoFar'
<1> DEFINE h == Head(say)
           r == Tail(say)
           x == Head(h)
<1>0. /\ Texts(say) /\ Len(say) <= 3 /\ echoed \in Seq(Tokens)
      /\ EchoOf(heard)' = EchoOf(heard)
  BY EchoTypeFacts DEF EchoTypes, DemoTypesInv, Saying
<1>1. h \in Seq(Tokens) /\ h # <<>> /\ Texts(r) /\ Len(r) = Len(say) - 1
  BY <1>0, TailTexts
<1>2. echoed' = IF x = "S" THEN echoed ELSE Append(echoed, x)
  BY DEF Put
<1>3. CASE /\ \A k \in 1..Len(say) : say[k] = <<"S">>
           /\ echoed = <<"G">> \o EchoOf(heard)
  <2>1. /\ say \in Seq(Seq(Tokens)) /\ h = say[1] /\ Len(say) \in Nat \ {0}
        /\ \A k \in 1..Len(say) - 1 : r[k] = say[k + 1]
    BY <1>0, FirstAndRest DEF Texts
  <2>2. h = <<"S">>
    BY <1>3, <2>1
  <2>3. Tail(h) = <<>> /\ x = "S"
    <3>1. Tail(<<"S">>) = <<>> /\ Head(<<"S">>) = "S"
      OBVIOUS
    <3> HIDE DEF h
    <3> QED BY <2>2, <3>1
  <2>4. say' = r /\ echoed' = echoed
    BY <1>2, <2>3 DEF Then
  <2>5. \A k \in 1..Len(r) : r[k] = <<"S">>
    BY <1>1, <1>3, <2>1
  <2> QED BY <1>0, <1>3, <2>4, <2>5 DEF SaidSoFar
<1>4. CASE /\ say \in Seq(Seq(Echoes))
           /\ echoed \o Rest(say) = <<"G">> \o EchoOf(heard)
  <2>1. /\ h \in Seq(Echoes) /\ r \in Seq(Seq(Echoes))
        /\ Rest(say) = h \o Rest(r)
    BY <1>0, <1>4, RestHead
  <2> HIDE DEF h, r
  <2>2. x \in Echoes /\ Tail(h) \in Seq(Echoes) /\ h = <<x>> \o Tail(h)
    BY <1>1, <2>1
  <2>3. Len(r) <= 2
    <3>1. Len(say) \in Nat
      BY <1>0 DEF Texts
    <3> QED BY <1>0, <1>1, <3>1
  <2> HIDE DEF x
  <2> DEFINE tl == Tail(h)
             y == Rest(r)
             n == Then(tl, r)
  <2>4. n \in Seq(Seq(Echoes)) /\ y \in Seq(Echoes) /\ Rest(n) = tl \o y
    BY <2>1, <2>2, <2>3, RestThen
  <2>5. say' = n
    BY DEF h, r
  <2> HIDE DEF tl, y, n
  <2>6. Seq(Echoes) \subseteq Seq(Tokens) /\ x \in Tokens
    BY <2>2 DEF Echoes
  <2>7. tl \in Seq(Tokens) /\ y \in Seq(Tokens)
    BY <2>2, <2>4, <2>6 DEF tl
  <2>8. echoed' = echoed \o <<x>>
    BY <1>0, <1>2, <2>2, <2>6, AppendIsConcat DEF Echoes, x, h
  <2>9. (echoed \o <<x>>) \o (tl \o y) = echoed \o ((<<x>> \o tl) \o y)
    BY <1>0, <2>6, <2>7
  <2>10. echoed' \o Rest(say') = echoed \o Rest(say)
    BY <2>1, <2>2, <2>4, <2>5, <2>8, <2>9 DEF tl, y
  <2> QED BY <1>0, <1>4, <2>4, <2>5, <2>10 DEF SaidSoFar
<1> QED BY <1>3, <1>4 DEF SaidSoFar

Regroups(a, b, c, d, e) ==
    (a \o b) \o (c \o (d \o e)) = a \o (b \o c \o d \o e)

LEMMA FiveParts ==
    ASSUME NEW S, NEW a \in Seq(S), NEW b \in Seq(S), NEW c \in Seq(S),
           NEW d \in Seq(S), NEW e \in Seq(S)
    PROVE  Regroups(a, b, c, d, e)
<1>1. /\ c \o d \in Seq(S) /\ d \o e \in Seq(S) /\ b \o c \in Seq(S)
      /\ c \o (d \o e) \in Seq(S) /\ (b \o c) \o d \in Seq(S)
  OBVIOUS
<1>2. (a \o b) \o (c \o (d \o e)) = a \o (b \o (c \o (d \o e)))
  <2> DEFINE w == c \o (d \o e)
  <2>1. w \in Seq(S)
    BY <1>1
  <2> HIDE DEF w
  <2>2. (a \o b) \o w = a \o (b \o w)
    BY <2>1
  <2> QED BY <2>2 DEF w
<1>3. b \o (c \o (d \o e)) = (b \o c) \o (d \o e)
  BY <1>1
<1>4. (b \o c) \o (d \o e) = ((b \o c) \o d) \o e
  BY <1>1
<1> QED BY <1>2, <1>3, <1>4 DEF Regroups

(* A line that has been heard is what will be said next. *)
LEMMA ReplyHeardAndSaid ==
    ASSUME EchoTypes, HeardSoFar, SaidSoFar, Reply, cause = "line", ~spoilt
    PROVE  HeardSoFar' /\ SaidSoFar'
<1> DEFINE u == UpToNul(l.line)
           e == EchoOf(heard)
           hs == heard \o segment
           o == e \o <<">">> \o u \o <<"CRLF">>
<1>1. /\ heard' = hs /\ segment' = <<>> /\ l' = NoCall /\ cause' = "none"
      /\ echoed' = echoed
      /\ say' = <<<<">">>>> \o Then(u, <<<<"CRLF">>>>)
  BY DEF Reply, LineResult, Hear
<1>2. /\ hs \in Seq(Bytes) /\ e \in Seq(Tokens) /\ echoed \in Seq(Tokens)
      /\ u \in Seq(Others)
  BY EchoTypeFacts, UpToNulIs
<1>3. Echoing(hs) = [out |-> o, cur |-> <<>>]
  BY DEF HeardSoFar
<1>4. say = <<>>
  BY DEF Reply, LineResult, EchoTypes, OneThread
<1>5. echoed = <<"G">> \o e
  BY <1>4, AllSaid
<1> HIDE DEF u, e, hs, o
<1>6. Echoing(heard').cur = <<>> /\ EchoOf(heard') = o
  BY <1>1, <1>3 DEF EchoOf
<1>7. HeardSoFar'
  <2>1. heard' \o segment' = heard'
    BY <1>1, <1>2
  <2>2. l'.line = <<>>
    BY <1>1 DEF NoCall
  <2>3. Echoing(heard' \o segment') = [out |-> EchoOf(heard'), cur |-> l'.line]
    BY <1>1, <1>3, <1>6, <2>1, <2>2
  <2> QED BY <1>1, <1>6, <2>3 DEF HeardSoFar
<1> DEFINE first == <<">">>
           last == <<"CRLF">>
           one == <<last>>
           ts == Then(u, one)
<1>8. /\ first \in Seq(Echoes) /\ first # <<>> /\ last \in Seq(Echoes)
      /\ one \in Seq(Seq(Echoes)) /\ Len(one) = 1 /\ one[1] = last
      /\ Texts(one)
  <2>1. ">" \in Echoes /\ "CRLF" \in Echoes /\ "CRLF" \in Tokens
    BY DEF Echoes, Tokens
  <2>2. first \in Seq(Echoes) /\ first # <<>> /\ last \in Seq(Echoes)
    BY <2>1
  <2>3. Texts(one) /\ Len(one) = 1
    BY <2>1, OneText
  <2> HIDE DEF last
  <2>4. one \in Seq(Seq(Echoes)) /\ one[1] = last
    BY <2>2
  <2> QED BY <2>2, <2>3, <2>4
<1>9. u \in Seq(Echoes) /\ u \in Seq(Tokens)
  <2>1. Others \subseteq Echoes /\ Others \subseteq Tokens
    BY DemoAssumption DEF Echoes, Tokens
  <2> QED BY <1>2, <2>1
<1> HIDE DEF first, last, one
<1>10. /\ ts \in Seq(Seq(Echoes)) /\ Rest(ts) = u \o Rest(one)
       /\ Len(ts) <= Len(one) + 1
  <2>1. Len(one) <= 2
    BY <1>8
  <2> QED BY <1>8, <1>9, <2>1, RestThen, ThenTexts
<1>11. Rest(one) = last
  BY <1>8 DEF Rest
<1>12. Texts(ts)
  BY <1>8, <1>9, ThenTexts
<1> HIDE DEF ts
<1>13. Len(ts) <= 2
  BY <1>8, <1>10
<1>14. say' = Then(first, ts)
  <2>1. first \in Seq(Tokens)
    BY DEF first, Tokens
  <2>2. <<first>> \o ts = Then(first, ts)
    BY <1>8, <1>12, <2>1, ThenTexts
  <2> QED BY <1>1, <2>2 DEF first, last, one, ts
<1>15. say' \in Seq(Seq(Echoes)) /\ Rest(say') = first \o (u \o last)
  <2>1. /\ Then(first, ts) \in Seq(Seq(Echoes))
        /\ Rest(Then(first, ts)) = first \o Rest(ts)
    BY <1>8, <1>10, <1>13, RestThen
  <2> QED BY <1>10, <1>11, <1>14, <2>1
<1>16. echoed' \o Rest(say') = <<"G">> \o o
  <2> DEFINE g == <<"G">>
  <2>1. g \in Seq(Tokens) /\ first \in Seq(Tokens) /\ last \in Seq(Tokens)
    BY DEF Tokens, first, last
  <2> HIDE DEF g
  <2>2. (g \o e) \o (first \o (u \o last)) = g \o (e \o first \o u \o last)
    <3>1. Regroups(g, e, first, u, last)
      BY <1>2, <1>9, <2>1, FiveParts
    <3> QED BY <3>1 DEF Regroups
  <2> QED BY <1>1, <1>5, <1>15, <2>2 DEF g, o, first, last
<1> QED BY <1>6, <1>7, <1>15, <1>16 DEF SaidSoFar

(* A step at which nothing is heard or said. *)
LEMMA SameSaid ==
    ASSUME SaidSoFar, UNCHANGED <<heard, echoed, say>>
    PROVE  SaidSoFar'
<1>1. EchoOf(heard)' = EchoOf(heard) /\ Rest(say)' = Rest(say)
  OBVIOUS
<1> QED BY <1>1 DEF SaidSoFar

(* Outside receive_line() no call has just read a line. *)
LEMMA NoLineElsewhere ==
    ASSUME EchoTypes, pc # "line" \/ InLine
    PROVE  cause # "line"
BY DEF EchoTypes, OneThread, DemoTypesInv, LineInv, InLine

LEMMA NextEchoInv == EchoTypes /\ EchoInv /\ [Next]_vars => EchoInv'
<1> SUFFICES ASSUME EchoTypes, EchoInv, [Next]_vars, ~spoilt'
             PROVE  HeardSoFar' /\ SaidSoFar'
  BY DEF EchoInv
<1>1. ~spoilt /\ HeardSoFar /\ SaidSoFar
  <2>1. ~spoilt
    BY DEF Next, MainSteps, SendByte, Put, Spoil, CallLine, LineStep, Reply, Hear,
       Stats, PrintStats, Copy, Transmit, Around, vars, demoHistory
  <2> QED BY <2>1 DEF EchoInv
<1>2. l \in Locals
  BY EchoTypeFacts
<1>3. CASE SendByte
  <2>1. /\ say # <<>> /\ Put(Head(Head(say)))
        /\ say' = Then(Tail(Head(say)), Tail(say))
        /\ UNCHANGED <<heard, segment, l, cause>>
    BY <1>3 DEF SendByte, Put, Spoil, lineHistory
  <2>2. cause # "line"
    <3>1. pc # "line"
      BY <2>1 DEF EchoTypes, OneThread
    <3> QED BY <3>1, NoLineElsewhere
  <2>3. HeardSoFar'
    BY <1>1, <2>1, <2>2, SameHeard
  <2>4. SaidSoFar'
    BY <1>1, <2>1, PutSaid
  <2> QED BY <2>3, <2>4
<1>4. CASE CallLine
  <2>1. UNCHANGED <<heard, echoed, say, segment>> /\ cause' # "line"
        /\ pc # "line" /\ lpc = "idle"
    BY <1>4 DEF CallLine, ReceiveLine, At, demoHistory
  <2>2. l.line = <<>>
    BY <2>1, TextIs DEF EchoTypes, DemoTypesInv, LineInv
  <2>3. l'.line = <<>>
    BY <1>4 DEF CallLine, ReceiveLine, NoCall
  <2> QED BY <1>1, <2>1, <2>2, <2>3, NoLineElsewhere, SameHeard, SameSaid
<1>5. CASE LineStep
  <2>1. UNCHANGED <<heard, echoed, say>>
    BY <1>5 DEF LineStep, demoVars, demoHistory
  <2>2. HeardSoFar'
    <3>1. CASE Pop
      BY <1>1, <2>1, <3>1, PopHeard
    <3>2. CASE LoopHead \/ Receive \/ PopEmpty \/ TimeTest
      <4>1. InLine /\ segment' = segment /\ l'.line = l.line
            /\ (cause' = cause \/ cause' \in {"full", "timeout"})
        BY <1>2, <3>2 DEF LoopHead, Receive, PopEmpty, TimeTest, GiveUp, InLine,
           Locals, lineHistory
      <4>2. cause # "line" /\ cause' # "line"
        BY <4>1, NoLineElsewhere
      <4> QED BY <1>1, <2>1, <4>1, <4>2, SameHeard
    <3> QED BY <1>5, <3>1, <3>2 DEF LineStep, LineGoesOn
  <2> QED BY <1>1, <2>1, <2>2, SameSaid
<1>6. CASE Reply
  <2>1. cause = "line"
    BY <1>6 DEF Reply, Hear, Spoil
  <2> QED BY <1>1, <1>6, <2>1, ReplyHeardAndSaid
<1>7. CASE PrintStats
  <2>1. /\ UNCHANGED <<heard, echoed, segment, l, cause>>
        /\ pc # "line" /\ say = <<>> /\ say' = <<<<"S">>, <<"S">>, <<"S">>>>
    BY <1>7 DEF PrintStats, At, lineHistory
  <2>2. HeardSoFar'
    BY <1>1, <2>1, NoLineElsewhere, SameHeard
  <2>3. echoed' = <<"G">> \o EchoOf(heard')
    BY <1>1, <2>1, AllSaid
  <2>4. \A k \in 1..Len(say') : say'[k] = <<"S">>
    BY <2>1
  <2> QED BY <2>2, <2>3, <2>4 DEF SaidSoFar
<1>8. CASE UNCHANGED <<heard, echoed, say, segment, l, cause>>
  <2>1. /\ EchoOf(heard)' = EchoOf(heard) /\ Echoing(heard)' = Echoing(heard)
        /\ Echoing(heard \o segment)' = Echoing(heard \o segment)
        /\ UpToNul(l.line)' = UpToNul(l.line)
    BY <1>8
  <2>2. HeardSoFar'
    BY <1>1, <1>8, <2>1 DEF HeardSoFar
  <2> QED BY <1>1, <1>8, <2>2, SameSaid
<1> QED BY <1>3, <1>4, <1>5, <1>6, <1>7, <1>8
        DEF Next, MainSteps, Stats, Copy, Transmit, SysTick, Arrive, Around, vars,
            lineVars, demoVars, demoHistory, lineHistory

(* Whatever the division of the stream of bytes into receive_line()s, and  *)
(* whatever arrives, is transmitted or printed meanwhile, the echoes come  *)
(* out whole, in order and once, until receive_line() has returned false   *)
(* or a text has found the transmit ring full.                             *)
THEOREM EchoRight == Spec => []EchoIsFaithful
<1>1. Init => OneThread
  BY DEF Init, LineInit, OneThread
<1>2. Init /\ EchoTypes => EchoInv
  <2> SUFFICES ASSUME Init, EchoTypes PROVE HeardSoFar /\ SaidSoFar
    BY DEF EchoInv
  <2>1. /\ heard = <<>> /\ segment = <<>> /\ echoed = <<>> /\ l.line = <<>>
        /\ cause = "none" /\ say = <<<<"G">>>>
    BY DEF Init, LineInit, NoCall
  <2>2. Echoing(heard) = [out |-> <<>>, cur |-> <<>>] /\ heard \o segment = heard
    BY <2>1, EchoingIs
  <2>3. EchoOf(heard) = <<>>
    BY <2>2 DEF EchoOf
  <2>4. HeardSoFar
    BY <2>1, <2>2, <2>3 DEF HeardSoFar
  <2> DEFINE g == <<"G">>
             gs == <<g>>
  <2>5. g \in Seq(Echoes)
    BY DemoAssumption DEF Echoes, Tokens
  <2>6. gs \in Seq(Seq(Echoes)) /\ Len(gs) = 1 /\ gs[1] = g
    <3> HIDE DEF g
    <3> QED BY <2>5
  <2>7. Rest(gs) = g
    <3> HIDE DEF g, gs
    <3> QED BY <2>6 DEF Rest
  <2>8. <<>> \o g = g /\ g \o <<>> = g
    OBVIOUS
  <2>9. SaidSoFar
    <3>1. say = gs
      BY <2>1
    <3> HIDE DEF gs
    <3>2. say \in Seq(Seq(Echoes)) /\ Rest(say) = g
      BY <2>6, <2>7, <3>1
    <3> HIDE DEF g
    <3>3. echoed \o Rest(say) = g \o EchoOf(heard)
      BY <2>1, <2>3, <2>8, <3>2
    <3> QED BY <3>2, <3>3 DEF SaidSoFar, g
  <2> QED BY <2>4, <2>9
<1>3. EchoTypes /\ [Next]_vars => OneThread'
  BY NextOneThread DEF EchoTypes
<1>4. EchoTypes /\ EchoInv => EchoIsFaithful
  BY AllSaid DEF EchoInv, EchoIsFaithful, At
<1>5. EchoTypes <=> ReaderTypes /\ DemoTypesInv /\ OneThread
  BY DEF EchoTypes
<1> QED BY <1>1, <1>2, <1>3, <1>4, <1>5, NextEchoInv, AlwaysDemoTypes, PTL
        DEF Spec
==============================================================================
