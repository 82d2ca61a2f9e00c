---------------------------- MODULE Journal_proofs ----------------------------
(***************************************************************************)
(* Proofs about the journal: for any number of commits and crashes, the    *)
(* file implements DurableLog, and while the service runs the file alone   *)
(* gives the ledger it serves.                                             *)
(*                                                                         *)
(* The replay of a file is a recursive function of its lines.  That the    *)
(* function is well defined, keeps its type, and is one step longer after  *)
(* one more line, follows by induction on the number of lines: a least     *)
(* counterexample (lemma Least) would have a predecessor.                  *)
(***************************************************************************)
EXTENDS Journal, SequenceTheorems, WellFoundedInduction, TLAPS

-------------------------------------------------------------------------------
(* Induction on the lines                                                  *)

(* Every nonempty set of naturals has a least element.                     *)
LEMMA Least ==
  ASSUME NEW T \in SUBSET Nat, T # {}
  PROVE  \E n \in T : \A m \in T : n <= m
  <1> DEFINE Less == OpToRel(<, Nat)
  <1>1. IsWellFoundedOn(Less, Nat)
    BY NatLessThanWellFounded
  <1>2. \A m, n \in Nat : m < n => <<m, n>> \in Less
    BY DEF OpToRel
  <1> HIDE DEF Less
  <1>3. PICK n \in T : \A m \in T : ~ (<<m, n>> \in Less)
    BY <1>1, WFMin
  <1>4. \A m \in T : n \in Nat /\ m \in Nat
    OBVIOUS
  <1>5. \A m \in T : ~ (m < n)
    BY <1>2, <1>3, <1>4
  <1>6. QED
    BY <1>4, <1>5

(* g replays the first k of the lines.                                     *)
ReplaysFirst(g, k, lines) ==
  g = [i \in 0..k |-> IF i = 0 THEN <<>> ELSE After(g[i - 1], lines[i])]

LEMMA ReplaysExist ==
  ASSUME NEW lines, NEW n \in Nat
  PROVE  \E g : ReplaysFirst(g, n, lines)
  <1> DEFINE Bad == {k \in 0..n : ~ \E g : ReplaysFirst(g, k, lines)}
  <1> SUFFICES ASSUME Bad # {} PROVE FALSE
    OBVIOUS
  <1>1. PICK k \in Bad : \A m \in Bad : k <= m
    <2>1. Bad \in SUBSET Nat
      OBVIOUS
    <2> HIDE DEF Bad
    <2>2. QED
      BY <2>1, Least
  <1>2. CASE k = 0
    <2>1. ReplaysFirst([i \in 0..0 |-> <<>>], 0, lines)
      BY DEF ReplaysFirst
    <2>2. QED
      BY <1>2, <2>1
  <1>3. CASE k # 0
    <2>1. k \in 1..n /\ k - 1 \in 0..n /\ k - 1 \notin Bad
      BY <1>1, <1>3
    <2>2. PICK g : ReplaysFirst(g, k - 1, lines)
      BY <2>1
    <2> DEFINE h == [i \in 0..k |-> IF i = k THEN After(g[k - 1], lines[k]) ELSE g[i]]
    <2>3. ASSUME NEW i \in 0..k
          PROVE  h[i] = IF i = 0 THEN <<>> ELSE After(h[i - 1], lines[i])
      <3>1. CASE i = k
        <4>1. i - 1 = k - 1 /\ k - 1 \in 0..k /\ k - 1 # k
          BY <2>1, <3>1
        <4>2. h[i - 1] = g[k - 1]
          BY <4>1
        <4>3. h[i] = After(g[k - 1], lines[k])
          BY <3>1
        <4>4. QED
          BY <1>3, <3>1, <4>2, <4>3
      <3>2. CASE i # k
        <4>1. i \in 0..(k - 1) /\ h[i] = g[i]
          BY <2>1, <3>2
        <4>2. g[i] = IF i = 0 THEN <<>> ELSE After(g[i - 1], lines[i])
          BY <2>2, <4>1 DEF ReplaysFirst
        <4>3. i # 0 => h[i - 1] = g[i - 1]
          BY <2>1, <4>1
        <4>4. QED
          BY <4>1, <4>2, <4>3
      <3>3. QED
        BY <3>1, <3>2
    <2>4. DOMAIN h = 0..k /\ h = [i \in 0..k |-> h[i]]
      OBVIOUS
    <2> HIDE DEF h
    <2>5. h = [i \in 0..k |-> IF i = 0 THEN <<>> ELSE After(h[i - 1], lines[i])]
      BY <2>3, <2>4
    <2>6. ReplaysFirst(h, k, lines)
      BY <2>5 DEF ReplaysFirst
    <2>7. QED
      BY <2>6
  <1>4. QED
    BY <1>2, <1>3

LEMMA ReplaysUnfold ==
  ASSUME NEW lines, Len(lines) \in Nat
  PROVE  ReplaysFirst(Replays(lines), Len(lines), lines)
  <1>1. Replays(lines) = CHOOSE g : ReplaysFirst(g, Len(lines), lines)
    BY DEF Replays, ReplaysFirst
  <1>2. \E g : ReplaysFirst(g, Len(lines), lines)
    BY ReplaysExist
  <1>3. QED
    BY <1>1, <1>2
(* Two replays of the same first lines agree.                              *)
LEMMA ReplaysAgree ==
  ASSUME NEW s, NEW t, NEW m \in Nat, NEW n \in Nat, m <= n,
         \A i \in 1..m : s[i] = t[i],
         NEW g, ReplaysFirst(g, m, s), NEW h, ReplaysFirst(h, n, t)
  PROVE  g[m] = h[m]
  <1> DEFINE Bad == {k \in 0..m : g[k] # h[k]}
  <1>1. \A i \in 0..m : g[i] = IF i = 0 THEN <<>> ELSE After(g[i - 1], s[i])
    BY DEF ReplaysFirst
  <1>2. \A i \in 0..m : h[i] = IF i = 0 THEN <<>> ELSE After(h[i - 1], t[i])
    BY DEF ReplaysFirst
  <1>3. Bad = {}
    <2> SUFFICES ASSUME Bad # {} PROVE FALSE
      OBVIOUS
    <2>1. PICK k \in Bad : \A j \in Bad : k <= j
      <3>1. Bad \in SUBSET Nat
        OBVIOUS
      <3> HIDE DEF Bad
      <3>2. QED
        BY <3>1, Least
    <2>2. k # 0
      BY <1>1, <1>2
    <2>3. k \in 1..m /\ k - 1 \in 0..m /\ k - 1 \notin Bad
      BY <2>1, <2>2
    <2>4. g[k - 1] = h[k - 1] /\ s[k] = t[k]
      BY <2>3
    <2>5. g[k] = h[k]
      BY <1>1, <1>2, <2>2, <2>3, <2>4
    <2>6. QED
      BY <2>5
  <1>4. QED
    BY <1>3

-------------------------------------------------------------------------------
(* What a replay gives                                                     *)

LEMMA ReplayOfEmpty == ReplayOf(<<>>) = <<>>
  <1>1. Len(<<>>) = 0
    BY EmptySeq
  <1>2. ReplaysFirst(Replays(<<>>), 0, <<>>)
    BY <1>1, ReplaysUnfold
  <1>3. QED
    BY <1>1, <1>2 DEF ReplaysFirst, ReplayOf

(* One more line changes the ledger as that line says.                     *)
LEMMA ReplayOfAppend ==
  ASSUME NEW S, NEW s \in Seq(S), NEW line \in S
  PROVE  ReplayOf(Append(s, line)) = After(ReplayOf(s), line)
  <1> DEFINE n == Len(s)
             t == Append(s, line)
             g == Replays(s)
             h == Replays(t)
  <1>1. /\ n \in Nat /\ Len(t) = n + 1
        /\ \A i \in 1..n : s[i] = t[i]
        /\ t[n + 1] = line
    BY AppendProperties, LenProperties
  <1> HIDE DEF t
  <1>2. ReplaysFirst(g, n, s) /\ ReplaysFirst(h, n + 1, t)
    <2>1. ReplaysFirst(Replays(s), Len(s), s)
      BY <1>1, ReplaysUnfold
    <2>2. Len(t) \in Nat
      BY <1>1
    <2>3. ReplaysFirst(Replays(t), Len(t), t)
      BY <2>2, ReplaysUnfold
    <2>4. QED
      BY <1>1, <2>1, <2>3
  <1> HIDE DEF n, g, h
  <1>3. h[n + 1] = After(h[n], line)
    BY <1>1, <1>2 DEF ReplaysFirst
  <1>4. g[n] = h[n]
    BY <1>1, <1>2, ReplaysAgree
  <1>5. QED
    BY <1>1, <1>3, <1>4 DEF ReplayOf, n, t, g, h

-------------------------------------------------------------------------------
(* What the file promises                                                  *)

Tails == Log!Tails
Promised(L) == \E tail \in Tails : L = served \o tail

(* Of an event appended to a log: it may be the one under way, or the      *)
(* interruption of a proof; an interrupted proof is not cut off again.     *)
LEMMA TailsAre ==
  /\ <<>> \in Tails
  /\ \A e \in Events : <<e>> \in Tails /\ <<e, Interrupt>> \in Tails
  /\ Tails \subseteq Seq(Events)
  /\ \A tail \in Tails : tail = <<>> \/ \E e \in Events : tail = <<e>> \/ tail = <<e, Interrupt>>
  <1>1. Interrupt \in Events
    BY DEF Events
  <1>2. Tails = {<<>>, <<Interrupt>>} \cup {<<e>> : e \in Events} \cup {<<e, Interrupt>> : e \in Events}
    BY DEF Tails, Log!Tails
  <1>3. \A tail \in Tails : tail = <<>> \/ \E e \in Events : tail = <<e>> \/ tail = <<e, Interrupt>>
    BY <1>1, <1>2
  <1>4. <<>> \in Seq(Events) /\ \A e \in Events : <<e>> \in Seq(Events) /\ <<e, Interrupt>> \in Seq(Events)
    BY <1>1
  <1>5. Tails \subseteq Seq(Events)
    BY <1>3, <1>4
  <1>6. <<>> \in Tails /\ \A e \in Events : <<e>> \in Tails /\ <<e, Interrupt>> \in Tails
    BY <1>2
  <1>7. QED
    BY <1>3, <1>5, <1>6

LEMMA InterruptEnds ==
  ASSUME NEW L \in Seq(Events)
  PROVE  ~ Proving(Append(L, Interrupt))
  <1> DEFINE M == Append(L, Interrupt)
             n == Len(L) + 1
  <1>1. Interrupt \in Events
    BY DEF Events
  <1>2. Len(L) \in Nat /\ Len(M) = n /\ M[n] = Interrupt
    BY <1>1, AppendProperties, LenProperties
  <1> HIDE DEF M
  <1>3. ASSUME NEW i \in 1..Len(M), M[i] = Begin, \A j \in (i + 1)..Len(M) : M[j] = Intake
        PROVE  FALSE
    <2>1. CASE i = n
      BY <1>2, <1>3, <2>1 DEF Begin, Interrupt
    <2>2. CASE i # n
      <3>1. n \in (i + 1)..Len(M)
        BY <1>2, <2>2
      <3>2. QED
        BY <1>2, <1>3, <3>1 DEF Intake, Interrupt
    <2>3. QED
      BY <2>1, <2>2
  <1>4. QED
    BY <1>3 DEF Proving, M

(* An interrupted start keeps the promise.                                 *)
LEMMA PromisedInterrupted ==
  ASSUME served \in Seq(Events), NEW L, Promised(L), Proving(L)
  PROVE  Promised(Append(L, Interrupt))
  <1>1. Interrupt \in Events
    BY DEF Events
  <1>2. PICK tail \in Tails : L = served \o tail
    BY DEF Promised
  <1>3. CASE tail = <<>>
    <2>1. L = served
      BY <1>2, <1>3, ConcatEmptySeq
    <2>2. Append(L, Interrupt) = served \o <<Interrupt>>
      BY <1>1, <2>1, AppendIsConcat
    <2>3. QED
      BY <1>1, <2>2, TailsAre DEF Promised
  <1>4. ASSUME NEW e \in Events, tail = <<e>> PROVE Promised(Append(L, Interrupt))
    <2>1. Append(served \o <<e>>, Interrupt) = served \o <<e, Interrupt>>
      BY <1>1
    <2>2. QED
      BY <1>2, <1>4, <2>1, TailsAre DEF Promised
  <1>5. ASSUME NEW e \in Events, tail = <<e, Interrupt>> PROVE FALSE
    <2>1. served \o <<e, Interrupt>> = Append(Append(served, e), Interrupt)
      BY <1>1
    <2>2. Append(served, e) \in Seq(Events)
      BY AppendProperties
    <2>3. QED
      BY <1>2, <1>5, <2>1, <2>2, InterruptEnds
  <1>6. QED
    BY <1>2, <1>3, <1>4, <1>5, TailsAre

LEMMA PromisedType ==
  ASSUME served \in Seq(Events), NEW L, Promised(L)
  PROVE  L \in Seq(Events)
  BY TailsAre, ConcatProperties DEF Promised

-------------------------------------------------------------------------------
(* The inductive invariant                                                 *)

(* The file without its unended line, which the next append will garble,   *)
(* still gives what was promised.                                          *)
Cut ==
  \E front \in Seq(Lines), line \in Lines : file = Append(front, line) /\ Promised(ReplayOf(front))
NoGarbled == \A i \in 1..Len(file) : file[i].kind # "garbled"

JInv ==
  /\ TypeOK
  /\ Promised(Replay)
  /\ ~ended => Cut
  /\ phase = "running" => NoGarbled /\ ended /\ Replay = ledger /\ served = ledger
  /\ phase = "recovering" => ledger = Replay
  /\ phase = "compacting" => Promised(ledger)
  /\ writing # NoEvent =>
       phase = "running" \/ (phase = "recovering" /\ writing = Interrupt /\ Proving(ledger))

(* What every step does to the log: the file keeps the promise made so     *)
(* far, and a client is shown nothing that is not in it.                   *)
LogStep == Promised(Replay') /\ served' \in {served, Replay'}

(* A line that is written follows a file that kept the promise.            *)
LEMMA WrittenIs ==
  ASSUME JInv, NEW line \in Lines
  PROVE  /\ Written(line) \in Seq(Lines)
         /\ \E front \in Seq(Lines), last \in Lines :
              /\ Written(line) = Append(front, last)
              /\ Promised(ReplayOf(front))
              /\ ended => front = file /\ last = line
              /\ ~ended => last = Garbled
  <1>1. file \in Seq(Lines) /\ Promised(Replay)
    BY DEF JInv, TypeOK
  <1>2. Garbled \in Lines
    BY DEF Garbled, Lines
  <1>3. CASE ended
    BY <1>1, <1>3, AppendProperties DEF Written, Replay
  <1>4. CASE ~ended
    <2>1. PICK front \in Seq(Lines), last \in Lines :
            file = Append(front, last) /\ Promised(ReplayOf(front))
      BY <1>4 DEF JInv, Cut
    <2> DEFINE n == Len(front)
               f == Append(front, Garbled)
               w == [file EXCEPT ![Len(file)] = Garbled]
    <2>2. /\ n \in Nat /\ Len(file) = n + 1
          /\ \A i \in 1..n : file[i] = front[i]
      BY <2>1, AppendProperties, LenProperties
    <2>3. f \in Seq(Lines) /\ Len(f) = n + 1 /\ f[n + 1] = Garbled
          /\ \A i \in 1..n : f[i] = front[i]
      BY <1>2, AppendProperties
    <2>4. /\ w \in Seq(Lines) /\ Len(w) = n + 1
          /\ \A i \in 1..(n + 1) : w[i] = IF i = n + 1 THEN Garbled ELSE file[i]
      <3>1. Len(file) \in 1..Len(file)
        BY <2>2
      <3>2. /\ w \in Seq(Lines) /\ Len(w) = Len(file)
            /\ \A i \in 1..Len(file) : w[i] = IF i = Len(file) THEN Garbled ELSE file[i]
        BY <1>1, <1>2, <3>1, ExceptSeq
      <3> HIDE DEF w
      <3>3. QED
        BY <2>2, <3>2
    <2>5. Written(line) = w
      BY <1>4 DEF Written
    <2> HIDE DEF n, f, w
    <2>6. w = f
      <3>1. \A i \in 1..Len(w) : w[i] = f[i]
        BY <2>2, <2>3, <2>4
      <3>2. QED
        BY <2>3, <2>4, <3>1, SeqEqual
    <2>7. QED
      BY <1>2, <1>4, <2>1, <2>4, <2>5, <2>6 DEF f
  <1>5. QED
    BY <1>3, <1>4
(* What an append leaves in the file: an event after what was there, or,   *)
(* on top of an unended line, nothing more.                                *)
LEMMA WrittenEvent ==
  ASSUME JInv, NEW e \in Events, file' = Written(EventLine(e))
  PROVE  /\ file' \in Seq(Lines)
         /\ served' = served => Cut'
         /\ ended => Replay' = Append(Replay, e)
         /\ ~ended => Promised(Replay')
  <1>1. EventLine(e) \in Lines /\ Garbled \in Lines
    BY DEF EventLine, Garbled, Lines, Events
  <1>2. PICK front \in Seq(Lines), last \in Lines :
          /\ file' = Append(front, last)
          /\ Promised(ReplayOf(front))
          /\ ended => front = file /\ last = EventLine(e)
          /\ ~ended => last = Garbled
    BY <1>1, WrittenIs
  <1>3. file' \in Seq(Lines)
    BY <1>1, WrittenIs
  <1>4. Replay' = After(ReplayOf(front), last)
    BY <1>2, ReplayOfAppend DEF Replay
  <1>5. ended => Replay' = Append(Replay, e)
    BY <1>2, <1>4 DEF After, EventLine, Replay
  <1>6. ~ended => Promised(Replay')
    BY <1>2, <1>4 DEF After, Garbled
  <1>7. served' = served => Cut'
    BY <1>2 DEF Cut, Promised
  <1>8. QED
    BY <1>3, <1>5, <1>6, <1>7

LEMMA WrittenGarbled ==
  ASSUME JInv, file' = Written(Garbled), served' = served
  PROVE  file' \in Seq(Lines) /\ Cut' /\ Promised(Replay')
  <1>1. Garbled \in Lines
    BY DEF Garbled, Lines
  <1>2. PICK front \in Seq(Lines), last \in Lines :
          /\ file' = Append(front, last)
          /\ Promised(ReplayOf(front))
          /\ last = Garbled
    BY <1>1, WrittenIs
  <1>3. Replay' = After(ReplayOf(front), Garbled)
    BY <1>2, ReplayOfAppend DEF Replay
  <1>4. Promised(Replay')
    BY <1>2, <1>3 DEF After, Garbled
  <1>5. Cut'
    BY <1>2 DEF Cut, Promised
  <1>6. QED
    BY <1>1, <1>4, <1>5, WrittenIs

-------------------------------------------------------------------------------
(* The steps                                                               *)

(* What a client has just been shown is promised.                          *)
LEMMA ShownPromised ==
  ASSUME NEW L \in Seq(Events), served' = L
  PROVE  \A M : M = L => Promised(M)'
  <1>1. L = served' \o <<>>
    BY ConcatEmptySeq
  <1>2. QED
    BY <1>1, TailsAre DEF Promised

(* A step that leaves the file and what was shown alone.                   *)
LEMMA FileKept ==
  ASSUME JInv, UNCHANGED <<file, ended, served>>
  PROVE  /\ LogStep /\ Promised(Replay)' /\ (~ended' => Cut')
         /\ \A L : Promised(L) => Promised(L)'
         /\ Replay' = Replay /\ (NoGarbled => NoGarbled')
  BY DEF JInv, LogStep, Promised, Cut, Replay, NoGarbled

LEMMA CommitStep ==
  ASSUME JInv, NEW e \in Events, Commit(e)
  PROVE  JInv' /\ LogStep
  <1>1. /\ phase = "running" /\ writing' = e
        /\ UNCHANGED <<file, ended, ledger, phase, served, crashes>>
    BY DEF Commit
  <1>2. TypeOK'
    BY <1>1 DEF JInv, TypeOK
  <1>3. QED
    BY <1>1, <1>2, FileKept DEF JInv, Events

LEMMA AppliedStep ==
  ASSUME JInv, Applied
  PROVE  JInv' /\ LogStep
  <1>1. /\ writing # NoEvent /\ file' = Written(EventLine(writing)) /\ ended' = TRUE
        /\ ledger' = Append(ledger, writing) /\ writing' = NoEvent
        /\ served' = IF phase = "running" THEN ledger' ELSE served
        /\ phase' = IF phase = "recovering" THEN "compacting" ELSE phase
        /\ crashes' = crashes
    BY DEF Applied
  <1>2. /\ writing \in Events /\ ledger \in Seq(Events) /\ served \in Seq(Events)
        /\ file \in Seq(Lines) /\ crashes \in 0..MaxCrashes
    BY <1>1 DEF JInv, TypeOK
  <1>3. ledger' \in Seq(Events)
    BY <1>1, <1>2, AppendProperties
  <1>4. /\ file' \in Seq(Lines)
        /\ ended => Replay' = Append(Replay, writing)
        /\ ~ended => Promised(Replay')
    BY <1>1, <1>2, WrittenEvent
  <1>5. CASE phase = "running"
    <2>1. ended /\ Replay = ledger /\ served = ledger /\ NoGarbled
      BY <1>5 DEF JInv
    <2>2. Replay' = ledger' /\ served' = ledger' /\ phase' = "running"
      BY <1>1, <1>4, <1>5, <2>1
    <2>3. Promised(Replay')
      <3>1. Replay' = served \o <<writing>>
        BY <1>1, <1>2, <2>1, <2>2, AppendIsConcat
      <3>2. QED
        BY <1>2, <3>1, TailsAre DEF Promised
    <2>4. Promised(Replay)'
      BY <1>3, <2>2, ShownPromised
    <2>5. NoGarbled'
      <3>1. EventLine(writing) \in Lines /\ EventLine(writing).kind # "garbled"
        BY <1>2 DEF EventLine, Lines
      <3>2. file' = Append(file, EventLine(writing))
        BY <1>1, <2>1 DEF Written
      <3>3. /\ Len(file) \in Nat /\ Len(file') = Len(file) + 1
            /\ \A i \in 1..Len(file) : file'[i] = file[i]
            /\ file'[Len(file) + 1] = EventLine(writing)
        BY <1>2, <3>1, <3>2, AppendProperties, LenProperties
      <3>4. \A i \in 1..Len(file') : file'[i].kind # "garbled"
        BY <2>1, <3>1, <3>3 DEF NoGarbled
      <3>5. QED
        BY <3>4 DEF NoGarbled
    <2>6. TypeOK'
      BY <1>1, <1>2, <1>3, <1>4, <2>2 DEF TypeOK, Phases
    <2>7. QED
      BY <1>1, <2>2, <2>3, <2>4, <2>5, <2>6 DEF JInv, LogStep
  <1>6. CASE phase = "recovering"
    <2>1. writing = Interrupt /\ Proving(ledger) /\ ledger = Replay /\ Promised(Replay)
      BY <1>1, <1>6 DEF JInv
    <2>2. Promised(ledger')
      BY <1>1, <1>2, <2>1, PromisedInterrupted
    <2>3. Promised(Replay')
      BY <1>1, <1>4, <2>1, <2>2
    <2>4. served' = served /\ phase' = "compacting"
      BY <1>1, <1>6
    <2>5. \A L : Promised(L) => Promised(L)'
      BY <2>4 DEF Promised
    <2>6. Promised(Replay)' /\ Promised(ledger)'
      BY <2>2, <2>3, <2>4 DEF Promised
    <2>7. TypeOK'
      BY <1>1, <1>2, <1>3, <1>4, <2>4 DEF TypeOK, Phases
    <2>8. QED
      BY <1>1, <2>3, <2>4, <2>6, <2>7 DEF JInv, LogStep
  <1>7. QED
    BY <1>1, <1>5, <1>6 DEF JInv

LEMMA OpenStep ==
  ASSUME JInv, Open
  PROVE  JInv' /\ LogStep
  <1>1. /\ phase = "down" /\ UNCHANGED <<file, ended, writing, served, crashes>>
        /\ \/ phase' = "recovering" /\ ledger' = Replay
           \/ phase' = "refused" /\ ledger' = ledger
    BY DEF Open
  <1>2. writing = NoEvent /\ served \in Seq(Events) /\ Promised(Replay) /\ TypeOK
    BY <1>1 DEF JInv, TypeOK
  <1>3. Replay \in Seq(Events)
    BY <1>2, PromisedType
  <1>4. TypeOK'
    BY <1>1, <1>2, <1>3 DEF TypeOK, Phases
  <1>5. QED
    BY <1>1, <1>2, <1>4, FileKept DEF JInv

LEMMA RecoverStep ==
  ASSUME JInv, Recover
  PROVE  JInv' /\ LogStep
  <1>1. /\ phase = "recovering" /\ writing = NoEvent
        /\ UNCHANGED <<file, ended, ledger, served, crashes>>
        /\ \/ Proving(ledger) /\ writing' = Interrupt /\ phase' = phase
           \/ phase' = "compacting" /\ writing' = writing
    BY DEF Recover, CutOff
  <1>2. ledger = Replay /\ TypeOK
    BY <1>1 DEF JInv
  <1>3. TypeOK'
    BY <1>1, <1>2 DEF TypeOK, Phases, Events
  <1>4. Proving(ledger) => Proving(ledger)'
    BY <1>1 DEF Proving
  <1>5. Promised(ledger)'
    BY <1>1, <1>2, FileKept DEF Promised
  <1>6. QED
    BY <1>1, <1>2, <1>3, <1>4, <1>5, FileKept DEF JInv

LEMMA CompactStep ==
  ASSUME JInv, Compact
  PROVE  JInv' /\ LogStep
  <1>1. /\ phase = "compacting" /\ file' = <<SnapshotLine(ledger)>> /\ ended' = TRUE
        /\ phase' = "running" /\ served' = ledger
        /\ UNCHANGED <<ledger, writing, crashes>>
    BY DEF Compact, Compacted
  <1>2. Promised(ledger) /\ TypeOK /\ writing = NoEvent
    BY <1>1 DEF JInv
  <1>3. SnapshotLine(ledger) \in Lines /\ SnapshotLine(ledger).kind = "snapshot"
        /\ SnapshotLine(ledger).snapshot = ledger
    BY <1>2 DEF TypeOK, SnapshotLine, Lines
  <1>4. <<>> \in Seq(Lines) /\ file' = Append(<<>>, SnapshotLine(ledger))
    BY <1>1
  <1>5. Replay' = ledger
    <2>1. ReplayOf(file') = After(ReplayOf(<<>>), SnapshotLine(ledger))
      BY <1>3, <1>4, ReplayOfAppend
    <2>2. QED
      BY <1>3, <2>1 DEF After, Replay
  <1>6. TypeOK'
    <2>1. file' \in Seq(Lines)
      BY <1>3, <1>4, AppendProperties
    <2>2. QED
      BY <1>1, <1>2, <2>1 DEF TypeOK, Phases
  <1>7. Promised(Replay)'
    BY <1>1, <1>2, <1>5, ShownPromised DEF TypeOK
  <1>8. NoGarbled'
    <2>1. Len(file') = 1 /\ file'[1] = SnapshotLine(ledger)
      BY <1>1
    <2>2. QED
      BY <1>3, <2>1 DEF NoGarbled
  <1>9. QED
    BY <1>1, <1>2, <1>5, <1>6, <1>7, <1>8 DEF JInv, LogStep

(* A crash in the middle of an append loses nothing that was shown, and    *)
(* adds at most the event under way.                                       *)
LEMMA CrashStep ==
  ASSUME JInv, Crash
  PROVE  JInv' /\ LogStep
  <1>1. /\ crashes < MaxCrashes /\ crashes' = crashes + 1
        /\ phase' = "down" /\ writing' = NoEvent /\ ledger' = <<>> /\ served' = served
        /\ IF writing = NoEvent THEN UNCHANGED <<file, ended>> ELSE Leaves(writing)
    BY DEF Crash
  <1>2. TypeOK /\ crashes' \in 0..MaxCrashes /\ served \in Seq(Events)
    BY <1>1, JournalAssumption DEF JInv, TypeOK
  <1>3. ASSUME file' \in Seq(Lines), ended' \in BOOLEAN, Promised(Replay'), ~ended' => Cut'
        PROVE  JInv' /\ LogStep
    <2>1. TypeOK'
      BY <1>1, <1>2, <1>3 DEF TypeOK, Phases
    <2>2. Promised(Replay)'
      BY <1>1, <1>3 DEF Promised
    <2>3. QED
      BY <1>1, <1>3, <2>1, <2>2 DEF JInv, LogStep
  <1>4. CASE UNCHANGED <<file, ended>>
    <2>1. LogStep /\ (~ended' => Cut')
      BY <1>1, <1>4, FileKept
    <2>2. file' \in Seq(Lines) /\ ended' \in BOOLEAN /\ Promised(Replay')
      BY <1>2, <1>4, <2>1 DEF TypeOK, LogStep
    <2>3. QED
      BY <1>3, <2>1, <2>2
  <1>5. CASE file' = Written(Garbled) /\ ended' = FALSE
    BY <1>1, <1>3, <1>5, WrittenGarbled
  <1>6. CASE writing # NoEvent /\ file' = Written(EventLine(writing)) /\ ended' \in BOOLEAN
    <2>1. writing \in Events
      BY <1>2, <1>6 DEF TypeOK
    <2>2. /\ file' \in Seq(Lines) /\ Cut'
          /\ ended => Replay' = Append(Replay, writing)
          /\ ~ended => Promised(Replay')
      BY <1>1, <1>6, <2>1, WrittenEvent
    <2>3. Promised(Append(Replay, writing))
      <3>1. CASE phase = "running"
        <4>1. Append(Replay, writing) = served \o <<writing>>
          BY <1>2, <2>1, <3>1, AppendIsConcat DEF JInv
        <4>2. QED
          BY <2>1, <4>1, TailsAre DEF Promised
      <3>2. CASE phase # "running"
        <4>1. writing = Interrupt /\ Proving(Replay) /\ Promised(Replay)
          BY <1>6, <3>2 DEF JInv
        <4>2. QED
          BY <1>2, <4>1, PromisedInterrupted
      <3>3. QED
        BY <3>1, <3>2
    <2>4. Promised(Replay')
      BY <2>2, <2>3
    <2>5. QED
      BY <1>3, <1>6, <2>2, <2>4
  <1>7. QED
    BY <1>1, <1>4, <1>5, <1>6 DEF Leaves

-------------------------------------------------------------------------------
(* Theorems                                                                *)

LEMMA InitJInv == Init => JInv /\ Log!Init
  <1> SUFFICES ASSUME Init PROVE JInv /\ Log!Init
    OBVIOUS
  <1>1. <<>> \in Seq(Lines) /\ <<>> \in Seq(Events)
    OBVIOUS
  <1>2. Replay = <<>> /\ served = <<>>
    BY ReplayOfEmpty DEF Init, Replay
  <1>3. Promised(Replay)
    <2>1. <<>> = <<>> \o <<>>
      BY <1>1, ConcatEmptySeq
    <2>2. QED
      BY <1>2, <2>1, TailsAre DEF Promised
  <1>4. TypeOK
    BY <1>1, JournalAssumption DEF Init, TypeOK, Phases
  <1>5. QED
    BY <1>2, <1>3, <1>4 DEF Init, JInv, Log!Init

LEMMA NextJInv ==
  ASSUME JInv, [Next]_vars
  PROVE  JInv' /\ LogStep
  <1>1. ASSUME NEW e \in Events, Commit(e) PROVE JInv' /\ LogStep
    BY <1>1, CommitStep
  <1>2. CASE Applied
    BY <1>2, AppliedStep
  <1>3. CASE Open
    BY <1>3, OpenStep
  <1>4. CASE Recover
    BY <1>4, RecoverStep
  <1>5. CASE Compact
    BY <1>5, CompactStep
  <1>6. CASE Crash
    BY <1>6, CrashStep
  <1>7. CASE UNCHANGED vars
    <2>1. UNCHANGED <<file, ended, ledger, writing, phase, served, crashes>>
      BY <1>7 DEF vars
    <2>2. Promised(ledger) => Promised(ledger)'
      BY <2>1 DEF Promised
    <2>3. TypeOK' /\ (Proving(ledger) => Proving(ledger)')
      BY <2>1 DEF JInv, TypeOK, Proving
    <2>4. QED
      BY <2>1, <2>2, <2>3, FileKept DEF JInv
  <1>8. QED
    BY <1>1, <1>2, <1>3, <1>4, <1>5, <1>6, <1>7 DEF Next

LEMMA JInvHolds == Spec => []JInv
  BY InitJInv, NextJInv, PTL DEF Spec

(* The journal's lines, the ledger and what a client was shown keep their  *)
(* types: a start never reads a garbled line as an event.                  *)
THEOREM TypeCorrect == Spec => []TypeOK
  <1>1. JInv => TypeOK
    BY DEF JInv
  <1>2. QED
    BY <1>1, JInvHolds, PTL

(* While the service runs, a replay of the file alone gives the ledger it  *)
(* serves, after any number of crashes and commits.                        *)
THEOREM FileIsLedgerHolds == Spec => []FileIsLedger
  <1>1. ASSUME JInv PROVE FileIsLedger
    <2>1. file \in Seq(Lines)
      BY <1>1 DEF JInv, TypeOK
    <2>2. Len(file) \in Nat
      BY <2>1, LenProperties
    <2>3. QED
      BY <1>1, <2>2 DEF JInv, NoGarbled, Readable, FileIsLedger
  <1>2. QED
    BY <1>1, JInvHolds, PTL

(* Every step of the journal is a step of the durable log, or none: what   *)
(* a client was shown survives in order, and beyond it a start finds at    *)
(* most the event under way and the interruption of a proof.               *)
THEOREM DurableLogImplemented == Spec => ImplementsDurableLog
  <1>1. Init => Log!Init
    BY InitJInv
  <1>2. JInv /\ [Next]_vars => [Log!Next]_(Log!vars)
    <2> SUFFICES ASSUME JInv, [Next]_vars PROVE [Log!Next]_(Log!vars)
      OBVIOUS
    <2>1. LogStep
      BY NextJInv
    <2>2. PICK tail \in Tails : Replay' = served \o tail
      BY <2>1 DEF LogStep, Promised
    <2>3. QED
      BY <2>1, <2>2 DEF LogStep, Tails, Log!Next, Log!Write, Log!Show
  <1>3. QED
    BY <1>1, <1>2, JInvHolds, PTL DEF Spec, Log!Spec, ImplementsDurableLog
===============================================================================
