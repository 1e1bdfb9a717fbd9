---------------------------- MODULE RandomString ----------------------------
(***************************************************************************)
(* randomString(n) (command/login.go): the OAuth state token.  Each        *)
(* src.Int63() value is cut into 6-bit groups, low groups first; a group   *)
(* below len(letterBytes) picks a letter, written from the end of b        *)
(* backwards, a larger group is skipped, and after letterIdxMax groups a   *)
(* new value is drawn.                                                     *)
(*                                                                         *)
(* TLC integers have 32 bits, so a 63-bit value is kept as the sequence of *)
(* its groups: ten 6-bit groups and the top 3 bits.  cache & mask is the   *)
(* first group and cache >>= 6 drops it and shifts in a zero group.  A     *)
(* byte of b is the index of its letter in letterBytes, or NUL.            *)
(***************************************************************************)
EXTENDS Integers, Sequences, SequencesExt

CONSTANTS
  N,          \* n, the length asked for
  GroupVals,  \* values the low FreeGroups 6-bit groups of a drawn value may have
  FreeGroups, \* how many of the low groups range over GroupVals
  PadVal,     \* the value of each of the other groups
  TopVals,    \* values the top 3 bits of a drawn value may have
  MaxDraws    \* src.Int63() calls explored per call of randomString

LetterCount == 62                       \* len(letterBytes)
letterIdxBits == 6
letterIdxMask == 2^letterIdxBits - 1
letterIdxMax == 63 \div letterIdxBits   \* groups used per drawn value

ASSUME /\ N \in Nat \ {0}
       /\ GroupVals \subseteq 0 .. letterIdxMask
       /\ FreeGroups \in 1 .. letterIdxMax
       /\ PadVal \in 0 .. letterIdxMask
       /\ TopVals \subseteq 0 .. 7
       /\ MaxDraws \in Nat \ {0}

NUL == -1   \* a byte of make([]byte, n) not yet written

(* The values src.Int63() can return, as group sequences: the low groups *)
(* range over GroupVals, the higher ones are PadVal (FreeGroups =         *)
(* letterIdxMax lets every group vary).                                   *)
Int63s ==
  { g \o [k \in 1 .. letterIdxMax - FreeGroups |-> PadVal] \o <<t>> :
      g \in [1 .. FreeGroups -> GroupVals], t \in TopVals }

Mask(c) == c[1]                 \* int(cache & letterIdxMask)
Shift(c) == Tail(c) \o <<0>>    \* cache >>= letterIdxBits

(* The groups of a value that the loop turns into letters, in order. *)
AcceptedOf(v) == SelectSeq(SubSeq(v, 1, letterIdxMax),
                           LAMBDA g : g < LetterCount)

(* A draw of src.Int63().  The last draw the model explores is one that   *)
(* still has `need` letters in it, so every explored call returns.        *)
Draw(drawsSoFar, need) ==
  IF drawsSoFar + 1 < MaxDraws THEN Int63s
  ELSE {v \in Int63s : Len(AcceptedOf(v)) >= need}

VARIABLES i, cache, remain, b, drawn, pc

vars == <<i, cache, remain, b, drawn, pc>>

Init ==
  /\ i = N - 1 /\ remain = letterIdxMax
  /\ b = [k \in 0 .. N - 1 |-> NUL]
  /\ \E v \in Draw(0, N) : cache = v /\ drawn = <<v>>
  /\ pc = "loop"

(* Bug variant of Body: idx <= len(letterBytes) lets group 62 through. *)
BodyOffByOne(c, r) ==
  /\ \/ Mask(c) <= LetterCount /\ b' = [b EXCEPT ![i] = Mask(c)] /\ i' = i - 1
     \/ Mask(c) > LetterCount /\ UNCHANGED <<b, i>>
  /\ cache' = Shift(c)
  /\ remain' = r - 1

(* The rest of one iteration once cache and remain are current. *)
Body(c, r) ==
  /\ \/ Mask(c) < LetterCount /\ b' = [b EXCEPT ![i] = Mask(c)] /\ i' = i - 1
     \/ Mask(c) >= LetterCount /\ UNCHANGED <<b, i>>
  /\ cache' = Shift(c)
  /\ remain' = r - 1

(* Bug variant of Refill: cache is redrawn but remain is not reset. *)
RefillNoReset ==
  /\ pc = "loop" /\ i >= 0 /\ remain = 0
  /\ \E v \in Draw(Len(drawn), i + 1) :
       /\ drawn' = Append(drawn, v)
       /\ Body(v, remain)
  /\ UNCHANGED pc

(* An iteration that starts with remain == 0 draws a new value first. *)
Refill ==
  /\ pc = "loop" /\ i >= 0 /\ remain = 0
  /\ \E v \in Draw(Len(drawn), i + 1) :
       /\ drawn' = Append(drawn, v)
       /\ Body(v, letterIdxMax)
  /\ UNCHANGED pc

Step ==
  /\ pc = "loop" /\ i >= 0 /\ remain # 0
  /\ Body(cache, remain)
  /\ UNCHANGED <<drawn, pc>>

Return ==
  /\ pc = "loop" /\ i < 0
  /\ pc' = "returned"
  /\ UNCHANGED <<i, cache, remain, b, drawn>>

Returned == pc = "returned" /\ UNCHANGED vars

Next == Refill \/ Step \/ Return \/ Returned

Spec == Init /\ [][Next]_vars /\ WF_vars(Refill \/ Step \/ Return)

-----------------------------------------------------------------------------
(* The letters the accepted groups of the draws ds pick, in draw order. *)
Letters(ds) == FlattenSeq([k \in DOMAIN ds |-> AcceptedOf(ds[k])])

(* What randomString promises: reading b from its end, the first n of     *)
(* those letters.                                                         *)
Reference(n, ds) == [k \in 0 .. n - 1 |-> Letters(ds)[n - k]]

\* every byte of b is a letter index or still the zero byte, and the loop
\* counters stay in range
TypeOK ==
  /\ b \in [0 .. N - 1 -> (0 .. LetterCount - 1) \cup {NUL}]
  /\ i \in -1 .. N - 1
  /\ remain \in 0 .. letterIdxMax
  /\ pc \in {"loop", "returned"}

\* randomString returns the letters of the accepted 6-bit groups in draw
\* order, written from the end (no byte left zero, no rejected group used),
\* and it calls src.Int63() only when the letters drawn so far are too few
RandomStringCorrect ==
  pc = "returned" =>
    /\ Len(Letters(drawn)) >= N
    /\ b = Reference(N, drawn)
    /\ Len(Letters(Front(drawn))) < N
=============================================================================
