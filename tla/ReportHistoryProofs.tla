------------------------ MODULE ReportHistoryProofs ------------------------
(***************************************************************************)
(* The report's history is served (host/store.rs, host/commands/daemon.rs):*)
(* a reader at its end has the samples in order and the newest that was on  *)
(* a line of its own when it opened the file, and a file whose append       *)
(* reported success is within the limit, for any sizes and any readers.     *)
(*                                                                         *)
(* The argument follows the bytes.  Those of a file are in the order of the *)
(* samples, none twice, so what a reader answers is in order.  The newest   *)
(* whole line is followed by no more than what the troubles left, which is  *)
(* less than a reader looks back, so that it begins before that line; and   *)
(* it stays in the file the reader has open, which a trim replaces but      *)
(* never rewrites.                                                          *)
(***************************************************************************)
EXTENDS ReportHistory, WellFoundedInduction, FiniteSetTheorems, SequenceTheorems, TLAPS

(* A set of numbers has a least one: Min, which LineEnd and a trim choose  *)
(* by, is defined.                                                         *)
LEMMA LeastNumber ==
  ASSUME NEW S \in SUBSET Nat, S # {}
  PROVE  Min(S) \in S /\ \A y \in S : Min(S) <= y
<1> DEFINE Less == {p \in Nat \X Nat : p[1] < p[2]}
<1>1. IsWellFoundedOn(Less, Nat)
  <2>1. Less = OpToRel(<, Nat)
    BY DEF OpToRel
  <2> QED BY <2>1, NatLessThanWellFounded
<1>2. PICK x \in S : \A y \in S : <<y, x>> \notin Less
  BY <1>1, WFMin
<1>3. \A y \in S : x <= y
  <2> TAKE y \in S
  <2>1. <<y, x>> \notin Less
    BY <1>2
  <2>2. <<y, x>> \in Nat \X Nat /\ <<y, x>>[1] = y /\ <<y, x>>[2] = x
    OBVIOUS
  <2>3. ~(y < x)
    BY <2>1, <2>2
  <2> QED BY <2>3
<1> QED BY <1>3 DEF Min

(* The greater of two numbers, as the window of a trim is.                  *)
LEMMA MaxOfTwo ==
  ASSUME NEW a \in Nat, NEW b \in Nat
  PROVE  Max({a, b}) = IF a >= b THEN a ELSE b
<1>1. PICK x \in {a, b} : \A y \in {a, b} : x >= y
  OBVIOUS
<1> QED BY <1>1 DEF Max
-----------------------------------------------------------------------------
Byte == Nat \X Nat
Size == SampleBytes + 1

Precedes(a, b) == a[1] < b[1] \/ (a[1] = b[1] /\ a[2] < b[2])

(* The bytes of a file are of samples up to n, in the order of the samples  *)
(* and of the bytes of each, none twice.                                   *)
FileOf(f, n) ==
  /\ f \in Seq(Byte)
  /\ \A i \in 1..Len(f) : f[i] = NewLine \/ f[i] \in (1..n) \X (1..SampleBytes)
  /\ \A i, j \in 1..Len(f) :
       i < j /\ f[i] # NewLine /\ f[j] # NewLine => Precedes(f[i], f[j])

(* A line of its own at s: sample n and no more.                           *)
LineAt(f, s, n) ==
  /\ s \in LineStarts(f) /\ s + SampleBytes <= Len(f)
  /\ \A k \in 1..SampleBytes : f[s + k - 1] = <<n, k>>
  /\ f[s + SampleBytes] = NewLine

(* A reader r of file f: what it answers so far is in order and from what   *)
(* it has read, and what is due is in the answer or still before it.        *)
Reads(f, r) ==
  /\ r.next \in 1..Len(f) + 1
  /\ \A i \in 1..Len(r.answer) :
       \E q \in 1..Len(f) : q < r.next /\ f[q] = <<r.answer[i], SampleBytes>>
  /\ \A i, j \in 1..Len(r.answer) : i < j => r.answer[i] < r.answer[j]
  /\ r.due # 0 =>
       \/ \E i \in 1..Len(r.answer) : r.answer[i] = r.due
       \/ \E s \in r.next..Len(f) : LineAt(f, s, r.due)

(* The length of the history without the line that is being appended.      *)
Before == Len(history) - (IF tick.at \in {"append", "trim"} THEN tick.written ELSE 0)

Glued == Before > 0 /\ history[Before] # NewLine

(* What so many troubles leave in the file at most. *)
Litter(t) == 2 * Size * t

Reader == [at: {"idle", "reading"}, own: Seq(Byte), replaced: BOOLEAN, next: Nat,
           answer: Seq(Nat), due: Nat]

HistoryTypes ==
  /\ published \in [{"report", "metrics"} -> 0..sampled]
  /\ tick \in [at: {"idle", "report", "append", "trim", "metrics"},
               written: 0..Size, appended: BOOLEAN]
  /\ sampled \in 0..MaxSamples /\ whole \in 0..sampled
  /\ historyTroubles \in 0..MaxHistoryTroubles
  /\ monitors \in [Monitors -> Reader]

InTick ==
  /\ tick.at # "idle" => sampled > 0
  /\ tick.at \in {"report", "append", "trim"} => ~tick.appended
  /\ tick.at = "report" => tick.written = 0
  /\ tick.at = "trim" => tick.written = Size

(* What is in the file precedes what is still to be appended. *)
NewestLast ==
  tick.at \in {"report", "append"} =>
    \A i \in 1..Len(history) :
      history[i] # NewLine => Precedes(history[i], <<sampled, tick.written + 1>>)

LineInProgress ==
  tick.at \in {"append", "trim"} =>
    /\ tick.written <= Len(history)
    /\ \A k \in 1..tick.written : history[Before + k] = LineOf(sampled)[k]

WholeIsThere ==
  whole # 0 =>
    \E s \in 1..Len(history) :
      /\ LineAt(history, s, whole) /\ s + SampleBytes <= Before
      /\ Before - (s + SampleBytes) + (IF Glued THEN Size ELSE 0) <= Litter(historyTroubles)

Readable ==
  \A m \in Monitors : monitors[m].at = "reading" =>
    FileOf(Opened(m), sampled) /\ Reads(Opened(m), monitors[m])

HistoryInv ==
  /\ HistoryTypes /\ InTick /\ FileOf(history, sampled) /\ NewestLast /\ LineInProgress
  /\ WholeIsThere /\ WithinLimit /\ Readable
-----------------------------------------------------------------------------
(* What is assumed of the sizes.                                            *)
LEMMA Sizes ==
  /\ SampleBytes \in Nat \ {0} /\ Size \in Nat /\ Size = SampleBytes + 1 /\ Size > 1
  /\ HistoryMax \in Nat /\ HistoryMax >= Size /\ HistoryTail \in Nat
BY HistoryAssumption DEF HistoryAssumption, Size

(* A trouble leaves two lines at most, and all of them fit what a reader    *)
(* looks back over.                                                         *)
LEMMA Litters ==
  \A t \in 0..MaxHistoryTroubles :
       /\ Litter(t) \in Nat /\ Litter(t + 1) = Litter(t) + 2 * Size
       /\ Litter(t) + 2 * Size < HistoryTail
<1>1. ASSUME NEW t \in 0..MaxHistoryTroubles
      PROVE  /\ Litter(t) \in Nat /\ Litter(t + 1) = Litter(t) + 2 * Size
             /\ Litter(t) + 2 * Size < HistoryTail
  <2> DEFINE T == MaxHistoryTroubles
  <2>1. t \in Nat /\ T \in Nat /\ t <= T /\ 2 * Size \in Nat
    BY Sizes, HistoryAssumption DEF HistoryAssumption
  <2>2. ASSUME NEW k \in Nat, NEW a \in Nat, NEW b \in Nat, a <= b
        PROVE  /\ k * a \in Nat /\ k * (a + 1) = k * a + k /\ k * a <= k * b
    BY <2>2
  <2>3. /\ 2 * Size * t \in Nat /\ 2 * Size * (t + 1) = 2 * Size * t + 2 * Size
        /\ 2 * Size * t <= 2 * Size * T
    BY <2>1, <2>2
  <2>4. 2 * Size * T + 2 * Size < HistoryTail
    <3>1. HistoryTail > 2 * (T + 1) * Size
      BY HistoryAssumption DEF HistoryAssumption, Size
    <3>2. 2 * (T + 1) * Size = 2 * Size * T + 2 * Size
      BY <2>1, Sizes
    <3> QED BY <3>1, <3>2
  <2> QED BY <2>1, <2>3, <2>4, Sizes DEF Litter
<1> QED BY <1>1

(* The line that append_sample writes: the bytes of its sample and no new   *)
(* line before the last byte.                                               *)
LEMMA LineOfIs ==
  ASSUME NEW n \in Nat
  PROVE  /\ LineOf(n) \in Seq(Byte) /\ Len(LineOf(n)) = Size
         /\ \A k \in 1..SampleBytes : LineOf(n)[k] = <<n, k>> /\ <<n, k>> # NewLine
         /\ LineOf(n)[Size] = NewLine
<1>1. [k \in 1..SampleBytes |-> <<n, k>>] \in Seq(Byte) /\ NewLine \in Byte
      /\ Len([k \in 1..SampleBytes |-> <<n, k>>]) = SampleBytes
  BY Sizes DEF Byte, NewLine
<1>2. \A k \in 1..SampleBytes : <<n, k>> # NewLine
  BY DEF NewLine
<1> QED BY <1>1, <1>2, Sizes, AppendProperties DEF LineOf

(* A line ends at its first new line, or with the file.                    *)
LEMMA LineEndIs ==
  ASSUME NEW f \in Seq(Byte), NEW at \in 1..Len(f)
  PROVE  /\ LineEnd(f, at) \in at..Len(f)
         /\ \A i \in at..Len(f) : f[i] = NewLine => LineEnd(f, at) <= i
         /\ LineEnd(f, at) = Len(f) \/ f[LineEnd(f, at)] = NewLine
<1> DEFINE ends == {i \in at..Len(f) : f[i] = NewLine} \cup {Len(f)}
<1>1. Min(ends) \in ends /\ \A y \in ends : Min(ends) <= y
  <2>1. ends \in SUBSET Nat /\ ends # {}
    OBVIOUS
  <2> QED BY <2>1, LeastNumber
<1>2. LineEnd(f, at) = Min(ends)
  BY DEF LineEnd
<1> QED BY <1>1, <1>2

(* Appending a byte that is next leaves a file of samples.                 *)
LEMMA FileGrows ==
  ASSUME NEW n \in Nat, NEW f, FileOf(f, n), NEW b \in Byte,
         b = NewLine \/ b \in (1..n) \X (1..SampleBytes),
         b # NewLine => \A i \in 1..Len(f) : f[i] # NewLine => Precedes(f[i], b)
  PROVE  FileOf(Append(f, b), n)
<1>1. /\ Append(f, b) \in Seq(Byte) /\ Len(Append(f, b)) = Len(f) + 1
      /\ \A i \in 1..Len(f) : Append(f, b)[i] = f[i]
      /\ Append(f, b)[Len(f) + 1] = b
  BY AppendProperties DEF FileOf
<1>2. \A i \in 1..Len(f) + 1 : i \in 1..Len(f) \/ i = Len(f) + 1
  BY <1>1 DEF FileOf
<1>3. \A i \in 1..Len(f) + 1 :
        Append(f, b)[i] = NewLine \/ Append(f, b)[i] \in (1..n) \X (1..SampleBytes)
  BY <1>1, <1>2 DEF FileOf
<1>4. \A i, j \in 1..Len(f) + 1 :
        i < j /\ Append(f, b)[i] # NewLine /\ Append(f, b)[j] # NewLine
          => Precedes(Append(f, b)[i], Append(f, b)[j])
  <2> TAKE i, j \in 1..Len(f) + 1
  <2> HAVE i < j /\ Append(f, b)[i] # NewLine /\ Append(f, b)[j] # NewLine
  <2>1. i \in 1..Len(f)
    BY DEF FileOf
  <2>2. CASE j \in 1..Len(f)
    BY <1>1, <2>1, <2>2 DEF FileOf
  <2>3. CASE j = Len(f) + 1
    BY <1>1, <2>1, <2>3
  <2> QED BY <1>2, <2>2, <2>3
<1> QED BY <1>1, <1>3, <1>4 DEF FileOf

(* A file stays one of samples when there are more of them.                 *)
LEMMA FileStays ==
  ASSUME NEW n \in Nat, NEW k \in Nat, n <= k, NEW f, FileOf(f, n)
  PROVE  FileOf(f, k)
BY DEF FileOf

(* A line stays where it is when the file grows.                            *)
LEMMA LineStays ==
  ASSUME NEW f \in Seq(Byte), NEW b \in Byte, NEW s, NEW n, LineAt(f, s, n)
  PROVE  LineAt(Append(f, b), s, n)
<1>1. /\ Len(Append(f, b)) = Len(f) + 1
      /\ \A i \in 1..Len(f) : Append(f, b)[i] = f[i]
  BY AppendProperties
<1>2. s \in 1..Len(f) /\ s + SampleBytes <= Len(f) /\ (s = 1 \/ f[s - 1] = NewLine)
  BY DEF LineAt, LineStarts
<1>3. s \in LineStarts(Append(f, b))
  BY <1>1, <1>2 DEF LineStarts
<1>4. \A k \in 1..SampleBytes : Append(f, b)[s + k - 1] = <<n, k>>
  <2> TAKE k \in 1..SampleBytes
  <2>1. s + k - 1 \in 1..Len(f)
    BY <1>2, Sizes
  <2>2. f[s + k - 1] = <<n, k>>
    BY DEF LineAt
  <2> QED BY <1>1, <2>1, <2>2
<1>5. Append(f, b)[s + SampleBytes] = NewLine
  BY <1>1, <1>2, Sizes DEF LineAt
<1>6. s + SampleBytes <= Len(Append(f, b))
  BY <1>1, <1>2, Sizes
<1> QED BY <1>3, <1>4, <1>5, <1>6 DEF LineAt

(* A reader that has the file open goes on in it.                           *)
LEMMA ReadsOn ==
  ASSUME NEW f \in Seq(Byte), NEW b \in Byte, NEW r \in Reader, Reads(f, r)
  PROVE  Reads(Append(f, b), r)
<1>1. /\ Len(Append(f, b)) = Len(f) + 1 /\ Len(f) \in Nat
      /\ \A i \in 1..Len(f) : Append(f, b)[i] = f[i]
  BY AppendProperties
<1>2. r.next \in 1..Len(f) + 2
  BY <1>1 DEF Reads
<1>3. \A i \in 1..Len(r.answer) :
        \E q \in 1..Len(f) + 1 : q < r.next /\ Append(f, b)[q] = <<r.answer[i], SampleBytes>>
  <2> TAKE i \in 1..Len(r.answer)
  <2>1. PICK q \in 1..Len(f) : q < r.next /\ f[q] = <<r.answer[i], SampleBytes>>
    BY DEF Reads
  <2> QED BY <1>1, <2>1
<1>4. ASSUME NEW s \in r.next..Len(f), LineAt(f, s, r.due)
      PROVE  s \in r.next..Len(f) + 1 /\ LineAt(Append(f, b), s, r.due)
  BY <1>1, <1>4, LineStays
<1>5. r.due # 0 =>
        \/ \E i \in 1..Len(r.answer) : r.answer[i] = r.due
        \/ \E s \in r.next..Len(Append(f, b)) : LineAt(Append(f, b), s, r.due)
  BY <1>1, <1>4 DEF Reads
<1>6. \A i, j \in 1..Len(r.answer) : i < j => r.answer[i] < r.answer[j]
  BY DEF Reads
<1>7. r.next \in 1..Len(Append(f, b)) + 1
  BY <1>1, <1>2
<1>8. \A i \in 1..Len(r.answer) : \E q \in 1..Len(Append(f, b)) :
        q < r.next /\ Append(f, b)[q] = <<r.answer[i], SampleBytes>>
  BY <1>1, <1>3
<1> QED BY <1>5, <1>6, <1>7, <1>8 DEF Reads

(* The sample that the lines of a file at p parse as, and its last byte.    *)
LEMMA SampleIs ==
  ASSUME NEW f \in Seq(Byte), NEW p \in 1..Len(f), sampled \in Nat,
         NEW n \in Decoded(SubSeq(f, p, LineEnd(f, p)))
  PROVE  /\ n \in 1..sampled /\ f[p] = <<n, 1>>
         /\ \E q \in p..LineEnd(f, p) : f[q] = <<n, SampleBytes>>
<1> DEFINE end == LineEnd(f, p)
           line == SubSeq(f, p, end)
<1>1. end \in p..Len(f)
  BY LineEndIs
<1>2. /\ line \in Seq(Byte) /\ Len(line) = end - p + 1
      /\ \A i \in 1..(end - p + 1) : line[i] = f[p + i - 1]
  <2>1. \A i \in p..end : f[i] \in Byte
    BY <1>1
  <2> QED BY <1>1, <2>1, SubSeqProperties
<1> HIDE DEF line
<1>3. n \in 1..sampled /\ (line = LineOf(n) \/ line = SubSeq(LineOf(n), 1, SampleBytes))
  BY DEF Decoded, line
<1>4. /\ Len(LineOf(n)) = Size /\ LineOf(n) \in Seq(Byte)
      /\ \A k \in 1..SampleBytes : LineOf(n)[k] = <<n, k>>
  BY <1>3, LineOfIs
<1>5. /\ Len(SubSeq(LineOf(n), 1, SampleBytes)) = SampleBytes
      /\ \A k \in 1..SampleBytes : SubSeq(LineOf(n), 1, SampleBytes)[k] = <<n, k>>
  <2>1. 1 \in 1..Len(LineOf(n)) /\ SampleBytes \in 1..Len(LineOf(n)) /\ SampleBytes - 1 + 1 = SampleBytes
    BY <1>4, Sizes
  <2>2. /\ Len(SubSeq(LineOf(n), 1, SampleBytes)) = SampleBytes
        /\ \A k \in 1..SampleBytes : SubSeq(LineOf(n), 1, SampleBytes)[k] = LineOf(n)[1 + k - 1]
    BY <1>4, <2>1, Sizes, SubSeqProperties
  <2> QED BY <2>2, <1>4, Sizes
<1>6. Len(line) >= SampleBytes /\ \A k \in 1..SampleBytes : line[k] = <<n, k>>
  <2>1. CASE line = LineOf(n)
    BY <2>1, <1>4, Sizes
  <2>2. CASE line = SubSeq(LineOf(n), 1, SampleBytes)
    BY <2>2, <1>5, Sizes
  <2> QED BY <1>3, <2>1, <2>2
<1>7. f[p] = <<n, 1>>
  <2>1. line[1] = <<n, 1>> /\ 1 \in 1..(end - p + 1)
    BY <1>6, <1>1, Sizes
  <2> QED BY <2>1, <1>2
<1>8. f[p + SampleBytes - 1] = <<n, SampleBytes>> /\ p + SampleBytes - 1 \in p..end
  <2>1. SampleBytes \in 1..(end - p + 1)
    BY <1>6, <1>1, <1>2, Sizes
  <2>2. line[SampleBytes] = <<n, SampleBytes>>
    <3>1. SampleBytes \in 1..SampleBytes
      BY Sizes
    <3> QED BY <3>1, <1>6
  <2> QED BY <2>1, <2>2, <1>2, <1>1, Sizes
<1> QED BY <1>3, <1>7, <1>8

(* A line of its own parses as its sample.                                 *)
LEMMA LineParses ==
  ASSUME NEW f \in Seq(Byte), NEW s, NEW n \in 1..sampled, sampled \in Nat, LineAt(f, s, n)
  PROVE  /\ s \in 1..Len(f) /\ LineEnd(f, s) = s + SampleBytes
         /\ n \in Decoded(SubSeq(f, s, LineEnd(f, s)))
<1>1. /\ s \in 1..Len(f) /\ s + SampleBytes \in s..Len(f) /\ f[s + SampleBytes] = NewLine
  BY Sizes DEF LineAt, LineStarts
<1>2. \A i \in s..(s + SampleBytes - 1) : f[i] = <<n, i - s + 1>>
  <2> TAKE i \in s..(s + SampleBytes - 1)
  <2>1. i - s + 1 \in 1..SampleBytes /\ s + (i - s + 1) - 1 = i
    BY <1>1, Sizes
  <2> QED BY <2>1 DEF LineAt
<1>3. \A i \in s..(s + SampleBytes - 1) : f[i] # NewLine
  BY <1>1, <1>2, Sizes DEF NewLine
<1>4. LineEnd(f, s) = s + SampleBytes
  <2>1. /\ LineEnd(f, s) \in s..Len(f) /\ LineEnd(f, s) <= s + SampleBytes
        /\ LineEnd(f, s) = Len(f) \/ f[LineEnd(f, s)] = NewLine
    BY <1>1, LineEndIs
  <2>2. LineEnd(f, s) < s + SampleBytes => LineEnd(f, s) \in s..(s + SampleBytes - 1)
    BY <2>1, <1>1, Sizes
  <2>3. LineEnd(f, s) < s + SampleBytes => LineEnd(f, s) < Len(f)
    BY <2>1, <1>1, Sizes
  <2> QED BY <2>1, <2>2, <2>3, <1>1, <1>3, Sizes
<1> DEFINE line == SubSeq(f, s, s + SampleBytes)
<1>5. line \in Seq(Byte) /\ Len(line) = Size /\ \A i \in 1..Size : line[i] = f[s + i - 1]
  <2>1. s + SampleBytes - s + 1 = Size
    BY <1>1, Sizes
  <2>2. \A i \in s..(s + SampleBytes) : f[i] \in Byte
    BY <1>1
  <2>3. s \in Int /\ s + SampleBytes \in Int /\ s <= s + SampleBytes
    BY <1>1, Sizes
  <2>4. PICK e \in Int : e = s + SampleBytes
    BY <2>3
  <2>5. /\ SubSeq(f, s, e) \in Seq(Byte) /\ Len(SubSeq(f, s, e)) = e - s + 1
        /\ \A i \in 1..(e - s + 1) : SubSeq(f, s, e)[i] = f[s + i - 1]
    BY <2>2, <2>3, <2>4, SubSeqProperties
  <2>6. e - s + 1 = Size
    BY <2>3, <2>4, <1>1, Sizes
  <2> QED BY <2>4, <2>5, <2>6
<1> HIDE DEF line
<1>6. \A i \in 1..Size : line[i] = LineOf(n)[i]
  <2> TAKE i \in 1..Size
  <2>1. CASE i \in 1..SampleBytes
    <3>1. s + i - 1 \in s..(s + SampleBytes - 1) /\ (s + i - 1) - s + 1 = i
      BY <1>1, <2>1, Sizes
    <3>2. f[s + i - 1] = <<n, i>>
      BY <3>1, <1>2
    <3>3. LineOf(n)[i] = <<n, i>>
      BY <2>1, LineOfIs
    <3> QED BY <3>2, <3>3, <1>5
  <2>2. CASE i = Size
    <3>1. s + i - 1 = s + SampleBytes
      BY <1>1, <2>2, Sizes
    <3> QED BY <3>1, <1>1, <1>5, <2>2, LineOfIs
  <2>3. i \in 1..SampleBytes \/ i = Size
    BY Sizes
  <2> QED BY <2>1, <2>2, <2>3
<1>7. line = LineOf(n)
  <2>1. LineOf(n) \in Seq(Byte) /\ Len(LineOf(n)) = Size
    BY LineOfIs
  <2> QED BY <2>1, <1>5, <1>6, SeqEqual
<1> QED BY <1>1, <1>4, <1>7 DEF Decoded, line

(* A reader that reads the next line answers in order, and what is due.     *)
LEMMA ReadsTheNext ==
  ASSUME NEW f, sampled \in Nat, FileOf(f, sampled), NEW r \in Reader, Reads(f, r),
         r.next <= Len(f),
         NEW v \in Reader, v.due = r.due, v.next = LineEnd(f, r.next) + 1,
         v.answer = r.answer \o
           (LET found == Decoded(SubSeq(f, r.next, LineEnd(f, r.next)))
            IN  IF found = {} THEN <<>> ELSE <<CHOOSE n \in found : TRUE>>)
  PROVE  Reads(f, v)
<1> DEFINE end == LineEnd(f, r.next)
           found == Decoded(SubSeq(f, r.next, end))
<1>1. /\ f \in Seq(Byte) /\ Len(f) \in Nat /\ r.next \in 1..Len(f)
      /\ r.answer \in Seq(Nat) /\ Len(r.answer) \in Nat
  BY DEF FileOf, Reads, Reader
<1>2. /\ end \in r.next..Len(f)
      /\ \A i \in r.next..Len(f) : f[i] = NewLine => end <= i
  BY <1>1, LineEndIs
<1>3. \A n \in found : \E q \in r.next..end : f[q] = <<n, SampleBytes>>
  BY <1>1, SampleIs
<1>4. \A n \in found : n \in 1..sampled /\ f[r.next] = <<n, 1>>
  BY <1>1, SampleIs
<1>5. \A s \in r.next..Len(f) : LineAt(f, s, r.due) =>
        s \in (end + 1)..Len(f) \/ (s = r.next /\ r.due = 0) \/ (s = r.next /\ r.due \in found)
  <2> SUFFICES ASSUME NEW s \in r.next..Len(f), LineAt(f, s, r.due), s # r.next
               PROVE  s \in (end + 1)..Len(f)
    <3>1. ASSUME LineAt(f, r.next, r.due), r.due # 0 PROVE r.due \in found
      <4>1. r.due \in 1..sampled
        <5>1. r.next + 1 - 1 = r.next /\ 1 \in 1..SampleBytes
          BY <1>1, Sizes
        <5>2. f[r.next] = <<r.due, 1>>
          BY <3>1, <5>1 DEF LineAt
        <5>3. f[r.next] \in (1..sampled) \X (1..SampleBytes)
          BY <1>1, <5>2 DEF FileOf, NewLine
        <5> QED BY <5>2, <5>3
      <4> QED BY <3>1, <4>1, <1>1, LineParses
    <3> QED BY <3>1
  <2>1. s - 1 \in r.next..Len(f) /\ f[s - 1] = NewLine
    BY <1>1 DEF LineAt, LineStarts
  <2>2. end <= s - 1
    BY <2>1, <1>2
  <2> QED BY <2>2, <1>1, <1>2
<1> HIDE DEF end, found
<1>6. CASE found = {}
  <2>1. v.answer = r.answer
    BY <1>6, <1>1, ConcatEmptySeq DEF found, end
  <2>2. v.next \in 1..Len(f) + 1 /\ v.next = end + 1 /\ r.next < v.next
    BY <1>1, <1>2 DEF end
  <2>3. \A i \in 1..Len(v.answer) :
          \E q \in 1..Len(f) : q < v.next /\ f[q] = <<v.answer[i], SampleBytes>>
    <3> TAKE i \in 1..Len(v.answer)
    <3>1. PICK q \in 1..Len(f) : q < r.next /\ f[q] = <<r.answer[i], SampleBytes>>
      BY <2>1 DEF Reads
    <3>2. q < v.next
      BY <3>1, <2>2, <1>1
    <3> QED BY <2>1, <3>1, <3>2
  <2>4. \A i, j \in 1..Len(v.answer) : i < j => v.answer[i] < v.answer[j]
    BY <2>1 DEF Reads
  <2>5. v.due # 0 =>
          \/ \E i \in 1..Len(v.answer) : v.answer[i] = v.due
          \/ \E s \in v.next..Len(f) : LineAt(f, s, v.due)
    BY <1>5, <1>6, <2>1, <2>2 DEF Reads
  <2> QED BY <2>2, <2>3, <2>4, <2>5 DEF Reads
<1>7. CASE found # {}
  <2>1. PICK n \in found : v.answer = Append(r.answer, n)
    <3>1. v.answer = r.answer \o <<CHOOSE n \in found : TRUE>>
      BY <1>7 DEF found, end
    <3>2. (CHOOSE n \in found : TRUE) \in found
      BY <1>7
    <3>3. PICK n \in found : n = CHOOSE k \in found : TRUE
      BY <3>2
    <3>4. v.answer = r.answer \o <<n>>
      BY <3>1, <3>3
    <3>6. n \in 1..sampled
      BY <1>4
    <3>7. n \in Nat
      BY <3>6
    <3>5. Append(r.answer, n) = r.answer \o <<n>>
      BY <3>7, <1>1, AppendIsConcat
    <3> QED BY <3>4, <3>5
  <2>2. n \in 1..sampled /\ n \in Nat
    BY <1>4
  <2> DEFINE k == Len(r.answer)
  <2>3. /\ Len(v.answer) = k + 1 /\ v.answer[k + 1] = n /\ k \in Nat
        /\ \A i \in 1..k : v.answer[i] = r.answer[i]
        /\ 1..Len(v.answer) = 1..(k + 1) /\ 1..Len(r.answer) = 1..k
    <3>1. /\ Len(Append(r.answer, n)) = k + 1 /\ Append(r.answer, n)[k + 1] = n
          /\ \A i \in 1..k : Append(r.answer, n)[i] = r.answer[i]
      BY <2>2, <1>1, AppendProperties
    <3> QED BY <2>1, <3>1, <1>1
  <2> HIDE DEF k
  <2>4. v.next \in 1..Len(f) + 1 /\ v.next = end + 1 /\ r.next < v.next
    BY <1>1, <1>2 DEF end
  <2>5. \A i \in 1..(k + 1) :
          \E q \in 1..Len(f) : q < v.next /\ f[q] = <<v.answer[i], SampleBytes>>
    <3> TAKE i \in 1..(k + 1)
    <3>1. CASE i \in 1..k
      <4>1. PICK q \in 1..Len(f) : q < r.next /\ f[q] = <<r.answer[i], SampleBytes>>
        BY <3>1 DEF Reads, k
      <4>2. q < v.next
        BY <4>1, <2>4, <1>1
      <4> QED BY <2>3, <3>1, <4>1, <4>2
    <3>2. CASE i = k + 1
      <4>1. PICK q \in r.next..end : f[q] = <<n, SampleBytes>>
        BY <1>3
      <4>2. q \in 1..Len(f) /\ q < v.next
        BY <1>1, <1>2, <2>4
      <4> QED BY <2>3, <3>2, <4>1, <4>2
    <3>3. i \in 1..k \/ i = k + 1
      BY <2>3
    <3> QED BY <3>1, <3>2, <3>3
  <2>6. \A i \in 1..k : r.answer[i] < n
    <3> TAKE i \in 1..k
    <3>1. PICK q \in 1..Len(f) : q < r.next /\ f[q] = <<r.answer[i], SampleBytes>>
      BY DEF Reads, k
    <3>2. f[r.next] = <<n, 1>>
      BY <1>4
    <3>3. f[q] # NewLine /\ f[r.next] # NewLine
      BY <3>1, <3>2, Sizes DEF NewLine
    <3>4. Precedes(f[q], f[r.next])
      BY <3>1, <3>3, <1>1 DEF FileOf
    <3>5. r.answer[i] < n \/ (r.answer[i] = n /\ SampleBytes < 1)
      BY <3>1, <3>2, <3>4 DEF Precedes
    <3> QED BY <3>5, Sizes
  <2>7. \A i, j \in 1..(k + 1) : i < j => v.answer[i] < v.answer[j]
    <3> TAKE i, j \in 1..(k + 1)
    <3> HAVE i < j
    <3>1. i \in 1..k
      BY <2>3, <1>1
    <3>2. CASE j \in 1..k
      <4>1. r.answer[i] < r.answer[j]
        BY <3>1, <3>2 DEF Reads, k
      <4> QED BY <2>3, <3>1, <3>2, <4>1
    <3>3. CASE j = k + 1
      BY <2>3, <2>6, <3>1, <3>3
    <3>4. j \in 1..k \/ j = k + 1
      BY <2>3
    <3> QED BY <3>2, <3>3, <3>4
  <2>8. \A o \in found : o = n
    BY <1>4, <2>1
  <2>9. v.due # 0 =>
          \/ \E i \in 1..(k + 1) : v.answer[i] = v.due
          \/ \E s \in v.next..Len(f) : LineAt(f, s, v.due)
    <3> HAVE v.due # 0
    <3>1. CASE \E i \in 1..k : r.answer[i] = r.due
      <4>1. PICK i \in 1..k : r.answer[i] = r.due
        BY <3>1
      <4>2. v.answer[i] = r.answer[i]
        BY <4>1, <2>3
      <4>3. i \in 1..(k + 1)
        BY <4>1, <2>3
      <4> QED BY <4>1, <4>2, <4>3
    <3>2. CASE \E s \in r.next..Len(f) : LineAt(f, s, r.due)
      <4>1. (\E s \in v.next..Len(f) : LineAt(f, s, r.due)) \/ r.due \in found
        BY <3>2, <1>5, <2>4
      <4>2. r.due \in found => v.answer[k + 1] = v.due
        BY <2>3, <2>8
      <4>3. k + 1 \in 1..(k + 1)
        BY <2>3
      <4> QED BY <4>1, <4>2, <4>3, <2>3
    <3> QED BY <3>1, <3>2 DEF Reads, k
  <2> QED BY <2>3, <2>4, <2>5, <2>7, <2>9 DEF Reads
<1> QED BY <1>6, <1>7

(* What a reader has at its end.                                           *)
LEMMA ReadsToTheEnd ==
  ASSUME NEW f \in Seq(Byte), NEW r \in Reader, Reads(f, r), r.next > Len(f)
  PROVE  /\ \A i, j \in 1..Len(r.answer) : i < j => r.answer[i] < r.answer[j]
         /\ r.due # 0 => \E i \in 1..Len(r.answer) : r.answer[i] = r.due
<1>1. r.next \in Nat /\ Len(f) \in Nat
  BY DEF Reads
<1>2. r.next..Len(f) = {}
  BY <1>1
<1> QED BY <1>2 DEF Reads

(* The newest lines of a file fit the limit.                               *)
LEMMA RetainedIs ==
  ASSUME NEW f \in Seq(Byte), Retained(f) # {}
  PROVE  /\ Min(Retained(f)) \in 1..Len(f) /\ Min(Retained(f)) \in LineStarts(f)
         /\ \A i \in Retained(f) : Min(Retained(f)) <= i
         /\ Len(f) - Min(Retained(f)) + 1 <= HistoryMax
<1> DEFINE window == Max({HistoryMax \div 2, SampleBytes + 1})
<1>1. window \in Nat /\ window <= HistoryMax /\ window >= Size
  <2>1. HistoryMax \div 2 \in Nat /\ HistoryMax \div 2 <= HistoryMax /\ SampleBytes + 1 = Size
    BY Sizes
  <2>2. PICK half \in Nat : half = HistoryMax \div 2 /\ half <= HistoryMax
    BY <2>1
  <2>3. window = IF half >= Size THEN half ELSE Size
    BY <2>1, <2>2, MaxOfTwo, Sizes
  <2> QED BY <2>2, <2>3, Sizes
<1> HIDE DEF window
<1>2. \A i \in Retained(f) : i \in LineStarts(f) /\ i \in 1..Len(f) /\ i > Len(f) - window
  BY DEF Retained, InWindow, LineStarts, window
<1>3. Min(Retained(f)) \in Retained(f) /\ \A i \in Retained(f) : Min(Retained(f)) <= i
  <2>1. Retained(f) \in SUBSET Nat
    BY <1>2
  <2> QED BY <2>1, LeastNumber
<1> QED BY <1>1, <1>2, <1>3, Sizes

(* A last line of its own is retained.                                     *)
LEMMA OwnLineRetained ==
  ASSUME NEW f \in Seq(Byte), NEW n, NEW s, s = Len(f) - SampleBytes, LineAt(f, s, n)
  PROVE  s \in Retained(f)
<1> DEFINE window == Max({HistoryMax \div 2, SampleBytes + 1})
           inside == {i \in LineStarts(f) : i > Len(f) - window}
<1>1. window \in Nat /\ window >= Size
  <2>1. PICK half \in Nat : half = HistoryMax \div 2
    BY Sizes
  <2>2. window = IF half >= Size THEN half ELSE Size
    BY <2>1, MaxOfTwo, Sizes DEF Size
  <2> QED BY <2>1, <2>2, Sizes
<1> HIDE DEF window
<1>2. s \in 1..Len(f) /\ s \in inside
  BY <1>1, Sizes DEF LineAt, LineStarts
<1>3. {j \in inside : j >= s} = {s}
  <2> SUFFICES ASSUME NEW j \in 1..Len(f), j > s, f[j - 1] = NewLine PROVE FALSE
    BY <1>2 DEF LineStarts
  <2>1. j - s \in 1..SampleBytes /\ s + (j - s) - 1 = j - 1
    BY <1>2, Sizes
  <2>2. f[j - 1] = <<n, j - s>>
    BY <2>1 DEF LineAt
  <2> QED BY <2>1, <2>2, Sizes DEF NewLine
<1>4. Cardinality({j \in inside : j >= s}) <= HistoryKeep
  <2>1. Cardinality({s}) = 1
    BY FS_Singleton
  <2>2. HistoryKeep >= 1
    BY HistoryAssumption DEF HistoryAssumption
  <2> QED BY <2>1, <2>2, <1>3
<1>5. inside = InWindow(f)
  BY DEF InWindow, window
<1> HIDE DEF inside
<1> QED BY <1>2, <1>4, <1>5 DEF Retained

(* What is left of a file by a trim at r.                                  *)
LEMMA RestOfFile ==
  ASSUME NEW n \in Nat, NEW f, FileOf(f, n), NEW r \in 1..Len(f)
  PROVE  /\ FileOf(SubSeq(f, r, Len(f)), n)
         /\ Len(SubSeq(f, r, Len(f))) = Len(f) - r + 1
         /\ \A i \in 1..(Len(f) - r + 1) : SubSeq(f, r, Len(f))[i] = f[r + i - 1]
<1> DEFINE l == Len(f)
           rest == SubSeq(f, r, l)
<1>1. f \in Seq(Byte) /\ l \in Nat /\ r \in 1..l
  BY DEF FileOf
<1> HIDE DEF l
<1>2. \A i \in r..l : f[i] \in Byte
  BY <1>1 DEF l
<1>3. /\ rest \in Seq(Byte) /\ Len(rest) = l - r + 1
      /\ \A i \in 1..(l - r + 1) : rest[i] = f[r + i - 1]
  <2>1. r \in Int /\ l \in Int /\ r <= l
    BY <1>1
  <2> QED BY <1>2, <2>1, SubSeqProperties
<1> HIDE DEF rest
<1>4. \A i \in 1..(l - r + 1) : r + i - 1 \in 1..l
  BY <1>1
<1>5. \A i \in 1..(l - r + 1) : rest[i] = NewLine \/ rest[i] \in (1..n) \X (1..SampleBytes)
  BY <1>3, <1>4 DEF FileOf, l
<1>6. \A i, j \in 1..(l - r + 1) :
        i < j /\ rest[i] # NewLine /\ rest[j] # NewLine => Precedes(rest[i], rest[j])
  <2> TAKE i, j \in 1..(l - r + 1)
  <2> HAVE i < j /\ rest[i] # NewLine /\ rest[j] # NewLine
  <2>1. r + i - 1 \in 1..l /\ r + j - 1 \in 1..l /\ r + i - 1 < r + j - 1
    BY <1>1
  <2>2. rest[i] = f[r + i - 1] /\ rest[j] = f[r + j - 1]
    BY <1>3
  <2> QED BY <2>1, <2>2 DEF FileOf, l
<1>7. FileOf(rest, n)
  BY <1>3, <1>5, <1>6 DEF FileOf
<1> QED BY <1>3, <1>7 DEF rest, l

(* The last line of a file is the last line of its rest.                   *)
LEMMA LastLineStays ==
  ASSUME NEW n \in Nat, NEW k \in Nat, NEW f, FileOf(f, k), NEW r \in 1..Len(f),
         r <= Len(f) - SampleBytes, LineAt(f, Len(f) - SampleBytes, n)
  PROVE  LineAt(SubSeq(f, r, Len(f)), Len(f) - r + 1 - SampleBytes, n)
<1> DEFINE l == Len(f)
           rest == SubSeq(f, r, Len(f))
           s == l - r + 1 - SampleBytes
<1>1. f \in Seq(Byte) /\ l \in Nat /\ r \in 1..l /\ r <= l - SampleBytes
  BY DEF FileOf
<1>2. Len(rest) = l - r + 1 /\ \A i \in 1..(l - r + 1) : rest[i] = f[r + i - 1]
  BY RestOfFile
<1>3. l - SampleBytes \in LineStarts(f) /\ f[l] = NewLine
  <2>1. l - SampleBytes + SampleBytes = l
    BY <1>1, Sizes
  <2> QED BY <2>1 DEF LineAt
<1>4. \A i \in 1..SampleBytes : f[l - SampleBytes + i - 1] = <<n, i>>
  BY DEF LineAt
<1> HIDE DEF l, rest
<1>5. s \in 1..(l - r + 1) /\ s + SampleBytes = l - r + 1
  BY <1>1, Sizes
<1>6. \A i \in 1..SampleBytes : rest[s + i - 1] = <<n, i>>
  <2> TAKE i \in 1..SampleBytes
  <2>1. s + i - 1 \in 1..(l - r + 1) /\ r + (s + i - 1) - 1 = l - SampleBytes + i - 1
    BY <1>1, <1>5, Sizes
  <2>2. rest[s + i - 1] = f[r + (s + i - 1) - 1]
    BY <2>1, <1>2
  <2> QED BY <2>1, <2>2, <1>4
<1>7. rest[s + SampleBytes] = NewLine
  <2>1. s + SampleBytes \in 1..(l - r + 1) /\ r + (s + SampleBytes) - 1 = l
    BY <1>1, <1>5, Sizes
  <2> QED BY <2>1, <1>2, <1>3
<1>8. s = 1 \/ rest[s - 1] = NewLine
  <2> SUFFICES ASSUME s # 1 PROVE rest[s - 1] = NewLine
    OBVIOUS
  <2>1. s - 1 \in 1..(l - r + 1) /\ r + (s - 1) - 1 = (l - SampleBytes) - 1
    BY <1>1, <1>5, Sizes
  <2>2. l - SampleBytes # 1
    BY <2>1, <1>1, Sizes
  <2>3. f[(l - SampleBytes) - 1] = NewLine
    BY <2>2, <1>3 DEF LineStarts
  <2> QED BY <2>1, <2>3, <1>2
<1>9. s \in LineStarts(rest) /\ s + SampleBytes <= Len(rest)
  BY <1>2, <1>5, <1>8 DEF LineStarts
<1>10. LineAt(rest, s, n)
  BY <1>6, <1>7, <1>9 DEF LineAt
<1> QED BY <1>10 DEF rest, l

(* Division with remainder, as the places of bytes need it.                 *)
LEMMA Division ==
  ASSUME NEW a \in Nat, NEW d \in Nat \ {0}
  PROVE  /\ a \div d \in Nat /\ a % d \in 0..(d - 1) /\ a = d * (a \div d) + (a % d)
         /\ \A q \in Nat : q < a \div d => d * q + d <= d * (a \div d)
         /\ \A q \in Nat : a < d * q => a \div d < q
         /\ \A q \in Nat : a \div d < q => a < d * q
         /\ \A q \in Nat, r \in 0..(d - 1) : a = d * q + r => a \div d = q /\ a % d = r
<1>1. a \div d \in Nat /\ a % d \in 0..(d - 1) /\ a = d * (a \div d) + (a % d)
  OBVIOUS
<1>2. ASSUME NEW p \in Nat, NEW q \in Nat, q < p PROVE d * q + d <= d * p
  BY <1>2
<1>3. ASSUME NEW q \in Nat, a < d * q PROVE a \div d < q
  <2>1. CASE a \div d = q
    BY <1>1, <1>3, <2>1
  <2>2. CASE q < a \div d
    BY <1>1, <1>2, <1>3, <2>2
  <2> QED BY <1>1, <2>1, <2>2
<1>4. ASSUME NEW q \in Nat, a \div d < q PROVE a < d * q
  BY <1>1, <1>2, <1>4
<1>5. \A q \in Nat, r \in 0..(d - 1) : a = d * q + r => a \div d = q /\ a % d = r
  OBVIOUS
<1> QED BY <1>1, <1>2, <1>3, <1>4, <1>5

(* The history that the model starts with.                                  *)
LEMMA LinesAre ==
  ASSUME NEW n \in Nat
  PROVE  /\ FileOf(Lines(n), n) /\ Len(Lines(n)) = n * Size
         /\ n # 0 => LineAt(Lines(n), Len(Lines(n)) - SampleBytes, n)
<1> DEFINE f == Lines(n)
           sample(i) == (i - 1) \div Size + 1
           byte(i) == ((i - 1) % Size) + 1
<1>1. n * Size \in Nat
  BY Sizes
<1>2. /\ f = [i \in 1..(n * Size) |-> LineOf(sample(i))[byte(i)]]
  BY DEF Lines, Size
<1>3. ASSUME NEW i \in 1..(n * Size)
      PROVE  /\ sample(i) \in 1..n /\ byte(i) \in 1..Size
             /\ i - 1 = Size * (sample(i) - 1) + (byte(i) - 1)
             /\ \A j \in 1..(n * Size) : sample(i) < sample(j) => i < j
             /\ \A q \in Nat, r \in 0..(Size - 1) :
                  i - 1 = Size * q + r => sample(i) = q + 1 /\ byte(i) = r + 1
  <2>1. i - 1 \in Nat /\ Size \in Nat \ {0} /\ i - 1 < Size * n
    BY <1>1, Sizes
  <2>2. sample(i) \in 1..n
    <3>1. (i - 1) \div Size \in Nat /\ (i - 1) \div Size < n
      BY <2>1, Division
    <3> QED BY <3>1
  <2>3. byte(i) \in 1..Size
    BY <2>1, Division, Sizes
  <2>4. i - 1 = Size * ((i - 1) \div Size) + ((i - 1) % Size)
    BY <2>1, Division
  <2>5. ASSUME NEW j \in 1..(n * Size), sample(i) < sample(j) PROVE i < j
    <3>1. /\ j - 1 \in Nat /\ (i - 1) \div Size \in Nat /\ (j - 1) \div Size \in Nat
          /\ (i - 1) \div Size < (j - 1) \div Size
      BY <2>1, <2>5, Division, <1>1
    <3>2. i - 1 < Size * ((j - 1) \div Size)
      <4>1. \A q \in Nat : (i - 1) \div Size < q => i - 1 < Size * q
        BY <2>1, Division
      <4> QED BY <3>1, <4>1
    <3>3. Size * ((j - 1) \div Size) <= j - 1
      <4>1. /\ j - 1 = Size * ((j - 1) \div Size) + ((j - 1) % Size)
            /\ (j - 1) % Size \in 0..(Size - 1)
        BY <2>1, <3>1, Division
      <4>2. Size * ((j - 1) \div Size) \in Nat
        BY <3>1, Sizes
      <4> QED BY <4>1, <4>2
    <3>4. Size * ((j - 1) \div Size) \in Nat
      BY <3>1, Sizes
    <3> QED BY <3>2, <3>3, <3>4, <2>1
  <2>6. ASSUME NEW q \in Nat, NEW r \in 0..(Size - 1), i - 1 = Size * q + r
        PROVE  sample(i) = q + 1 /\ byte(i) = r + 1
    <3>1. (i - 1) \div Size = q /\ (i - 1) % Size = r
      BY <2>1, <2>6, Division
    <3> QED BY <3>1
  <2>7. i - 1 = Size * (sample(i) - 1) + (byte(i) - 1)
    <3>1. sample(i) - 1 = (i - 1) \div Size /\ byte(i) - 1 = (i - 1) % Size
      BY <2>1, Division
    <3> QED BY <3>1, <2>4
  <2> QED BY <2>2, <2>3, <2>5, <2>6, <2>7
<1> HIDE DEF f, sample, byte
<1>4. ASSUME NEW i \in 1..(n * Size)
      PROVE  /\ f[i] \in Byte
             /\ byte(i) \in 1..SampleBytes =>
                  f[i] = <<sample(i), byte(i)>> /\ f[i] # NewLine
             /\ byte(i) = Size => f[i] = NewLine
             /\ byte(i) \in 1..SampleBytes \/ byte(i) = Size
  <2>1. sample(i) \in Nat /\ byte(i) \in 1..Size /\ f[i] = LineOf(sample(i))[byte(i)]
    BY <1>2, <1>3
  <2>2. byte(i) \in 1..SampleBytes \/ byte(i) = Size
    BY <2>1, Sizes
  <2>3. f[i] \in Byte
    <3>1. LineOf(sample(i)) \in Seq(Byte) /\ Len(LineOf(sample(i))) = Size
      BY <2>1, LineOfIs
    <3> QED BY <2>1, <3>1
  <2>4. byte(i) \in 1..SampleBytes => f[i] = <<sample(i), byte(i)>> /\ f[i] # NewLine
    BY <2>1, LineOfIs
  <2>5. byte(i) = Size => f[i] = NewLine
    BY <2>1, LineOfIs
  <2> QED BY <2>2, <2>3, <2>4, <2>5
<1>5. f \in Seq(Byte) /\ Len(f) = n * Size
  <2>1. f \in [1..(n * Size) -> Byte]
    BY <1>2, <1>4
  <2> QED BY <2>1, <1>1
<1>6. \A i \in 1..(n * Size) : f[i] = NewLine \/ f[i] \in (1..n) \X (1..SampleBytes)
  <2> TAKE i \in 1..(n * Size)
  <2>1. CASE byte(i) \in 1..SampleBytes
    <3>1. f[i] = <<sample(i), byte(i)>>
      BY <2>1, <1>4
    <3>2. sample(i) \in 1..n
      BY <1>3
    <3> QED BY <2>1, <3>1, <3>2
  <2> QED BY <2>1, <1>4
<1>7. \A i, j \in 1..(n * Size) :
        i < j /\ f[i] # NewLine /\ f[j] # NewLine => Precedes(f[i], f[j])
  <2> TAKE i, j \in 1..(n * Size)
  <2> HAVE i < j /\ f[i] # NewLine /\ f[j] # NewLine
  <2>1. f[i] = <<sample(i), byte(i)>> /\ f[j] = <<sample(j), byte(j)>>
    BY <1>4
  <2>2. sample(i) \in Nat /\ sample(j) \in Nat /\ byte(i) \in Nat /\ byte(j) \in Nat
    BY <1>3, Sizes
  <2>3. CASE sample(i) < sample(j)
    BY <2>1, <2>3 DEF Precedes
  <2>4. CASE sample(i) = sample(j)
    <3>1. /\ i - 1 = Size * (sample(i) - 1) + (byte(i) - 1)
          /\ j - 1 = Size * (sample(i) - 1) + (byte(j) - 1)
      BY <1>3, <2>4
    <3>2. PICK z \in Int : z = Size * (sample(i) - 1)
      BY <2>2, Sizes
    <3>3. byte(i) < byte(j)
      BY <3>1, <3>2, <2>2, <1>1
    <3> QED BY <2>1, <2>4, <3>3 DEF Precedes
  <2>5. CASE sample(j) < sample(i)
    <3>1. j < i
      BY <1>3, <2>5
    <3> QED BY <3>1, <1>1
  <2> QED BY <2>2, <2>3, <2>4, <2>5
<1>8. FileOf(f, n)
  BY <1>5, <1>6, <1>7 DEF FileOf
<1>9. ASSUME n # 0 PROVE LineAt(f, n * Size - SampleBytes, n)
  <2> DEFINE s == n * Size - SampleBytes
  <2>1. n - 1 \in Nat /\ Size * (n - 1) \in Nat /\ n * Size = Size * (n - 1) + Size
    BY <1>9, Sizes
  <2>2. /\ s = Size * (n - 1) + 1 /\ s \in 1..(n * Size) /\ s + SampleBytes = n * Size
    BY <2>1, Sizes
  <2> HIDE DEF s
  <2>3. \A k \in 1..SampleBytes : f[s + k - 1] = <<n, k>>
    <3> TAKE k \in 1..SampleBytes
    <3>1. s + k - 1 \in 1..(n * Size) /\ (s + k - 1) - 1 = Size * (n - 1) + (k - 1)
          /\ k - 1 \in 0..(Size - 1)
      BY <2>1, <2>2, Sizes
    <3>2. sample(s + k - 1) = n - 1 + 1 /\ byte(s + k - 1) = k - 1 + 1
      BY <3>1, <2>1, <1>3
    <3>3. sample(s + k - 1) = n /\ byte(s + k - 1) = k
      BY <3>2
    <3> QED BY <3>1, <3>3, <1>4
  <2>4. f[s + SampleBytes] = NewLine
    <3>1. s + SampleBytes \in 1..(n * Size) /\ (s + SampleBytes) - 1 = Size * (n - 1) + SampleBytes
          /\ SampleBytes \in 0..(Size - 1)
      BY <2>1, <2>2, Sizes
    <3>2. byte(s + SampleBytes) = SampleBytes + 1
      BY <3>1, <2>1, <1>3
    <3> QED BY <3>1, <3>2, <1>4, Sizes
  <2>5. s = 1 \/ f[s - 1] = NewLine
    <3> SUFFICES ASSUME s # 1 PROVE f[s - 1] = NewLine
      OBVIOUS
    <3>1. n - 1 - 1 \in Nat /\ Size * (n - 1 - 1) \in Nat
          /\ Size * (n - 1) = Size * (n - 1 - 1) + Size
      <4>1. n - 1 # 0
        BY <2>1, <2>2, Sizes
      <4> QED BY <4>1, <2>1, Sizes
    <3>2. s - 1 \in 1..(n * Size) /\ (s - 1) - 1 = Size * (n - 1 - 1) + SampleBytes
          /\ SampleBytes \in 0..(Size - 1)
      BY <2>1, <2>2, <3>1, Sizes
    <3>3. byte(s - 1) = SampleBytes + 1
      BY <3>1, <3>2, <1>3
    <3> QED BY <3>2, <3>3, <1>4, Sizes
  <2>6. s \in LineStarts(f) /\ s + SampleBytes <= Len(f)
    BY <2>2, <2>5, <1>5, <1>1 DEF LineStarts
  <2>7. LineAt(f, s, n)
    BY <2>3, <2>4, <2>6 DEF LineAt
  <2> QED BY <2>7 DEF s
<1> QED BY <1>5, <1>8, <1>9 DEF f
-----------------------------------------------------------------------------
(* What the invariant says of the variables' types, for the steps.          *)
LEMMA HistoryTyped ==
  ASSUME HistoryInv
  PROVE  /\ history \in Seq(Byte) /\ Len(history) \in Nat /\ sampled \in Nat
         /\ tick.at \in {"idle", "report", "append", "trim", "metrics"}
         /\ tick.written \in 0..Size /\ tick.appended \in BOOLEAN
         /\ whole \in 0..sampled /\ historyTroubles \in 0..MaxHistoryTroubles
         /\ Before \in Nat /\ Before <= Len(history)
         /\ tick.at \in {"append", "trim"} => Before = Len(history) - tick.written
         /\ tick.at \notin {"append", "trim"} => Before = Len(history)
<1>1. /\ history \in Seq(Byte) /\ Len(history) \in Nat
      /\ tick.at \in {"idle", "report", "append", "trim", "metrics"}
      /\ tick.written \in 0..Size /\ tick.appended \in BOOLEAN
      /\ whole \in 0..sampled /\ historyTroubles \in 0..MaxHistoryTroubles
  BY DEF HistoryInv, HistoryTypes, FileOf
<1>2. sampled \in Nat
  BY HistoryAssumption DEF HistoryInv, HistoryTypes, HistoryAssumption
<1>3. /\ tick.at \in {"append", "trim"} =>
           Before = Len(history) - tick.written /\ tick.written <= Len(history)
      /\ tick.at \notin {"append", "trim"} => Before = Len(history)
  BY DEF HistoryInv, LineInProgress, Before
<1>4. Before \in Nat /\ Before <= Len(history)
  BY <1>1, <1>3, Sizes
<1> QED BY <1>1, <1>2, <1>3, <1>4

(* The readers have what they had when neither they nor the file change.    *)
LEMMA ReadersKeep ==
  ASSUME HistoryInv, UNCHANGED <<history, monitors>>, sampled' \in Nat, sampled <= sampled'
  PROVE  Readable' /\ FileOf(history, sampled)'
<1>1. sampled \in Nat
  BY HistoryTyped
<1>2. ASSUME NEW m \in Monitors, monitors[m].at = "reading"
      PROVE  FileOf(Opened(m)', sampled') /\ Reads(Opened(m)', monitors[m])
  <2>1. FileOf(Opened(m), sampled) /\ Reads(Opened(m), monitors[m])
    BY <1>2 DEF HistoryInv, Readable
  <2>2. Opened(m)' = Opened(m)
    BY DEF Opened
  <2> QED BY <2>1, <2>2, <1>1, FileStays
<1>3. FileOf(history, sampled')
  BY <1>1, FileStays DEF HistoryInv
<1> QED BY <1>2, <1>3 DEF Readable

(* The newest line of its own is where it was.                              *)
LEMMA WholeStays ==
  ASSUME HistoryInv, UNCHANGED <<history, whole>>, Before' = Before,
         historyTroubles' \in {historyTroubles, historyTroubles + 1}
  PROVE  WholeIsThere'
<1>1. Litter(historyTroubles) \in Nat /\ Litter(historyTroubles) <= Litter(historyTroubles')
  BY HistoryTyped, Litters, Sizes
<1>2. Litter(historyTroubles') \in Nat
  BY <1>1, HistoryTyped, Litters, Sizes
<1>3. Glued' <=> Glued
  BY DEF Glued
<1> SUFFICES ASSUME whole # 0
             PROVE  \E s \in 1..Len(history) :
               /\ LineAt(history, s, whole) /\ s + SampleBytes <= Before
               /\ Before - (s + SampleBytes) + (IF Glued THEN Size ELSE 0)
                    <= Litter(historyTroubles')
  BY <1>3 DEF WholeIsThere
<1>4. PICK s \in 1..Len(history) :
        /\ LineAt(history, s, whole) /\ s + SampleBytes <= Before
        /\ Before - (s + SampleBytes) + (IF Glued THEN Size ELSE 0) <= Litter(historyTroubles)
  BY DEF HistoryInv, WholeIsThere
<1>5. Before - (s + SampleBytes) + (IF Glued THEN Size ELSE 0) <= Litter(historyTroubles')
  BY <1>1, <1>2, <1>4, HistoryTyped, Sizes
<1> QED BY <1>4, <1>5

(* A trouble leaves the line that was being appended, or what there is of   *)
(* it, and another line may be glued to that.                               *)
LEMMA WholeLittered ==
  ASSUME HistoryInv, UNCHANGED <<history, whole>>, Before' = Len(history),
         historyTroubles' = historyTroubles + 1, historyTroubles < MaxHistoryTroubles
  PROVE  WholeIsThere'
<1>1. /\ Litter(historyTroubles) \in Nat
      /\ Litter(historyTroubles') = Litter(historyTroubles) + 2 * Size
  BY HistoryTyped, Litters
<1>2. Len(history) <= Before + Size
  BY HistoryTyped, Sizes
<1> SUFFICES ASSUME whole # 0
             PROVE  \E s \in 1..Len(history) :
               /\ LineAt(history, s, whole) /\ s + SampleBytes <= Len(history)
               /\ Len(history) - (s + SampleBytes) + (IF Glued' THEN Size ELSE 0)
                    <= Litter(historyTroubles')
  BY DEF WholeIsThere
<1>3. PICK s \in 1..Len(history) :
        /\ LineAt(history, s, whole) /\ s + SampleBytes <= Before
        /\ Before - (s + SampleBytes) + (IF Glued THEN Size ELSE 0) <= Litter(historyTroubles)
  BY DEF HistoryInv, WholeIsThere
<1>4. Before - (s + SampleBytes) <= Litter(historyTroubles)
  <2>1. (IF Glued THEN Size ELSE 0) \in Nat
    BY Sizes
  <2>2. Before - (s + SampleBytes) \in Int
    BY <1>3, HistoryTyped, Sizes
  <2> QED BY <1>1, <1>3, <2>1, <2>2
<1>5. s + SampleBytes <= Len(history)
  BY <1>3, HistoryTyped, Sizes
<1>6. Len(history) - (s + SampleBytes) + Size <= Litter(historyTroubles')
  BY <1>1, <1>2, <1>4, HistoryTyped, Sizes
<1>7. Len(history) - (s + SampleBytes) + (IF Glued' THEN Size ELSE 0) <= Litter(historyTroubles')
  <2>1. (IF Glued' THEN Size ELSE 0) \in {0, Size}
    OBVIOUS
  <2>2. Len(history) - (s + SampleBytes) \in Int /\ Litter(historyTroubles') \in Int
    BY <1>1, <1>3, HistoryTyped, Sizes
  <2> QED BY <1>6, <2>1, <2>2, Sizes
<1> QED BY <1>3, <1>5, <1>7

(* A line that is appended whole and on its own is a line of its own.       *)
LEMMA OwnLineIs ==
  ASSUME HistoryInv, tick.at \in {"append", "trim"}, tick.written = Size
  PROVE  /\ Before = Len(history) - Size /\ Len(history) - SampleBytes = Before + 1
         /\ OwnLine => LineAt(history, Len(history) - SampleBytes, sampled)
         /\ ~Glued => OwnLine
         /\ history[Len(history)] = NewLine
<1>1. /\ Before \in Nat /\ Len(history) = Before + Size /\ sampled \in Nat
      /\ Len(history) - SampleBytes = Before + 1 /\ Len(history) \in Nat
      /\ Before = Len(history) - Size
  BY HistoryTyped, Sizes
<1>2. \A k \in 1..Size : history[Before + k] = LineOf(sampled)[k]
  BY DEF HistoryInv, LineInProgress
<1>3. history[Len(history)] = NewLine
  BY <1>1, <1>2, LineOfIs, Sizes
<1>4. ASSUME OwnLine PROVE LineAt(history, Len(history) - SampleBytes, sampled)
  <2>1. \A k \in 1..SampleBytes : history[Len(history) - SampleBytes + k - 1] = <<sampled, k>>
    <3> TAKE k \in 1..SampleBytes
    <3>1. Len(history) - SampleBytes + k - 1 = Before + k /\ k \in 1..Size
      BY <1>1, Sizes
    <3>2. LineOf(sampled)[k] = <<sampled, k>>
      BY <1>1, LineOfIs
    <3> QED BY <3>1, <3>2, <1>2
  <2>2. Len(history) - SampleBytes + SampleBytes = Len(history)
    BY <1>1, Sizes
  <2> QED BY <1>1, <1>3, <1>4, <2>1, <2>2 DEF LineAt, OwnLine
<1>5. ASSUME ~Glued PROVE OwnLine
  <2>1. Before + 1 \in 1..Len(history) /\ (Before + 1) - 1 = Before
    BY <1>1, Sizes
  <2>2. Before + 1 = 1 \/ history[(Before + 1) - 1] = NewLine
    BY <1>1, <1>5, <2>1 DEF Glued
  <2> QED BY <1>1, <2>1, <2>2 DEF OwnLine, LineStarts
<1> QED BY <1>1, <1>3, <1>4, <1>5
-----------------------------------------------------------------------------
(* A tick begins; the report is written, or not.                            *)
LEMMA ObserveStep == HistoryInv /\ Observe => HistoryInv'
<1> SUFFICES ASSUME HistoryInv, Observe PROVE HistoryInv'
  OBVIOUS
<1>1. /\ tick.at = "idle" /\ sampled' = sampled + 1 /\ sampled < MaxSamples
      /\ tick' = [at |-> "report", written |-> 0, appended |-> FALSE]
      /\ UNCHANGED <<history, published, monitors, whole, historyTroubles>>
  BY DEF Observe, IdleTick
<1>2. sampled \in Nat /\ sampled' \in Nat /\ sampled <= sampled'
  BY <1>1, HistoryTyped
<1>3. Before' = Before
  BY <1>1 DEF Before
<1>4. HistoryTypes'
  BY <1>1, <1>2, HistoryAssumption, Sizes DEF HistoryInv, HistoryTypes, HistoryAssumption
<1>5. Readable' /\ FileOf(history, sampled)' /\ WholeIsThere'
  BY <1>1, <1>2, <1>3, ReadersKeep, WholeStays
<1>6. InTick' /\ LineInProgress' /\ WithinLimit'
  BY <1>1, <1>2 DEF InTick, LineInProgress, WithinLimit
<1>7. NewestLast'
  <2> SUFFICES ASSUME NEW i \in 1..Len(history), history[i] # NewLine
               PROVE  Precedes(history[i], <<sampled', 1>>)
    BY <1>1 DEF NewestLast
  <2>1. history[i] \in (1..sampled) \X (1..SampleBytes)
    BY DEF HistoryInv, FileOf
  <2> QED BY <2>1, <1>1, <1>2 DEF Precedes
<1> QED BY <1>4, <1>5, <1>6, <1>7 DEF HistoryInv

(* A failure or a death counts as one trouble.                              *)
LEMMA TroubleIs ==
  ASSUME HistoryInv
  PROVE  /\ UNCHANGED historyTroubles => historyTroubles' \in 0..MaxHistoryTroubles
         /\ Trouble => /\ historyTroubles' \in 0..MaxHistoryTroubles
                       /\ historyTroubles < MaxHistoryTroubles
                       /\ historyTroubles' = historyTroubles + 1
BY HistoryTyped, HistoryAssumption DEF Trouble, HistoryAssumption

(* The report or the metrics are written, or that fails.                    *)
LEMMA PublishStep ==
  ASSUME HistoryInv,
         NEW f, NEW after, <<f, after>> \in {<<"report", "append">>, <<"metrics", "idle">>},
         Publish(f, after)
  PROVE  HistoryInv'
<1>1. /\ tick.at = f /\ tick' = [tick EXCEPT !.at = after]
      /\ UNCHANGED <<history, sampled, monitors, whole>>
      /\ published' \in {published, [published EXCEPT ![f] = sampled]}
      /\ UNCHANGED historyTroubles \/ Trouble
  BY DEF Publish
<1>2. /\ (f = "report" /\ after = "append") \/ (f = "metrics" /\ after = "idle")
      /\ tick \in [at: {"idle", "report", "append", "trim", "metrics"},
                   written: 0..Size, appended: BOOLEAN]
  BY DEF HistoryInv, HistoryTypes
<1>3. tick'.at = after /\ tick'.written = tick.written /\ tick'.appended = tick.appended
  BY <1>1, <1>2
<1>4. sampled \in Nat /\ historyTroubles' \in {historyTroubles, historyTroubles + 1}
  BY <1>1, HistoryTyped DEF Trouble
<1>5. f = "report" => tick.written = 0 /\ sampled > 0 /\ ~tick.appended
  BY <1>1 DEF HistoryInv, InTick
<1>6. Before' = Before
  BY <1>1, <1>2, <1>3, <1>5, HistoryTyped DEF Before
<1>7. HistoryTypes'
  <2>1. published' \in [{"report", "metrics"} -> 0..sampled]
    BY <1>1, <1>2, <1>4 DEF HistoryInv, HistoryTypes
  <2>2. tick' \in [at: {"idle", "report", "append", "trim", "metrics"},
                   written: 0..Size, appended: BOOLEAN]
    BY <1>1, <1>2
  <2> QED BY <1>1, <2>1, <2>2, TroubleIs DEF HistoryInv, HistoryTypes
<1>8. Readable' /\ FileOf(history, sampled)' /\ WholeIsThere'
  <2>1. Readable' /\ FileOf(history, sampled)'
    BY <1>1, <1>4, ReadersKeep
  <2>2. WholeIsThere'
    BY <1>1, <1>4, <1>6, WholeStays
  <2> QED BY <2>1, <2>2
<1>9. InTick' /\ WithinLimit'
  BY <1>1, <1>2, <1>3, <1>5 DEF InTick, WithinLimit
<1>10. LineInProgress'
  <2>1. 1..tick.written = {} \/ f = "metrics"
    BY <1>2, <1>5
  <2> QED BY <1>1, <1>2, <1>3, <1>5, <2>1, HistoryTyped DEF LineInProgress
<1>11. NewestLast'
  BY <1>1, <1>2, <1>3 DEF HistoryInv, NewestLast
<1> QED BY <1>7, <1>8, <1>9, <1>10, <1>11 DEF HistoryInv

(* The append fails, or the daemon dies: what was written stays.            *)
LEMMA BrokenOff ==
  ASSUME HistoryInv, Trouble, UNCHANGED <<history, published, sampled, monitors, whole>>,
         \/ tick.at \in {"append", "trim"} /\ tick' = [tick EXCEPT !.at = "metrics"]
         \/ tick' = IdleTick
  PROVE  HistoryInv'
<1>1. tick \in [at: {"idle", "report", "append", "trim", "metrics"},
                written: 0..Size, appended: BOOLEAN]
  BY DEF HistoryInv, HistoryTypes
<1>2. /\ tick'.at \in {"metrics", "idle"}
      /\ tick' \in [at: {"idle", "report", "append", "trim", "metrics"},
                    written: 0..Size, appended: BOOLEAN]
      /\ tick'.at = "metrics" => sampled > 0 /\ ~tick'.appended
  <2>1. CASE tick.at \in {"append", "trim"} /\ tick' = [tick EXCEPT !.at = "metrics"]
    <3>1. sampled > 0 /\ ~tick.appended
      BY <2>1 DEF HistoryInv, InTick
    <3>2. tick'.at = "metrics" /\ tick'.appended = tick.appended
      BY <1>1, <2>1
    <3> QED BY <1>1, <2>1, <3>1, <3>2
  <2>2. CASE tick' = IdleTick
    BY <2>2, Sizes DEF IdleTick
  <2> QED BY <2>1, <2>2
<1>3. Before' = Len(history)
  BY <1>2, HistoryTyped DEF Before
<1>4. HistoryTypes'
  BY <1>2, TroubleIs DEF HistoryInv, HistoryTypes
<1>5. Readable' /\ FileOf(history, sampled)'
  BY HistoryTyped, ReadersKeep
<1>6. WholeIsThere'
  BY <1>3, TroubleIs, WholeLittered
<1>7. InTick' /\ NewestLast' /\ LineInProgress' /\ WithinLimit'
  BY <1>2 DEF InTick, NewestLast, LineInProgress, WithinLimit
<1> QED BY <1>4, <1>5, <1>6, <1>7 DEF HistoryInv

(* A byte is appended: it follows every byte of the file, also of a torn    *)
(* line it is glued to.                                                     *)
LEMMA AppendByteStep == HistoryInv /\ AppendByte => HistoryInv'
<1> SUFFICES ASSUME HistoryInv, AppendByte PROVE HistoryInv'
  OBVIOUS
<1> DEFINE b == LineOf(sampled)[tick.written + 1]
<1>1. /\ tick.at = "append" /\ tick.written <= SampleBytes
      /\ history' = Append(history, b)
      /\ tick' = [tick EXCEPT !.written = @ + 1]
      /\ UNCHANGED <<published, sampled, monitors, whole, historyTroubles>>
  BY DEF AppendByte
<1>2. /\ history \in Seq(Byte) /\ Len(history) \in Nat /\ sampled \in Nat /\ sampled > 0
      /\ tick.written \in 0..SampleBytes /\ tick.written + 1 \in 1..Size
      /\ Before \in Nat /\ Len(history) = Before + tick.written /\ Before <= Len(history)
  <2>1. sampled > 0
    BY <1>1 DEF HistoryInv, InTick
  <2>2. /\ history \in Seq(Byte) /\ Len(history) \in Nat /\ sampled \in Nat
        /\ Before \in Nat /\ Before <= Len(history) /\ tick.written \in 0..Size
        /\ Before = Len(history) - tick.written
    BY <1>1, HistoryTyped
  <2>3. tick.written \in 0..SampleBytes /\ tick.written + 1 \in 1..Size
    BY <1>1, <2>2, Sizes
  <2>4. Len(history) = Before + tick.written
    BY <2>2, Sizes
  <2> QED BY <2>1, <2>2, <2>3, <2>4
<1>3. /\ tick'.at = "append" /\ tick'.written = tick.written + 1
      /\ tick'.appended = tick.appended
      /\ tick' \in [at: {"idle", "report", "append", "trim", "metrics"},
                    written: 0..Size, appended: BOOLEAN]
  <2>1. tick \in [at: {"idle", "report", "append", "trim", "metrics"},
                 written: 0..Size, appended: BOOLEAN]
    BY DEF HistoryInv, HistoryTypes
  <2>2. tick.written + 1 \in 0..Size
    BY <1>2, Sizes
  <2> QED BY <1>1, <2>1, <2>2
<1>4. /\ b \in Byte
      /\ tick.written < SampleBytes => b = <<sampled, tick.written + 1>>
      /\ tick.written = SampleBytes => b = NewLine
  <2>1. /\ LineOf(sampled) \in Seq(Byte) /\ Len(LineOf(sampled)) = Size
        /\ \A k \in 1..SampleBytes : LineOf(sampled)[k] = <<sampled, k>>
        /\ LineOf(sampled)[Size] = NewLine
    BY <1>2, LineOfIs
  <2>2. b \in Byte
    BY <1>2, <2>1
  <2>3. ASSUME tick.written < SampleBytes PROVE b = <<sampled, tick.written + 1>>
    <3>1. tick.written + 1 \in 1..SampleBytes
      BY <1>2, <2>3, Sizes
    <3> QED BY <2>1, <3>1
  <2>4. ASSUME tick.written = SampleBytes PROVE b = NewLine
    BY <2>1, <2>4, Sizes
  <2> QED BY <2>2, <2>3, <2>4
<1> HIDE DEF b
<1>5. tick.written < SampleBytes \/ tick.written = SampleBytes
  BY <1>2, Sizes
<1>6. /\ Len(history') = Len(history) + 1
      /\ \A i \in 1..Len(history) : history'[i] = history[i]
      /\ history'[Len(history) + 1] = b
  BY <1>1, <1>2, <1>4, AppendProperties
<1>7. Before' = Before
  <2>1. Before' = Len(history') - (tick.written + 1)
    BY <1>3 DEF Before
  <2> QED BY <2>1, <1>2, <1>6
<1>8. b = NewLine \/ b \in (1..sampled) \X (1..SampleBytes)
  <2>1. ASSUME tick.written < SampleBytes PROVE b \in (1..sampled) \X (1..SampleBytes)
    BY <1>2, <1>4, <2>1, Sizes
  <2> QED BY <2>1, <1>4, <1>5
<1>9. b # NewLine => b = <<sampled, tick.written + 1>>
  BY <1>4, <1>5
<1>10. \A i \in 1..Len(history) :
         history[i] # NewLine => Precedes(history[i], <<sampled, tick.written + 1>>)
  BY <1>1 DEF HistoryInv, NewestLast
<1>11. FileOf(history, sampled)'
  <2>1. FileOf(Append(history, b), sampled)
    BY <1>2, <1>4, <1>8, <1>9, <1>10, FileGrows DEF HistoryInv
  <2> QED BY <1>1, <2>1
<1>12. HistoryTypes' /\ InTick' /\ WithinLimit'
  BY <1>1, <1>3 DEF HistoryInv, HistoryTypes, InTick, WithinLimit
<1>13. NewestLast'
  <2> SUFFICES ASSUME NEW i \in 1..(Len(history) + 1), history'[i] # NewLine
               PROVE  Precedes(history'[i], <<sampled, tick.written + 2>>)
    <3>1. tick'.written + 1 = tick.written + 2
      BY <1>2, <1>3
    <3>2. 1..Len(history') = 1..(Len(history) + 1)
      BY <1>6
    <3> QED BY <1>1, <3>1, <3>2 DEF NewestLast
  <2>1. CASE i \in 1..Len(history)
    <3>1. Precedes(history'[i], <<sampled, tick.written + 1>>)
      BY <2>1, <1>6, <1>10
    <3>2. history'[i] \in (1..sampled) \X (1..SampleBytes)
      BY <2>1, <1>6 DEF HistoryInv, FileOf
    <3>3. history'[i][1] \in Nat /\ history'[i][2] \in Nat
      BY <3>2, <1>2, Sizes
    <3>4. \/ history'[i][1] < sampled
          \/ history'[i][1] = sampled /\ history'[i][2] < tick.written + 1
      BY <3>1 DEF Precedes
    <3>5. history'[i][2] < tick.written + 1 => history'[i][2] < tick.written + 2
      BY <3>3, <1>2
    <3> QED BY <3>4, <3>5 DEF Precedes
  <2>2. CASE i = Len(history) + 1
    BY <2>2, <1>2, <1>6, <1>9 DEF Precedes
  <2> QED BY <1>2, <2>1, <2>2
<1>14. LineInProgress'
  <2> SUFFICES /\ tick.written + 1 <= Len(history) + 1
               /\ \A k \in 1..(tick.written + 1) : history'[Before + k] = LineOf(sampled)[k]
    BY <1>1, <1>3, <1>6, <1>7 DEF LineInProgress
  <2>1. ASSUME NEW k \in 1..(tick.written + 1)
        PROVE  history'[Before + k] = LineOf(sampled)[k]
    <3>1. CASE k = tick.written + 1
      <4>1. Before + k = Len(history) + 1
        BY <3>1, <1>2
      <4> QED BY <3>1, <4>1, <1>6 DEF b
    <3>2. CASE k \in 1..tick.written
      <4>1. Before + k \in 1..Len(history)
        BY <3>2, <1>2
      <4>2. history[Before + k] = LineOf(sampled)[k]
        BY <1>1, <3>2 DEF HistoryInv, LineInProgress
      <4> QED BY <4>1, <4>2, <1>6
    <3> QED BY <3>1, <3>2, <1>2
  <2> QED BY <2>1, <1>2
<1>15. WholeIsThere'
  <2>1. Glued' <=> Glued
    <3>1. Before > 0 => Before \in 1..Len(history)
      BY <1>2
    <3> QED BY <3>1, <1>6, <1>7 DEF Glued
  <2> SUFFICES ASSUME whole # 0
               PROVE  \E s \in 1..Len(history') :
                 /\ LineAt(history', s, whole) /\ s + SampleBytes <= Before
                 /\ Before - (s + SampleBytes) + (IF Glued THEN Size ELSE 0)
                      <= Litter(historyTroubles)
    BY <1>1, <1>7, <2>1 DEF WholeIsThere
  <2>2. PICK s \in 1..Len(history) :
          /\ LineAt(history, s, whole) /\ s + SampleBytes <= Before
          /\ Before - (s + SampleBytes) + (IF Glued THEN Size ELSE 0) <= Litter(historyTroubles)
    BY DEF HistoryInv, WholeIsThere
  <2>3. LineAt(history', s, whole)
    BY <1>1, <1>2, <1>4, <2>2, LineStays
  <2>4. s \in 1..Len(history')
    BY <1>2, <1>6
  <2> QED BY <2>2, <2>3, <2>4
<1>16. Readable'
  <2> SUFFICES ASSUME NEW m \in Monitors, monitors[m].at = "reading"
               PROVE  FileOf(Opened(m)', sampled) /\ Reads(Opened(m)', monitors[m])
    BY <1>1 DEF Readable
  <2>1. FileOf(Opened(m), sampled) /\ Reads(Opened(m), monitors[m])
    BY DEF HistoryInv, Readable
  <2>2. CASE monitors[m].replaced
    <3>1. Opened(m)' = Opened(m)
      BY <1>1, <2>2 DEF Opened
    <3> QED BY <2>1, <3>1
  <2>3. CASE ~monitors[m].replaced
    <3>1. Opened(m) = history /\ Opened(m)' = history'
      BY <1>1, <2>3 DEF Opened
    <3>2. monitors[m] \in Reader
      BY DEF HistoryInv, HistoryTypes
    <3>3. Reads(Append(history, b), monitors[m])
      BY <1>2, <1>4, <2>1, <3>1, <3>2, ReadsOn
    <3> QED BY <1>1, <1>11, <3>1, <3>3
  <2> QED BY <2>2, <2>3
<1> QED BY <1>11, <1>12, <1>13, <1>14, <1>15, <1>16 DEF HistoryInv

(* What is promised once a line is appended on its own, and the tick goes on. *)
LEMMA WholeAppended ==
  ASSUME HistoryInv, tick.at \in {"append", "trim"}, tick'.at = "metrics",
         history' \in Seq(Byte), sampled' = sampled, Len(history') \in Nat,
         whole' = IF OwnLine THEN sampled ELSE 0,
         historyTroubles' \in {historyTroubles, historyTroubles + 1},
         OwnLine /\ sampled # 0 =>
           LineAt(history', Len(history') - SampleBytes, sampled)
  PROVE  WholeIsThere'
<1>1. Before' = Len(history')
  BY DEF Before
<1> SUFFICES ASSUME OwnLine, sampled # 0
             PROVE  \E s \in 1..Len(history') :
               /\ LineAt(history', s, sampled) /\ s + SampleBytes <= Len(history')
               /\ Len(history') - (s + SampleBytes) + (IF Glued' THEN Size ELSE 0)
                    <= Litter(historyTroubles')
  BY <1>1 DEF WholeIsThere
<1> DEFINE s == Len(history') - SampleBytes
<1>2. /\ LineAt(history', s, sampled) /\ s \in 1..Len(history')
      /\ s + SampleBytes = Len(history')
  <2>1. LineAt(history', s, sampled)
    OBVIOUS
  <2>2. s \in 1..Len(history')
    BY <2>1 DEF LineAt, LineStarts
  <2>3. s + SampleBytes = Len(history')
    BY Sizes
  <2> QED BY <2>1, <2>2, <2>3
<1>3. ~Glued'
  <2>1. history'[Len(history')] = NewLine
    BY <1>2 DEF LineAt
  <2> QED BY <1>1, <2>1 DEF Glued
<1>4. Litter(historyTroubles') \in Nat
  BY HistoryTyped, Litters, Sizes
<1> HIDE DEF s
<1>5. Len(history') - (s + SampleBytes) + (IF Glued' THEN Size ELSE 0) <= Litter(historyTroubles')
  BY <1>2, <1>3, <1>4
<1> QED BY <1>2, <1>5

(* The line is written: a file within the limit is appended to; a longer    *)
(* one is to be trimmed.                                                    *)
LEMMA WrittenStep == HistoryInv /\ Written => HistoryInv'
<1> SUFFICES ASSUME HistoryInv, Written PROVE HistoryInv'
  OBVIOUS
<1>1. /\ tick.at = "append" /\ tick.written > SampleBytes
      /\ UNCHANGED <<history, published, sampled, monitors, historyTroubles>>
  BY DEF Written
<1>2. /\ tick.written = Size /\ Len(history) \in Nat /\ sampled > 0 /\ ~tick.appended
      /\ sampled \in Nat
      /\ tick \in [at: {"idle", "report", "append", "trim", "metrics"},
                   written: 0..Size, appended: BOOLEAN]
  BY <1>1, HistoryTyped, Sizes DEF HistoryInv, InTick, HistoryTypes
<1>3. Readable' /\ FileOf(history, sampled)'
  BY <1>1, <1>2, ReadersKeep
<1>4. CASE Len(history) > HistoryMax
  <2>1. tick' = [tick EXCEPT !.at = "trim"] /\ UNCHANGED whole
    BY <1>4 DEF Written
  <2>2. /\ tick'.at = "trim" /\ tick'.written = Size /\ tick'.appended = tick.appended
        /\ tick' \in [at: {"idle", "report", "append", "trim", "metrics"},
                      written: 0..Size, appended: BOOLEAN]
    BY <1>2, <2>1
  <2>3. Before' = Before
    BY <1>1, <1>2, <2>2 DEF Before
  <2>4. HistoryTypes' /\ InTick' /\ NewestLast' /\ WithinLimit'
    BY <1>1, <1>2, <2>1, <2>2 DEF HistoryInv, HistoryTypes, InTick, NewestLast, WithinLimit
  <2>5. LineInProgress'
    BY <1>1, <1>2, <2>2, <2>3 DEF HistoryInv, LineInProgress
  <2>6. WholeIsThere'
    BY <1>1, <2>1, <2>3, WholeStays
  <2> QED BY <1>3, <2>4, <2>5, <2>6 DEF HistoryInv
<1>5. CASE ~(Len(history) > HistoryMax)
  <2>1. /\ tick' = [tick EXCEPT !.at = "metrics", !.appended = TRUE]
        /\ whole' = IF OwnLine THEN sampled ELSE 0
    BY <1>5 DEF Written, Appended
  <2>2. /\ tick'.at = "metrics"
        /\ tick' \in [at: {"idle", "report", "append", "trim", "metrics"},
                      written: 0..Size, appended: BOOLEAN]
    BY <1>2, <2>1
  <2>3. HistoryTypes' /\ InTick' /\ NewestLast' /\ WithinLimit' /\ LineInProgress'
    BY <1>1, <1>2, <1>5, <2>1, <2>2, Sizes
       DEF HistoryInv, HistoryTypes, InTick, NewestLast, WithinLimit, LineInProgress
  <2>4. WholeIsThere'
    <3>1. OwnLine => LineAt(history', Len(history') - SampleBytes, sampled)
      BY <1>1, <1>2, OwnLineIs
    <3> QED BY <1>1, <2>1, <2>2, <3>1, HistoryTyped, WholeAppended
  <2> QED BY <1>3, <2>3, <2>4 DEF HistoryInv
<1> QED BY <1>4, <1>5

(* The history is replaced by its newest lines: a reader keeps its file.    *)
LEMMA Replaced ==
  ASSUME HistoryInv, Retained(history) # {}, ReplaceHistory(Newest), UNCHANGED sampled
  PROVE  /\ FileOf(history, sampled)' /\ Readable' /\ monitors' \in [Monitors -> Reader]
         /\ Len(history') \in Nat /\ Len(history') <= HistoryMax
         /\ \A n \in Nat : LineAt(history, Len(history) - SampleBytes, n) =>
              LineAt(history', Len(history') - SampleBytes, n)
<1> DEFINE r == Min(Retained(history))
<1>1. /\ history' = SubSeq(history, r, Len(history))
      /\ monitors' = [m \in Monitors |->
           IF monitors[m].at = "reading" /\ ~monitors[m].replaced
           THEN [monitors[m] EXCEPT !.own = history, !.replaced = TRUE]
           ELSE monitors[m]]
  BY DEF ReplaceHistory, Newest
<1>2. /\ history \in Seq(Byte) /\ sampled \in Nat /\ Len(history) \in Nat
      /\ FileOf(history, sampled) /\ monitors \in [Monitors -> Reader]
  BY HistoryTyped DEF HistoryInv, HistoryTypes
<1>3. /\ r \in 1..Len(history) /\ Len(history) - r + 1 <= HistoryMax
      /\ \A i \in Retained(history) : r <= i
  BY <1>2, RetainedIs
<1> HIDE DEF r
<1>4. FileOf(history', sampled) /\ Len(history') = Len(history) - r + 1
  BY <1>1, <1>2, <1>3, RestOfFile
<1>5. ASSUME NEW n \in Nat, LineAt(history, Len(history) - SampleBytes, n)
      PROVE  LineAt(history', Len(history') - SampleBytes, n)
  <2>1. r <= Len(history) - SampleBytes
    BY <1>2, <1>3, <1>5, OwnLineRetained
  <2>2. LineAt(SubSeq(history, r, Len(history)), Len(history) - r + 1 - SampleBytes, n)
    BY <1>2, <1>3, <1>5, <2>1, LastLineStays
  <2>3. history' = SubSeq(history, r, Len(history))
    BY <1>1
  <2>4. Len(history') = Len(history) - r + 1
    BY <1>4
  <2>5. LineAt(history', Len(history) - r + 1 - SampleBytes, n)
    BY <2>2, <2>3
  <2>6. Len(history') - SampleBytes = Len(history) - r + 1 - SampleBytes
    BY <2>4, <1>2, <1>3, Sizes
  <2> QED BY <2>5, <2>6
<1>6. ASSUME NEW m \in Monitors
      PROVE  /\ monitors'[m] \in Reader
             /\ monitors'[m].at = "reading" =>
                  FileOf(Opened(m)', sampled) /\ Reads(Opened(m)', monitors'[m])
  <2>1. monitors[m] \in Reader
    BY <1>2
  <2>2. CASE monitors[m].at = "reading" /\ ~monitors[m].replaced
    <3>1. monitors'[m] = [monitors[m] EXCEPT !.own = history, !.replaced = TRUE]
      BY <1>1, <2>2
    <3>2. /\ monitors'[m] \in Reader /\ monitors'[m].replaced /\ monitors'[m].own = history
          /\ monitors'[m].next = monitors[m].next /\ monitors'[m].answer = monitors[m].answer
          /\ monitors'[m].due = monitors[m].due
      BY <1>2, <2>1, <3>1 DEF Reader
    <3>3. Opened(m) = history /\ Opened(m)' = history
      BY <2>2, <3>2 DEF Opened
    <3>4. FileOf(history, sampled) /\ Reads(history, monitors[m])
      BY <2>2, <3>3 DEF HistoryInv, Readable
    <3>5. Reads(history, monitors'[m])
      BY <3>2, <3>4 DEF Reads
    <3> QED BY <3>2, <3>3, <3>4, <3>5
  <2>3. CASE ~(monitors[m].at = "reading" /\ ~monitors[m].replaced)
    <3>1. monitors'[m] = monitors[m]
      BY <1>1, <2>3
    <3>2. monitors[m].at = "reading" => Opened(m) = monitors[m].own /\ Opened(m)' = Opened(m)
      BY <2>3, <3>1 DEF Opened
    <3> QED BY <2>1, <3>1, <3>2 DEF HistoryInv, Readable
  <2> QED BY <2>2, <2>3
<1>7. monitors' \in [Monitors -> Reader]
  BY <1>1, <1>6
<1> QED BY <1>2, <1>3, <1>4, <1>5, <1>6, <1>7 DEF Readable

(* The trim fails before the rename: the file keeps the new line, glued to   *)
(* what was there or on its own.                                            *)
LEMMA TrimFailsStep ==
  ASSUME HistoryInv, tick.at = "trim", TrimFails, UNCHANGED <<published, sampled>>,
         UNCHANGED historyTroubles \/ Trouble
  PROVE  HistoryInv'
<1>1. /\ tick' = [tick EXCEPT !.at = "metrics"] /\ UNCHANGED <<history, monitors>>
      /\ whole' = IF OwnLine THEN sampled ELSE whole
      /\ historyTroubles' \in {historyTroubles, historyTroubles + 1}
      /\ historyTroubles' \in 0..MaxHistoryTroubles
  BY TroubleIs, HistoryTyped DEF TrimFails
<1>2. /\ tick.written = Size /\ Len(history) \in Nat /\ sampled > 0 /\ ~tick.appended
      /\ sampled \in Nat /\ history \in Seq(Byte)
      /\ tick \in [at: {"idle", "report", "append", "trim", "metrics"},
                   written: 0..Size, appended: BOOLEAN]
  BY HistoryTyped DEF HistoryInv, InTick, HistoryTypes
<1>3. /\ tick'.at = "metrics" /\ tick'.appended = tick.appended
      /\ tick' \in [at: {"idle", "report", "append", "trim", "metrics"},
                    written: 0..Size, appended: BOOLEAN]
  BY <1>1, <1>2
<1>4. /\ Before' = Len(history) /\ Before = Len(history) - Size /\ Before \in Nat
      /\ history[Len(history)] = NewLine
  BY <1>1, <1>2, <1>3, OwnLineIs, HistoryTyped DEF Before
<1>5. ~OwnLine => Glued
  BY <1>2, OwnLineIs
<1>6. ~Glued'
  BY <1>1, <1>4 DEF Glued
<1>7. ASSUME OwnLine PROVE WholeIsThere'
  <2>1. LineAt(history', Len(history') - SampleBytes, sampled)
    BY <1>1, <1>2, <1>7, OwnLineIs
  <2> QED BY <1>1, <1>2, <1>3, <1>7, <2>1, WholeAppended
<1>8. ASSUME ~OwnLine, Trouble PROVE WholeIsThere'
  <2>1. historyTroubles' = historyTroubles + 1 /\ historyTroubles < MaxHistoryTroubles
    BY <1>8 DEF Trouble
  <2> QED BY <1>1, <1>4, <1>8, <2>1, WholeLittered
<1>9. ASSUME ~OwnLine, UNCHANGED historyTroubles PROVE WholeIsThere'
  <2> SUFFICES ASSUME whole # 0
               PROVE  \E s \in 1..Len(history) :
                 /\ LineAt(history, s, whole) /\ s + SampleBytes <= Len(history)
                 /\ Len(history) - (s + SampleBytes) <= Litter(historyTroubles)
    <3>1. \A s \in 1..Len(history) : Len(history) - (s + SampleBytes) + 0 = Len(history) - (s + SampleBytes)
      BY <1>2, Sizes
    <3> QED BY <1>1, <1>4, <1>6, <1>9, <3>1 DEF WholeIsThere
  <2>1. PICK s \in 1..Len(history) :
          /\ LineAt(history, s, whole) /\ s + SampleBytes <= Before
          /\ Before - (s + SampleBytes) + Size <= Litter(historyTroubles)
    BY <1>5, <1>9 DEF HistoryInv, WholeIsThere
  <2>2. /\ s + SampleBytes <= Len(history)
        /\ Len(history) - (s + SampleBytes) = Before - (s + SampleBytes) + Size
    BY <1>2, <1>4, <2>1, Sizes
  <2> QED BY <2>1, <2>2
<1>10. WholeIsThere'
  BY <1>7, <1>8, <1>9
<1>11. Readable' /\ FileOf(history, sampled)'
  BY <1>1, <1>2, ReadersKeep
<1>12. HistoryTypes' /\ InTick' /\ NewestLast' /\ LineInProgress' /\ WithinLimit'
  BY <1>1, <1>2, <1>3
     DEF HistoryInv, HistoryTypes, InTick, NewestLast, LineInProgress, WithinLimit
<1> QED BY <1>10, <1>11, <1>12 DEF HistoryInv

(* trim_lines replaces the file by its newest lines, the new one among them *)
(* when it is a line of its own.                                            *)
LEMMA TrimStep == HistoryInv /\ Trim => HistoryInv'
<1> SUFFICES ASSUME HistoryInv, Trim PROVE HistoryInv'
  OBVIOUS
<1>1. tick.at = "trim" /\ UNCHANGED <<published, sampled, historyTroubles>>
  BY DEF Trim
<1>2. CASE ~Trimmable
  BY <1>1, <1>2, TrimFailsStep DEF Trim
<1>3. CASE Trimmable
  <2>1. /\ ReplaceHistory(Newest)
        /\ tick' = [tick EXCEPT !.at = "metrics", !.appended = TRUE]
        /\ whole' = IF OwnLine THEN sampled ELSE 0
    BY <1>3 DEF Trim, Appended
  <2>2. /\ tick.written = Size /\ sampled > 0 /\ sampled \in Nat
        /\ tick \in [at: {"idle", "report", "append", "trim", "metrics"},
                     written: 0..Size, appended: BOOLEAN]
    BY <1>1, HistoryTyped DEF HistoryInv, InTick, HistoryTypes
  <2>3. /\ tick'.at = "metrics"
        /\ tick' \in [at: {"idle", "report", "append", "trim", "metrics"},
                      written: 0..Size, appended: BOOLEAN]
    BY <2>1, <2>2
  <2>4. /\ FileOf(history, sampled)' /\ Readable' /\ monitors' \in [Monitors -> Reader]
        /\ Len(history') \in Nat /\ Len(history') <= HistoryMax
        /\ \A n \in Nat : LineAt(history, Len(history) - SampleBytes, n) =>
             LineAt(history', Len(history') - SampleBytes, n)
    BY <1>1, <1>3, <2>1, Replaced DEF Trimmable
  <2>5. WholeIsThere'
    <3>1. OwnLine => LineAt(history', Len(history') - SampleBytes, sampled)
      BY <1>1, <2>2, <2>4, OwnLineIs
    <3>2. history' \in Seq(Byte)
      BY <2>4 DEF FileOf
    <3> QED BY <1>1, <2>1, <2>3, <2>4, <3>1, <3>2, WholeAppended
  <2>6. HistoryTypes'
    BY <1>1, <2>1, <2>2, <2>3, <2>4 DEF HistoryInv, HistoryTypes
  <2>7. InTick' /\ NewestLast' /\ LineInProgress'
    BY <1>1, <2>2, <2>3 DEF InTick, NewestLast, LineInProgress
  <2>8. WithinLimit'
    BY <2>4 DEF WithinLimit
  <2> QED BY <2>4, <2>5, <2>6, <2>7, <2>8 DEF HistoryInv
<1> QED BY <1>2, <1>3

(* The trim fails, before or after the rename.                              *)
LEMMA TrimBreaksOffStep == HistoryInv /\ TrimBreaksOff => HistoryInv'
<1> SUFFICES ASSUME HistoryInv, TrimBreaksOff PROVE HistoryInv'
  OBVIOUS
<1>1. tick.at = "trim" /\ Trouble /\ UNCHANGED <<published, sampled>>
  BY DEF TrimBreaksOff
<1>2. CASE TrimFails
  BY <1>1, <1>2, TrimFailsStep
<1>3. ASSUME Trimmable, ReplaceHistory(Newest),
             tick' = [tick EXCEPT !.at = "metrics"], whole' = 0
      PROVE  HistoryInv'
  <2>1. /\ tick.written = Size /\ sampled > 0 /\ sampled \in Nat /\ ~tick.appended
        /\ tick \in [at: {"idle", "report", "append", "trim", "metrics"},
                     written: 0..Size, appended: BOOLEAN]
    BY <1>1, HistoryTyped DEF HistoryInv, InTick, HistoryTypes
  <2>2. /\ tick'.at = "metrics" /\ tick'.appended = tick.appended
        /\ tick' \in [at: {"idle", "report", "append", "trim", "metrics"},
                      written: 0..Size, appended: BOOLEAN]
    BY <1>3, <2>1
  <2>3. FileOf(history, sampled)' /\ Readable' /\ monitors' \in [Monitors -> Reader]
    BY <1>1, <1>3, Replaced DEF Trimmable
  <2>4. HistoryTypes'
    BY <1>1, <1>3, <2>1, <2>2, <2>3, TroubleIs DEF HistoryInv, HistoryTypes
  <2>5. InTick' /\ NewestLast' /\ LineInProgress' /\ WholeIsThere' /\ WithinLimit'
    BY <1>1, <1>3, <2>1, <2>2 DEF InTick, NewestLast, LineInProgress, WholeIsThere, WithinLimit
  <2> QED BY <2>3, <2>4, <2>5 DEF HistoryInv
<1> QED BY <1>2, <1>3 DEF TrimBreaksOff

(* A reader moves, and the others keep what they had.                       *)
LEMMA ReaderMoves ==
  ASSUME HistoryInv, NEW m \in Monitors, NEW v \in Reader,
         monitors' = [monitors EXCEPT ![m] = v],
         UNCHANGED <<history, published, tick, sampled, whole, historyTroubles>>,
         v.at = "reading" =>
           LET file == IF v.replaced THEN v.own ELSE history
           IN  FileOf(file, sampled) /\ Reads(file, v)
  PROVE  HistoryInv'
<1>1. /\ monitors' \in [Monitors -> Reader] /\ monitors'[m] = v
      /\ \A o \in Monitors \ {m} : monitors'[o] = monitors[o]
  BY DEF HistoryInv, HistoryTypes
<1>2. Before' = Before /\ (Glued' <=> Glued)
  BY DEF Before, Glued
<1>3. HistoryTypes' /\ InTick' /\ FileOf(history, sampled)' /\ NewestLast' /\ LineInProgress'
      /\ WithinLimit' /\ WholeIsThere'
  BY <1>1, <1>2 DEF HistoryInv, HistoryTypes, InTick, NewestLast, LineInProgress, WithinLimit,
                    WholeIsThere
<1>4. Readable'
  <2> SUFFICES ASSUME NEW o \in Monitors, monitors'[o].at = "reading"
               PROVE  FileOf(Opened(o)', sampled) /\ Reads(Opened(o)', monitors'[o])
    BY DEF Readable
  <2>1. CASE o = m
    BY <1>1, <2>1 DEF Opened
  <2>2. CASE o # m
    <3>1. monitors'[o] = monitors[o] /\ Opened(o)' = Opened(o)
      BY <1>1, <2>2 DEF Opened
    <3> QED BY <3>1 DEF HistoryInv, Readable
  <2> QED BY <2>1, <2>2
<1> QED BY <1>3, <1>4 DEF HistoryInv

(* A reader at rest.                                                        *)
LEMMA IdleReader == IdleMonitor \in Reader /\ IdleMonitor.at = "idle"
<1>1. <<>> \in Seq(Byte) /\ <<>> \in Seq(Nat)
  OBVIOUS
<1> QED BY <1>1 DEF IdleMonitor, Reader

(* What is due to a reader that opens the history lies before it.          *)
LEMMA OpenStep ==
  ASSUME HistoryInv, NEW m \in Monitors, OpenHistory(m)
  PROVE  HistoryInv'
<1> DEFINE l == Len(history)
           next == IF l > HistoryTail THEN LineEnd(history, l - HistoryTail + 1) + 1 ELSE 1
           v == [IdleMonitor EXCEPT !.at = "reading", !.next = next, !.due = whole]
<1>1. /\ monitors' = [monitors EXCEPT ![m] = v]
      /\ UNCHANGED <<history, published, tick, sampled, whole, historyTroubles>>
  BY DEF OpenHistory, Sought
<1>2. /\ history \in Seq(Byte) /\ l \in Nat /\ sampled \in Nat /\ whole \in 0..sampled
      /\ Before \in Nat /\ Before <= l /\ l <= Before + Size
  BY HistoryTyped, Sizes
<1>3. /\ next \in 1..l + 1 /\ next \in Nat
      /\ l <= HistoryTail => next = 1
      /\ \A i \in (l - HistoryTail + 1)..l : l > HistoryTail /\ history[i] = NewLine => next <= i + 1
  <2>1. CASE l > HistoryTail
    <3>1. l - HistoryTail + 1 \in 1..l
      <4>1. HistoryTail > 0
        <5>1. Litter(historyTroubles) \in Nat /\ Litter(historyTroubles) + 2 * Size < HistoryTail
          BY HistoryTyped, Litters
        <5> QED BY <5>1, Sizes
      <4> QED BY <4>1, <2>1, <1>2, Sizes
    <3>2. /\ LineEnd(history, l - HistoryTail + 1) \in (l - HistoryTail + 1)..l
          /\ \A i \in (l - HistoryTail + 1)..l :
               history[i] = NewLine => LineEnd(history, l - HistoryTail + 1) <= i
      BY <1>2, <3>1, LineEndIs
    <3> QED BY <2>1, <1>2, <3>1, <3>2, Sizes
  <2>2. CASE ~(l > HistoryTail)
    BY <2>2, <1>2, Sizes
  <2> QED BY <2>1, <2>2
<1> HIDE DEF next, l
<1>4. /\ v \in Reader /\ v.at = "reading" /\ ~v.replaced
      /\ v.next = next /\ v.due = whole /\ v.answer = <<>>
  <2>1. whole \in Nat
    BY <1>2
  <2>2. v \in Reader /\ v.at = "reading"
    BY <2>1, <1>3, IdleReader DEF Reader
  <2>3. ~v.replaced /\ v.next = next /\ v.due = whole /\ v.answer = <<>>
    BY DEF IdleMonitor
  <2> QED BY <2>2, <2>3
<1>5. ASSUME whole # 0 PROVE \E s \in next..l : LineAt(history, s, whole)
  <2>1. PICK s \in 1..l :
          /\ LineAt(history, s, whole) /\ s + SampleBytes <= Before
          /\ Before - (s + SampleBytes) + (IF Glued THEN Size ELSE 0) <= Litter(historyTroubles)
    BY <1>5 DEF HistoryInv, WholeIsThere, l
  <2>2. Litter(historyTroubles) \in Nat /\ Litter(historyTroubles) + 2 * Size < HistoryTail
    BY HistoryTyped, Litters
  <2>3. Before - (s + SampleBytes) <= Litter(historyTroubles)
    <3>1. (IF Glued THEN Size ELSE 0) \in Nat
      BY Sizes
    <3>2. Before - (s + SampleBytes) \in Int
      BY <1>2, <2>1, Sizes
    <3> QED BY <2>1, <2>2, <3>1, <3>2
  <2>4. l - s + 2 <= HistoryTail
    BY <1>2, <2>2, <2>3, Sizes
  <2>5. next <= s
    <3>1. CASE l <= HistoryTail
      BY <3>1, <1>3, <2>1
    <3>2. CASE l > HistoryTail
      <4>1. s - 1 \in (l - HistoryTail + 1)..l /\ s # 1 /\ (s - 1) + 1 = s
        BY <1>2, <2>4, <3>2, Sizes
      <4>2. history[s - 1] = NewLine
        BY <4>1, <2>1 DEF LineAt, LineStarts
      <4>3. next <= (s - 1) + 1
        BY <1>3, <3>2, <4>1, <4>2
      <4> QED BY <4>1, <4>3
    <3> QED BY <1>2, <3>1, <3>2, Sizes
  <2>6. s \in next..l
    BY <1>2, <1>3, <2>5
  <2> QED BY <2>1, <2>6
<1>6. Reads(history, v)
  <2>1. Len(v.answer) = 0 /\ v.next = next /\ v.due = whole
    BY <1>4
  <2>2. 1..Len(v.answer) = {}
    BY <2>1
  <2> QED BY <1>3, <1>5, <2>1, <2>2 DEF Reads, l
<1> HIDE DEF v
<1> QED BY <1>1, <1>4, <1>6, ReaderMoves DEF HistoryInv

(* A reader takes the next line of the file it has open.                    *)
LEMMA ReadLineStep ==
  ASSUME HistoryInv, NEW m \in Monitors, ReadLine(m)
  PROVE  HistoryInv'
<1> DEFINE r == monitors[m]
           file == Opened(m)
           end == LineEnd(file, r.next)
           found == Decoded(SubSeq(file, r.next, end))
           read == IF found = {} THEN <<>> ELSE <<CHOOSE n \in found : TRUE>>
           v == [r EXCEPT !.next = end + 1, !.answer = @ \o read]
<1>1. /\ r.at = "reading" /\ r.next <= Len(file)
      /\ monitors' = [monitors EXCEPT ![m].next = end + 1, ![m].answer = @ \o read]
      /\ UNCHANGED <<history, published, tick, sampled, whole, historyTroubles>>
  BY DEF ReadLine
<1>2. r \in Reader /\ monitors \in [Monitors -> Reader] /\ sampled \in Nat
  BY HistoryTyped DEF HistoryInv, HistoryTypes
<1>3. FileOf(file, sampled) /\ Reads(file, r)
  BY <1>1 DEF HistoryInv, Readable
<1>4. file \in Seq(Byte) /\ r.next \in 1..Len(file) /\ Len(file) \in Nat
  BY <1>1, <1>2, <1>3 DEF FileOf, Reads
<1>5. end \in r.next..Len(file)
  BY <1>4, LineEndIs
<1>6. read \in Seq(Nat)
  <2>1. \A n \in found : n \in 1..sampled
    BY DEF Decoded
  <2>2. found \subseteq Nat
    BY <2>1, <1>2
  <2> HIDE DEF found
  <2>3. CASE found = {}
    BY <2>3
  <2>4. CASE found # {}
    <3>1. (CHOOSE n \in found : TRUE) \in Nat
      BY <2>2, <2>4
    <3> QED BY <2>4, <3>1
  <2> QED BY <2>3, <2>4
<1> HIDE DEF read, end
<1>7. monitors' = [monitors EXCEPT ![m] = v]
  BY <1>1, <1>2
<1>8. v \in Reader
  <2>1. r.answer \o read \in Seq(Nat) /\ end + 1 \in Nat
    BY <1>2, <1>4, <1>5, <1>6 DEF Reader
  <2> QED BY <1>2, <2>1 DEF Reader
<1>9. /\ v.next = end + 1 /\ v.answer = r.answer \o read /\ v.due = r.due
      /\ v.at = "reading" /\ v.own = r.own /\ v.replaced = r.replaced
  BY <1>1, <1>2 DEF Reader
<1>10. Reads(file, v)
  <2> HIDE DEF v
  <2> QED BY <1>1, <1>2, <1>3, <1>8, <1>9, ReadsTheNext DEF read, end, found
<1>11. file = IF v.replaced THEN v.own ELSE history
  BY <1>9 DEF Opened
<1> HIDE DEF v, file
<1> QED BY <1>1, <1>3, <1>7, <1>8, <1>10, <1>11, ReaderMoves

(* A reader that is at its end is done, and one that a line fails.          *)
LEMMA EndStep ==
  ASSUME HistoryInv, NEW m \in Monitors, EndOfHistory(m) \/ LineTooLong(m)
  PROVE  HistoryInv'
<1>1. /\ monitors' = [monitors EXCEPT ![m] = IdleMonitor]
      /\ UNCHANGED <<history, published, tick, sampled, whole, historyTroubles>>
  BY DEF EndOfHistory, LineTooLong
<1> QED BY <1>1, IdleReader, ReaderMoves

(* The history starts with whole lines.                                     *)
LEMMA HistoryStarts == HistoryInit => HistoryInv
<1> SUFFICES ASSUME HistoryInit PROVE HistoryInv
  OBVIOUS
<1>1. /\ history = Lines(EarlierSamples) /\ sampled = EarlierSamples /\ whole = EarlierSamples
      /\ published = [f \in {"report", "metrics"} |-> EarlierSamples]
      /\ tick = [at |-> "idle", written |-> 0, appended |-> FALSE]
      /\ historyTroubles = 0 /\ monitors = [m \in Monitors |-> IdleMonitor]
  BY DEF HistoryInit, IdleTick
<1>2. EarlierSamples \in 0..MaxSamples /\ EarlierSamples \in Nat /\ MaxHistoryTroubles \in Nat
  BY HistoryAssumption DEF HistoryAssumption
<1>3. /\ FileOf(history, sampled) /\ Len(history) \in Nat
      /\ whole # 0 => LineAt(history, Len(history) - SampleBytes, whole)
  <2>1. /\ FileOf(Lines(EarlierSamples), EarlierSamples)
        /\ EarlierSamples # 0 =>
             LineAt(Lines(EarlierSamples), Len(Lines(EarlierSamples)) - SampleBytes, EarlierSamples)
    BY <1>2, LinesAre
  <2>2. Len(Lines(EarlierSamples)) \in Nat
    BY <2>1 DEF FileOf
  <2> QED BY <1>1, <2>1, <2>2
<1>4. monitors \in [Monitors -> Reader] /\ \A m \in Monitors : monitors[m].at = "idle"
  BY <1>1, IdleReader
<1>5. HistoryTypes
  BY <1>1, <1>2, <1>4, Sizes DEF HistoryTypes
<1>6. InTick /\ NewestLast /\ LineInProgress /\ WithinLimit
  BY <1>1 DEF InTick, NewestLast, LineInProgress, WithinLimit
<1>7. Readable
  BY <1>4 DEF Readable
<1>8. WholeIsThere
  <2> SUFFICES ASSUME whole # 0
               PROVE  \E s \in 1..Len(history) :
                 /\ LineAt(history, s, whole) /\ s + SampleBytes <= Before
                 /\ Before - (s + SampleBytes) + (IF Glued THEN Size ELSE 0)
                      <= Litter(historyTroubles)
    BY DEF WholeIsThere
  <2> DEFINE s == Len(history) - SampleBytes
  <2>1. LineAt(history, s, whole)
    BY <1>3
  <2>2. s \in 1..Len(history) /\ s + SampleBytes = Len(history)
    BY <1>3, <2>1, Sizes DEF LineAt, LineStarts
  <2>3. Before = Len(history)
    BY <1>1, <1>3 DEF Before
  <2>4. ~Glued
    <3>1. history[Len(history)] = NewLine
      BY <2>1, <2>2 DEF LineAt
    <3> QED BY <2>3, <3>1 DEF Glued
  <2>5. Litter(historyTroubles) \in Nat
    BY <1>1, <1>2, Litters
  <2> HIDE DEF s
  <2>6. Before - (s + SampleBytes) + (IF Glued THEN Size ELSE 0) <= Litter(historyTroubles)
    BY <1>3, <2>2, <2>3, <2>4, <2>5
  <2> QED BY <2>1, <2>2, <2>3, <2>6, <1>3
<1> QED BY <1>3, <1>5, <1>6, <1>7, <1>8 DEF HistoryInv

(* Every step of the daemon and of the readers keeps the invariant.         *)
LEMMA HistoryStep == HistoryInv /\ [HistoryNext]_historyVars => HistoryInv'
<1> SUFFICES ASSUME HistoryInv, [HistoryNext]_historyVars PROVE HistoryInv'
  OBVIOUS
<1>1. CASE Observe BY <1>1, ObserveStep
<1>2. CASE Publish("report", "append") BY <1>2, PublishStep
<1>3. CASE Publish("metrics", "idle") BY <1>3, PublishStep
<1>4. CASE AppendByte BY <1>4, AppendByteStep
<1>5. CASE Written BY <1>5, WrittenStep
<1>6. CASE Trim BY <1>6, TrimStep
<1>7. CASE TrimBreaksOff BY <1>7, TrimBreaksOffStep
<1>8. CASE AppendFails BY <1>8, BrokenOff DEF AppendFails
<1>9. CASE DaemonDies BY <1>9, BrokenOff DEF DaemonDies
<1>10. ASSUME NEW m \in Monitors, OpenHistory(m) \/ ReadLine(m) \/ LineTooLong(m)
                                \/ EndOfHistory(m)
       PROVE  HistoryInv'
  BY <1>10, OpenStep, ReadLineStep, EndStep
<1>11. CASE UNCHANGED historyVars
  <2>1. UNCHANGED <<history, published, tick, sampled, monitors, whole, historyTroubles>>
    BY <1>11 DEF historyVars
  <2>2. Before' = Before /\ (Glued' <=> Glued) /\ (\A m \in Monitors : Opened(m)' = Opened(m))
    BY <2>1 DEF Before, Glued, Opened
  <2> QED BY <2>1, <2>2 DEF HistoryInv, HistoryTypes, InTick, NewestLast, LineInProgress,
                            WithinLimit, WholeIsThere, Readable
<1> QED BY <1>1, <1>2, <1>3, <1>4, <1>5, <1>6, <1>7, <1>8, <1>9, <1>10, <1>11 DEF HistoryNext

(* The daemon's tick (persist_tick), what breaks it off and the readers     *)
(* keep the invariant.                                                      *)
THEOREM HistoryInvariant == HistorySpec => []HistoryInv
BY HistoryStarts, HistoryStep, PTL DEF HistorySpec

(* A reader of the history (read_samples) answers in order, none twice, and *)
(* with the newest sample that append_sample had put on a line of its own   *)
(* when it opened the file; an append that reports success leaves the file  *)
(* within HISTORY_MAX.                                                      *)
THEOREM HistoryIsServed == HistorySpec => []HistoryServed
<1>1. HistoryInv => HistoryServed
  <2> SUFFICES ASSUME HistoryInv PROVE AnswersInOrder /\ WithinLimit
    BY DEF HistoryServed
  <2>1. ASSUME NEW m \in Monitors, AtHistoryEnd(m)
        PROVE  /\ \A i, j \in 1..Len(monitors[m].answer) :
                    i < j => monitors[m].answer[i] < monitors[m].answer[j]
               /\ monitors[m].due # 0 =>
                    \E i \in 1..Len(monitors[m].answer) : monitors[m].answer[i] = monitors[m].due
    <3>1. FileOf(Opened(m), sampled) /\ Reads(Opened(m), monitors[m])
          /\ monitors[m] \in Reader /\ monitors[m].next > Len(Opened(m))
      BY <2>1 DEF AtHistoryEnd, HistoryInv, Readable, HistoryTypes
    <3>2. Opened(m) \in Seq(Byte)
      BY <3>1 DEF FileOf
    <3> QED BY <3>1, <3>2, ReadsToTheEnd
  <2> QED BY <2>1 DEF HistoryInv, AnswersInOrder
<1> QED BY <1>1, HistoryInvariant, PTL

(* The history holds bytes of samples and new lines, and the tick, the      *)
(* published files and the readers keep their types.                        *)
THEOREM HistoryTypeInvariant == HistorySpec => []HistoryTypeOK
<1>1. HistoryInv => HistoryTypeOK
  <2> SUFFICES ASSUME HistoryInv PROVE HistoryTypeOK
    OBVIOUS
  <2>1. \A m \in Monitors : monitors[m].at \in {"idle", "reading"}
    BY DEF HistoryInv, HistoryTypes, Reader
  <2> QED BY <2>1 DEF HistoryInv, HistoryTypes, FileOf, HistoryTypeOK, Size
<1> QED BY <1>1, HistoryInvariant, PTL
=============================================================================
