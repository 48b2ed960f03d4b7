--------------------------- MODULE ReportHistory ---------------------------
(***************************************************************************)
(* What the root daemon persists at every tick (host/commands/daemon.rs,   *)
(* persist_tick): the report, one sample appended to the history, the      *)
(* metrics; and the readers of the history (the `monitor` verb, the API's  *)
(* samples), which share no lock with it.                                  *)
(*                                                                         *)
(* The history is one file of bytes.  A sample is SampleBytes bytes and a  *)
(* new line; an append that fails or dies leaves the first bytes of its    *)
(* line, and the next line is glued to them.  A file over the limit is     *)
(* replaced by its newest lines: a reader keeps the file it opened.        *)
(***************************************************************************)
EXTENDS Naturals, Sequences, FiniteSets, SequencesExt

CONSTANTS
  Monitors,           \* readers of the history
  SampleBytes,        \* of a sample without its new line
  HistoryMax,         \* bytes over which the history is trimmed
  HistoryTail,        \* bytes a reader looks back
  HistoryKeep,        \* lines a trim keeps at most
  RecordMax,          \* bytes of the longest line that next_line takes
  EarlierSamples,     \* in the history at the beginning
  MaxSamples,         \* bound on the ticks
  MaxHistoryTroubles  \* bound on failed writes and deaths

ASSUME HistoryAssumption ==
  /\ SampleBytes \in Nat \ {0} /\ HistoryKeep \in Nat \ {0}
  /\ MaxSamples \in Nat /\ MaxHistoryTroubles \in Nat /\ EarlierSamples \in 0..MaxSamples
  /\ HistoryMax \in Nat /\ HistoryMax > SampleBytes /\ HistoryTail \in Nat
  /\ RecordMax \in Nat /\ RecordMax > SampleBytes
  \* A reader looks back over two lines for each trouble, and two more.
  /\ HistoryTail > 2 * (MaxHistoryTroubles + 1) * (SampleBytes + 1)

VARIABLES
  history,          \* the bytes under the history's name
  published,        \* the samples that report.json and metrics.json hold; 0 before the first
  tick,             \* the daemon: its step, the bytes of its line written, the append's outcome
  sampled,          \* ticks so far; the number of the newest sample
  monitors,         \* of each reader: its step, file, next byte and answer
  whole,            \* ghost: the newest sample with a line of its own; 0 when it may be trimmed
  historyTroubles

historyVars == <<history, published, tick, sampled, monitors, whole, historyTroubles>>

NewLine == <<0, 0>>
LineOf(n) == Append([k \in 1..SampleBytes |-> <<n, k>>], NewLine)

(* The lines of the samples up to n.                                       *)
Lines(n) == LET size == SampleBytes + 1
            IN  [i \in 1..n * size |-> LineOf((i - 1) \div size + 1)[((i - 1) % size) + 1]]

(* next_line: the last byte of the line that begins at a byte.             *)
LineEnd(file, at) == Min({i \in at..Len(file) : file[i] = NewLine} \cup {Len(file)})

(* The line that begins at a byte is an error of next_line.                 *)
Overlong(file, at) == LineEnd(file, at) + 1 - at > RecordMax

LineStarts(file) == {i \in 1..Len(file) : i = 1 \/ file[i - 1] = NewLine}

(* The samples a line parses as: one, or none when it is torn or glued.    *)
Decoded(line) ==
  {n \in 1..sampled : line \in {LineOf(n), SubSeq(LineOf(n), 1, SampleBytes)}}

IdleMonitor == [at |-> "idle", own |-> <<>>, replaced |-> FALSE, next |-> 1, answer |-> <<>>,
                due |-> 0]
IdleTick == [at |-> "idle", written |-> 0, appended |-> FALSE]

HistoryInit ==
  /\ history = Lines(EarlierSamples)
  /\ published = [f \in {"report", "metrics"} |-> EarlierSamples]
  /\ tick = IdleTick /\ historyTroubles = 0
  /\ sampled = EarlierSamples /\ whole = EarlierSamples
  /\ monitors = [m \in Monitors |-> IdleMonitor]

Trouble ==
  /\ historyTroubles < MaxHistoryTroubles
  /\ historyTroubles' = historyTroubles + 1
-----------------------------------------------------------------------------
Observe ==
  /\ tick.at = "idle" /\ sampled < MaxSamples
  /\ sampled' = sampled + 1
  /\ tick' = [IdleTick EXCEPT !.at = "report"]
  /\ UNCHANGED <<history, published, monitors, whole, historyTroubles>>

(* write_report and write_metrics replace the file or fail; a failure after *)
(* the rename has replaced it, and the tick goes on after either.          *)
Publish(f, after) ==
  /\ tick.at = f
  /\ \/ published' = [published EXCEPT ![f] = sampled] /\ UNCHANGED historyTroubles
     \/ Trouble /\ published' \in {published, [published EXCEPT ![f] = sampled]}
  /\ tick' = [tick EXCEPT !.at = after]
  /\ UNCHANGED <<history, sampled, monitors, whole>>

AppendByte ==
  /\ tick.at = "append" /\ tick.written <= SampleBytes
  /\ history' = Append(history, LineOf(sampled)[tick.written + 1])
  /\ tick' = [tick EXCEPT !.written = @ + 1]
  /\ UNCHANGED <<published, sampled, monitors, whole, historyTroubles>>

(* The newest line holds its own sample alone.                             *)
OwnLine == Len(history) - SampleBytes \in LineStarts(history)

Appended(step) ==
  /\ tick' = [tick EXCEPT !.at = step, !.appended = TRUE]
  /\ whole' = IF OwnLine THEN sampled ELSE 0

(* append_sample after write_all: the size decides on the trim.            *)
Written ==
  /\ tick.at = "append" /\ tick.written > SampleBytes
  /\ IF Len(history) > HistoryMax
     THEN tick' = [tick EXCEPT !.at = "trim"] /\ UNCHANGED whole
     ELSE Appended("metrics")
  /\ UNCHANGED <<history, published, sampled, monitors, historyTroubles>>

(* The newest lines that begin within the last max / 2 bytes, or within the *)
(* length of the new line when that is more.                               *)
InWindow(file) ==
  {i \in LineStarts(file) : i > Len(file) - Max({HistoryMax \div 2, SampleBytes + 1})}

Retained(file) ==
  {i \in InWindow(file) : Cardinality({j \in InWindow(file) : j >= i}) <= HistoryKeep}

(* Bug: the file is rewritten under its readers. *)
RewriteHistory(file) == history' = file /\ UNCHANGED monitors

(* A rename: whoever has the old file open reads on in it.                 *)
ReplaceHistory(file) ==
  /\ history' = file
  /\ monitors' = [m \in Monitors |->
       IF monitors[m].at = "reading" /\ ~monitors[m].replaced
       THEN [monitors[m] EXCEPT !.own = history, !.replaced = TRUE]
       ELSE monitors[m]]

Newest == SubSeq(history, Min(Retained(history)), Len(history))

(* trim_lines: no line begins in the window when the newest is glued to a   *)
(* long part, or one that does is too long for next_line; that is an error  *)
(* of the append, as is a failed replacement.  The new line stays.          *)
Trimmable ==
  Retained(history) # {} /\ \A i \in InWindow(history) : ~Overlong(history, i)

TrimFails ==
  /\ tick' = [tick EXCEPT !.at = "metrics"]
  /\ whole' = IF OwnLine THEN sampled ELSE whole
  /\ UNCHANGED <<history, monitors>>

Trim ==
  /\ tick.at = "trim"
  /\ IF Trimmable THEN ReplaceHistory(Newest) /\ Appended("metrics") ELSE TrimFails
  /\ UNCHANGED <<published, sampled, historyTroubles>>

(* The replacement fails before or after the rename.                       *)
TrimBreaksOff ==
  /\ tick.at = "trim" /\ Trouble
  /\ \/ TrimFails
     \/ /\ Trimmable /\ ReplaceHistory(Newest)
        /\ tick' = [tick EXCEPT !.at = "metrics"] /\ whole' = 0
  /\ UNCHANGED <<published, sampled>>

(* The disk is full: the bytes written so far stay.                        *)
AppendFails ==
  /\ tick.at = "append" /\ Trouble
  /\ tick' = [tick EXCEPT !.at = "metrics"]
  /\ UNCHANGED <<history, published, sampled, monitors, whole>>

DaemonDies ==
  /\ tick.at # "idle" /\ Trouble
  /\ tick' = IdleTick
  /\ UNCHANGED <<history, published, sampled, monitors, whole>>
-----------------------------------------------------------------------------
Opened(m) == IF monitors[m].replaced THEN monitors[m].own ELSE history

(* read_samples looks back HistoryTail bytes and drops the line it lands in, *)
(* which must not be too long for next_line either.                        *)
Sought == Len(history) - HistoryTail + 1

OpenHistory(m) ==
  /\ monitors[m].at = "idle"
  /\ Len(history) > HistoryTail => ~Overlong(history, Sought)
  /\ monitors' = [monitors EXCEPT ![m] =
       [IdleMonitor EXCEPT
          !.at = "reading",
          !.next = IF Len(history) > HistoryTail
                   THEN LineEnd(history, Sought) + 1
                   ELSE 1,
          !.due = whole]]
  /\ UNCHANGED <<history, published, tick, sampled, whole, historyTroubles>>

(* The next line, or what of it is there; what does not parse is skipped.   *)
ReadLine(m) ==
  LET file == Opened(m)
      end == LineEnd(file, monitors[m].next)
      found == Decoded(SubSeq(file, monitors[m].next, end))
  IN  /\ monitors[m].at = "reading" /\ monitors[m].next <= Len(file)
      /\ ~Overlong(file, monitors[m].next)
      /\ monitors' = [monitors EXCEPT
           ![m].next = end + 1,
           ![m].answer = @ \o (IF found = {} THEN <<>> ELSE <<CHOOSE n \in found : TRUE>>)]
      /\ UNCHANGED <<history, published, tick, sampled, whole, historyTroubles>>

(* A line too long for next_line ends the reader with an error.             *)
LineTooLong(m) ==
  /\ monitors[m].at = "reading" /\ monitors[m].next <= Len(Opened(m))
  /\ Overlong(Opened(m), monitors[m].next)
  /\ monitors' = [monitors EXCEPT ![m] = IdleMonitor]
  /\ UNCHANGED <<history, published, tick, sampled, whole, historyTroubles>>

AtHistoryEnd(m) == monitors[m].at = "reading" /\ monitors[m].next > Len(Opened(m))

EndOfHistory(m) ==
  /\ AtHistoryEnd(m)
  /\ monitors' = [monitors EXCEPT ![m] = IdleMonitor]
  /\ UNCHANGED <<history, published, tick, sampled, whole, historyTroubles>>

HistoryNext ==
  \/ Observe \/ Publish("report", "append") \/ AppendByte \/ Written \/ Trim \/ TrimBreaksOff
  \/ Publish("metrics", "idle") \/ AppendFails \/ DaemonDies
  \/ \E m \in Monitors : OpenHistory(m) \/ ReadLine(m) \/ LineTooLong(m) \/ EndOfHistory(m)

HistorySpec == HistoryInit /\ [][HistoryNext]_historyVars
-----------------------------------------------------------------------------
HistoryTypeOK ==
  /\ \A i \in 1..Len(history) :
       history[i] = NewLine \/ history[i] \in (1..sampled) \X (1..SampleBytes)
  /\ published \in [{"report", "metrics"} -> 0..sampled]
  /\ tick.at \in {"idle", "report", "append", "trim", "metrics"}
  /\ tick.written \in 0..SampleBytes + 1 /\ tick.appended \in BOOLEAN
  /\ sampled \in 0..MaxSamples /\ whole \in 0..sampled
  /\ historyTroubles \in 0..MaxHistoryTroubles
  /\ \A m \in Monitors : monitors[m].at \in {"idle", "reading"}

(* A reader that comes to its end has samples in their order, none twice, and *)
(* the newest one that was appended when it opened the history, although     *)
(* appends, torn lines, failed and successful replacements overlap with it;  *)
(* only a sample glued to a torn line is lost.                               *)
AnswersInOrder ==
  \A m \in Monitors : AtHistoryEnd(m) =>
    /\ \A i, j \in 1..Len(monitors[m].answer) :
         i < j => monitors[m].answer[i] < monitors[m].answer[j]
    /\ monitors[m].due # 0 =>
         \E i \in 1..Len(monitors[m].answer) : monitors[m].answer[i] = monitors[m].due

(* After an append that reported success the file is within its limit.      *)
WithinLimit == tick.at = "metrics" /\ tick.appended => Len(history) <= HistoryMax

(* What the history promises to the daemon and to its readers.             *)
HistoryServed == AnswersInOrder /\ WithinLimit
=============================================================================
