--------------------------- MODULE BoundedProcess ---------------------------
(***************************************************************************)
(* One bounded child process: src/process.rs, which every docker, openssl, *)
(* exporter and task process of the host goes through.                     *)
(*                                                                         *)
(* The child leads a process group of its own and may leave descendants in *)
(* it that keep its pipes open.  The owner drains both pipes until every   *)
(* holder has closed them, and only then reaps the leader: while the       *)
(* leader is not reaped its number cannot be given to another group, so    *)
(* that the kill of an error or a deadline reaches this group and no other.*)
(***************************************************************************)
EXTENDS Naturals

CONSTANTS PipeSize,   \* what a pipe holds before its writer blocks
          MaxWritten, \* bound on what the group writes to its output
          Maximum     \* the output a caller accepts

ASSUME ProcessAssumption == PipeSize \in Nat \ {0} /\ MaxWritten \in Nat /\ Maximum \in Nat

Pipes == {"stdout", "stderr"}
Members == {"leader", "descendant"}

VARIABLES owner,    \* where the owning thread is
          outcome,  \* what its call returns
          life,     \* of each member: absent, running, zombie or reaped
          grouped,  \* the descendant has not left the group
          holds,    \* the pipes each member has open
          buffered, \* what each pipe holds
          written,  \* what was written to stdout so far
          output,   \* what the owner has of it
          closed,   \* the pipes the owner has seen the end of
          streaming, \* the output is passed on: only its tail is kept
          stopped,  \* the deadline has passed, or the caller cancelled
          struck    \* whom the kill of the group reached

processVars == <<owner, outcome, life, grouped, holds, buffered, written,
                 output, closed, streaming, stopped, struck>>

(***************************************************************************)
(* The group.                                                              *)
(***************************************************************************)
Runs(m) == life[m] = "running"

InGroup(m) == m = "leader" \/ grouped

(* The group's number is taken while the leader is not reaped or a member
   runs; afterwards the system may give it to anybody. *)
GroupExists == life["leader"] \in {"running", "zombie"} \/ (Runs("descendant") /\ grouped)

WritePipe(m, pipe) ==
    /\ Runs(m) /\ pipe \in holds[m] /\ buffered[pipe] < PipeSize
    /\ pipe = "stdout" => written < MaxWritten
    /\ buffered' = [buffered EXCEPT ![pipe] = @ + 1]
    /\ written' = IF pipe = "stdout" THEN written + 1 ELSE written
    /\ UNCHANGED <<owner, outcome, life, grouped, holds, output, closed,
                   streaming, stopped, struck>>

ClosePipe(m, pipe) ==
    /\ Runs(m) /\ pipe \in holds[m]
    /\ holds' = [holds EXCEPT ![m] = @ \ {pipe}]
    /\ UNCHANGED <<owner, outcome, life, grouped, buffered, written, output,
                   closed, streaming, stopped, struck>>

Fork ==
    /\ Runs("leader") /\ life["descendant"] = "absent"
    /\ life' = [life EXCEPT !["descendant"] = "running"]
    /\ holds' = [holds EXCEPT !["descendant"] = holds["leader"]]
    /\ UNCHANGED <<owner, outcome, grouped, buffered, written, output,
                   closed, streaming, stopped, struck>>

LeaveGroup ==
    /\ Runs("descendant") /\ grouped
    /\ grouped' = FALSE
    /\ UNCHANGED <<owner, outcome, life, holds, buffered, written, output,
                   closed, streaming, stopped, struck>>

(* The end of the members of S: the leader waits to be reaped by the owner,
   a descendant by the system. *)
Ended(S) ==
    [m \in Members |-> IF m \notin S \/ ~Runs(m) THEN life[m]
                       ELSE IF m = "leader" THEN "zombie" ELSE "reaped"]

Released(S) == [m \in Members |-> IF m \in S THEN {} ELSE holds[m]]

Exit(m) ==
    /\ Runs(m)
    /\ life' = Ended({m}) /\ holds' = Released({m})
    /\ UNCHANGED <<owner, outcome, grouped, buffered, written, output,
                   closed, streaming, stopped, struck>>

(***************************************************************************)
(* The owner.                                                              *)
(***************************************************************************)
Fail == owner' = "dropping" /\ outcome' = "failed"

(* The top of the loop: a call that was cancelled or is late fails. *)
CheckDeadline ==
    /\ owner = "check"
    /\ IF stopped THEN Fail ELSE owner' = "stdout" /\ UNCHANGED outcome
    /\ UNCHANGED <<life, grouped, holds, buffered, written, output, closed,
                   streaming, stopped, struck>>

AtEnd(pipe) == \A m \in Members : pipe \notin holds[m]

(* drain: what the pipe holds, or a part of it when there is much; a pipe is
   closed when it is empty and nobody has it open. *)
Drain(pipe, next) ==
    /\ owner = pipe
    /\ \E n \in 0..buffered[pipe] :
         /\ n = buffered[pipe] \/ n > 0
         /\ buffered' = [buffered EXCEPT ![pipe] = @ - n]
         /\ closed' = IF n = buffered[pipe] /\ AtEnd(pipe)
                      THEN closed \cup {pipe} ELSE closed
         /\ output' = IF pipe = "stdout" THEN output + n ELSE output
    /\ IF output' > Maximum /\ ~streaming THEN Fail ELSE owner' = next /\ UNCHANGED outcome
    /\ UNCHANGED <<life, grouped, holds, written, streaming, stopped, struck>>

(* Bug: the leader is reaped as soon as it has ended; the pipes are drained
   to their end afterwards. *)
ReapsFirst ==
    /\ owner = "reap"
    /\ life' = IF life["leader"] = "zombie"
               THEN [life EXCEPT !["leader"] = "reaped"] ELSE life
    /\ IF life'["leader"] = "reaped" /\ closed = Pipes
       THEN owner' = "done" /\ outcome' = "captured"
       ELSE owner' = "check" /\ UNCHANGED outcome
    /\ UNCHANGED <<grouped, holds, buffered, written, output, closed,
                   streaming, stopped, struck>>

(* The leader is reaped once both pipes are closed; otherwise poll, and back
   to the top. *)
ReapLeader ==
    /\ owner = "reap"
    /\ IF closed = Pipes /\ life["leader"] = "zombie"
       THEN /\ life' = [life EXCEPT !["leader"] = "reaped"]
            /\ owner' = "done" /\ outcome' = "captured"
       ELSE owner' = "check" /\ UNCHANGED <<life, outcome>>
    /\ UNCHANGED <<grouped, holds, buffered, written, output, closed,
                   streaming, stopped, struck>>

(* A read or a poll that fails, or a consumer that does not like what it
   reads: the call fails at once. *)
ReadFails ==
    /\ owner \in {"check", "stdout", "stderr", "reap"}
    /\ Fail
    /\ UNCHANGED <<life, grouped, holds, buffered, written, output, closed,
                   streaming, stopped, struck>>

(* Owned::drop: the group is killed by its number ... *)
KillGroup ==
    /\ owner = "dropping"
    /\ LET S == {m \in Members : InGroup(m)} IN
         /\ life' = Ended(S) /\ holds' = Released({m \in S : Runs(m)})
    /\ struck' = IF GroupExists THEN "own" ELSE "another"
    /\ owner' = "waiting"
    /\ UNCHANGED <<outcome, grouped, buffered, written, output, closed,
                   streaming, stopped>>

(* ... and the leader is reaped. *)
WaitLeader ==
    /\ owner = "waiting" /\ life["leader"] \in {"zombie", "reaped"}
    /\ life' = [life EXCEPT !["leader"] = "reaped"]
    /\ owner' = "done"
    /\ UNCHANGED <<outcome, grouped, holds, buffered, written, output,
                   closed, streaming, stopped, struck>>

(* The deadline passes or the caller cancels. *)
Stop ==
    /\ ~stopped
    /\ stopped' = TRUE
    /\ UNCHANGED <<owner, outcome, life, grouped, holds, buffered, written,
                   output, closed, streaming, struck>>

(***************************************************************************)
(* The specification.                                                      *)
(***************************************************************************)
ProcessInit ==
    /\ owner = "check" /\ outcome = "none"
    /\ life = [m \in Members |-> IF m = "leader" THEN "running" ELSE "absent"]
    /\ grouped = TRUE
    /\ holds = [m \in Members |-> IF m = "leader" THEN Pipes ELSE {}]
    /\ buffered = [pipe \in Pipes |-> 0] /\ written = 0 /\ output = 0
    /\ closed = {} /\ streaming \in BOOLEAN /\ stopped = FALSE /\ struck = "nobody"

OwnerStep ==
    \/ CheckDeadline
    \/ Drain("stdout", "stderr") \/ Drain("stderr", "reap")
    \/ ReapLeader \/ KillGroup \/ WaitLeader

GroupStep ==
    \/ \E m \in Members : Exit(m) \/ \E pipe \in Pipes : WritePipe(m, pipe) \/ ClosePipe(m, pipe)
    \/ Fork \/ LeaveGroup

ProcessNext == OwnerStep \/ GroupStep \/ ReadFails \/ Stop

ProcessSpec == ProcessInit /\ [][ProcessNext]_processVars

(***************************************************************************)
(* Properties.                                                             *)
(***************************************************************************)
ProcessTypeOK ==
    /\ owner \in {"check", "stdout", "stderr", "reap", "dropping", "waiting", "done"}
    /\ outcome \in {"none", "captured", "failed"}
    /\ life \in [Members -> {"absent", "running", "zombie", "reaped"}]
    /\ holds \in [Members -> SUBSET Pipes]
    /\ output <= written /\ buffered["stdout"] <= written

(* The kill reaches this group and no other, a call that failed leaves
   nothing of the group behind, and a call that succeeded has all that the
   group wrote (process.rs: "descendants are still owned by this process
   group on every error and deadline"). *)
OwnedToTheEnd ==
    /\ struck # "another"
    /\ owner = "done" /\ outcome = "failed" =>
         \A m \in Members : InGroup(m) => ~Runs(m)
    /\ outcome = "captured" => output = written /\ life["leader"] = "reaped"
=============================================================================
